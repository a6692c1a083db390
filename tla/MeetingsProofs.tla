---------------------------- MODULE MeetingsProofs ----------------------------
(***************************************************************************)
(* The promises of the meetings of a pair, for any number of reminder      *)
(* runs, devices, times and moves.                                         *)
(*                                                                         *)
(* That nobody is reminded twice rests on the stamps: a run holds a claim  *)
(* no other run holds, and while its meeting still carries that stamp the  *)
(* meeting has neither moved nor been rung for.                            *)
(***************************************************************************)
EXTENDS Meetings, TLAPS, FiniteSetTheorems

Claims == 0..Cardinality(Runs) + 1
Meeting ==
  [start : Times, status : {"none", "scheduled", "cancelled"},
   source : {"scheduled", "instant"}, late : BOOLEAN,
   seq : 0..MaxMoves, claim : Claims, joined : SUBSET Pair]
Run == [id : 0..MaxRows, start : Times, claim : Claims, late : BOOLEAN]
Door == [open : BOOLEAN, stamps : BOOLEAN, id : 0..MaxRows]
Conversation ==
  [start : {0} \cup Slots, id : 0..MaxRows, joined : SUBSET Pair, unlocked : BOOLEAN]

\* What the booking and the reminder share.
BookOK ==
  /\ clock \in Times
  /\ conv \in Conversation
  /\ meeting \in [Rows -> Meeting]
  /\ rows \in 0..MaxRows /\ moves \in 0..MaxMoves
  /\ run \in [Runs -> Run]
  /\ bells \in [Rows -> [0..MaxMoves -> 0..2]] /\ lost \subseteq Rows \X (0..MaxMoves)

\* A row is written in order, and moves with the bookings.
RowsOK ==
  \A m \in Rows :
    /\ meeting[m].seq <= moves
    /\ m > rows => meeting[m].status = "none" /\ meeting[m].seq = 0 /\ meeting[m].claim = 0

\* One bell per time of a meeting, or one failure; neither of a time to come or
\* of one unclaimed.
Untold(m, i) == bells[m][i] = 0 /\ <<m, i>> \notin lost
BellsOK ==
  \A m \in Rows :
    /\ \A i \in 0..MaxMoves :
         /\ bells[m][i] <= 1 /\ (<<m, i>> \in lost => bells[m][i] = 0)
         /\ i > meeting[m].seq => Untold(m, i)
    /\ meeting[m].claim = 0 => Untold(m, meeting[m].seq)

\* While a meeting has a run's stamp, that run has it to itself.
RunsOK ==
  /\ \A r \in Runs : run[r] # NoClaim =>
       LET m == run[r].id IN
       /\ m \in 1..rows /\ run[r].claim # 0
       /\ meeting[m].claim = run[r].claim =>
            meeting[m].start = run[r].start /\ Untold(m, meeting[m].seq)
  /\ \A r, q \in Runs :
       run[r] # NoClaim /\ run[q] # NoClaim /\ r # q => run[r].claim # run[q].claim

ReminderInv == BookOK /\ RowsOK /\ BellsOK /\ RunsOK

\* Where no server of before writes, the conversation names a booked meeting, and
\* every booked meeting ahead; one about to start waits for a run, is in a run's
\* hand, or is settled: it has rung, or its run failed; one that started is settled.
Settled(m) == bells[m][meeting[m].seq] = 1 \/ <<m, meeting[m].seq>> \in lost
Noticed(m) ==
  LET x == meeting[m] IN
  /\ x.start > clock + 1 => x.claim = 0
  /\ x.start = clock + 1 /\ ~x.late =>
       \/ x.claim = 0 \/ Settled(m)
       \/ \E r \in Runs : run[r] # NoClaim /\ run[r].id = m /\ run[r].claim = x.claim
  /\ x.start = clock /\ ~x.late => Settled(m)
NoticeOK ==
  /\ conv.start # 0 =>
       conv.id \in 1..rows /\ Booked(conv.id) /\ meeting[conv.id].start = conv.start
  /\ \A m \in Rows : Booked(m) =>
       /\ meeting[m].start > clock => conv.id = m /\ conv.start = meeting[m].start
       /\ Noticed(m)
  /\ \A r \in Runs : run[r] # NoClaim /\ meeting[run[r].id].claim = run[r].claim =>
       run[r].late = meeting[run[r].id].late
NoticeInv == oldWrites \in Nat /\ (oldWrites = 0 => NoticeOK)

\* Who has a stamp came in the window, and both did once calls are unlocked.
RoomInv ==
  /\ conv.joined \subseteq inWindow /\ inWindow \subseteq Pair
  /\ door \in [Pair -> Door]
  /\ \A p \in Pair : door[p].stamps => p \in inWindow
  /\ conv.unlocked => inWindow = Pair

\* A call that waits has no meeting yet.
RingRecord ==
  [status : {"none", "pending", "accepted", "declined", "cancelled", "expired"},
   lapsed : BOOLEAN]
RingInv ==
  /\ ring \in [Rings -> RingRecord]
  /\ answer \in [Devices -> [ring : 0..MaxRings, lapsed : BOOLEAN]]
  /\ rooms \in [Rings -> 0..1]
  /\ \A k \in Rings :
       /\ ring[k].status \in {"none", "pending"} => rooms[k] = 0
       /\ ring[k].status = "accepted" => rooms[k] = 1

-----------------------------------------------------------------------------
(* The room *)

\* The reminder's stamps are numbers.
LEMMA RunsCounted == Cardinality(Runs) \in Nat
  BY FS_CardinalityType, PairBoundsAssumption

\* What is booked or moved names a slot, and nobody's stamp.
LEMMA BookKeepsRoom ==
  ASSUME BookOK, RoomInv, NEW s \in Slots, Book(s), UNCHANGED <<door, inWindow>>
  PROVE  RoomInv'
  <1>1. \E m : conv' = [conv EXCEPT !.start = s, !.id = m]
    BY DEF Book
  <1>2. conv'.joined = conv.joined /\ conv'.unlocked = conv.unlocked
    BY <1>1 DEF BookOK, Conversation
  <1> QED BY <1>2 DEF RoomInv

\* The time a save books is one both saved.
LEMMA SaveBooks ==
  ASSUME NEW av, Cardinality(Shared(av)) = 1
  PROVE  (CHOOSE s \in Shared(av) : TRUE) \in Slots
  <1>1. Shared(av) # {}
    BY FS_EmptySet
  <1> QED BY <1>1 DEF Shared

\* Nobody gets a stamp but at the door, in the window.
LEMMA PairNextKeepsRoom ==
  ASSUME BookOK, RoomInv, [PairNext]_pairVars
  PROVE  RoomInv'
  <1>1. ASSUME NEW p \in Pair, Save(p) PROVE RoomInv'
    <2>1. UNCHANGED <<door, inWindow>>
      BY <1>1 DEF Save
    <2>2. CASE \E s \in Slots : Book(s)
      BY <2>1, <2>2, BookKeepsRoom
    <2>3. CASE UNCHANGED conv
      BY <2>1, <2>3 DEF RoomInv
    <2> QED BY <1>1, <2>2, <2>3, SaveBooks DEF Save
  <1>2. ASSUME NEW s \in Slots, Confirm(s) PROVE RoomInv'
    BY <1>2, BookKeepsRoom DEF Confirm
  <1>3. ASSUME NEW p \in Pair, NEW m \in Rows, Cancel(p, m) PROVE RoomInv'
    <2>1. UNCHANGED <<door, inWindow>>
      BY <1>3 DEF Cancel
    <2>2. conv'.joined = conv.joined /\ conv'.unlocked = conv.unlocked
      BY <1>3 DEF Cancel, BookOK, Conversation
    <2> QED BY <2>1, <2>2 DEF RoomInv
  <1>4. ASSUME NEW s \in Slots, OldServerBooks(s) PROVE RoomInv'
    <2>1. UNCHANGED <<door, inWindow>>
      BY <1>4 DEF OldServerBooks
    <2>2. conv'.joined = conv.joined /\ conv'.unlocked = conv.unlocked
      BY <1>4 DEF OldServerBooks, BookOK, Conversation
    <2> QED BY <2>1, <2>2 DEF RoomInv
  <1>5. ASSUME NEW p \in Pair, ComeToDoor(p) PROVE RoomInv'
    <2>0. PICK inside \in InWindow(conv.start) :
            \E id \in Standing(conv.start # 0 /\ inside) :
              /\ door' = [door EXCEPT ![p] =
                   [open |-> TRUE, stamps |-> Stamps(conv.start # 0 /\ inside, id), id |-> id]]
              /\ inWindow' = IF conv.start # 0 /\ inside THEN inWindow \cup {p} ELSE inWindow
      BY <1>5 DEF ComeToDoor
    <2>1. PICK id \in Standing(conv.start # 0 /\ inside) :
            /\ door' = [door EXCEPT ![p] =
                 [open |-> TRUE, stamps |-> Stamps(conv.start # 0 /\ inside, id), id |-> id]]
            /\ inWindow' = IF conv.start # 0 /\ inside THEN inWindow \cup {p} ELSE inWindow
      BY <2>0
    <2>2. id \in 0..MaxRows /\ Stamps(conv.start # 0 /\ inside, id) \in BOOLEAN
      BY PairBoundsAssumption DEF Standing, Rows, Stamps
    <2>3. Stamps(conv.start # 0 /\ inside, id) => p \in inWindow'
      BY <2>1 DEF Stamps
    <2>4. /\ door' \in [Pair -> Door] /\ \A q \in Pair \ {p} : door'[q] = door[q]
          /\ door'[p].stamps => p \in inWindow'
      BY <2>1, <2>2, <2>3 DEF RoomInv, Door
    <2>5. inWindow \subseteq inWindow' /\ inWindow' \subseteq Pair /\ conv' = conv
      BY <1>5, <2>1 DEF RoomInv, ComeToDoor
    <2> QED BY <2>4, <2>5 DEF RoomInv
  <1>6. ASSUME NEW p \in Pair, Enter(p) PROVE RoomInv'
    <2>1. door' = [door EXCEPT ![p] = NoDoor] /\ inWindow' = inWindow
      BY <1>6 DEF Enter
    <2>2. /\ door' \in [Pair -> Door] /\ \A q \in Pair : door'[q].stamps => door[q].stamps
      BY <2>1, PairBoundsAssumption DEF RoomInv, Door, NoDoor
    <2>3. CASE door[p].stamps
      <3>1. conv' = [conv EXCEPT !.joined = conv.joined \cup {p},
                                 !.unlocked = @ \/ (conv.joined \cup {p}) = Pair]
        BY <1>6, <2>3 DEF Enter
      <3>2. conv'.joined = conv.joined \cup {p}
        BY <3>1 DEF BookOK, Conversation
      <3>3. conv'.unlocked <=> (conv.unlocked \/ (conv.joined \cup {p}) = Pair)
        BY <3>1 DEF BookOK, Conversation
      <3>4. conv.joined \cup {p} \subseteq inWindow
        BY <2>3 DEF RoomInv
      <3> QED BY <2>1, <2>2, <3>2, <3>3, <3>4 DEF RoomInv
    <2>4. CASE ~door[p].stamps
      BY <1>6, <2>1, <2>2, <2>4 DEF Enter, RoomInv
    <2> QED BY <2>3, <2>4
  <1>7. ASSUME UNCHANGED <<conv, door, inWindow>> PROVE RoomInv'
    BY <1>7 DEF RoomInv
  <1>8. CASE Tick \/ Reminding \/ Ringing \/ Lapsing \/ UNCHANGED pairVars
    BY <1>7, <1>8 DEF Tick, Reminding, Claim, Remind, RemindFails, Ringing, Ring, Ends, Accept, Answered,
                      Lapsing, Lapse, pairVars
  <1> QED BY <1>1, <1>2, <1>3, <1>4, <1>5, <1>6, <1>8 DEF PairNext, Booking, Deploying, Entering

-----------------------------------------------------------------------------
(* Calls *)

\* Only a call that waits is given a meeting, and then it waits no more.
LEMMA PairNextKeepsRings ==
  ASSUME RingInv, [PairNext]_pairVars
  PROVE  RingInv'
  <1>1. ASSUME NEW k \in Rings, Ring(k) PROVE RingInv'
    <2>1. ring' = [i \in Rings |->
            IF i = k THEN [status |-> "pending", lapsed |-> FALSE]
            ELSE IF ring[i].status = "pending" THEN [ring[i] EXCEPT !.status = "expired"]
            ELSE ring[i]]
      BY <1>1 DEF Ring
    <2>2. UNCHANGED <<answer, rooms>> /\ ring[k].status = "none"
      BY <1>1 DEF Ring
    <2>3. ASSUME NEW i \in Rings
          PROVE  /\ ring'[i] \in RingRecord
                 /\ ring'[i].status = ring[i].status \/ ring'[i].status = "expired"
                      \/ (i = k /\ ring'[i].status = "pending")
      BY <2>1 DEF RingInv, RingRecord
    <2>4. ring' \in [Rings -> RingRecord]
      BY <2>1, <2>3
    <2> QED BY <2>2, <2>3, <2>4 DEF RingInv
  <1>2. ASSUME NEW k \in Rings, NEW x \in RingRecord, ring' = [ring EXCEPT ![k] = x],
               x.status = ring[k].status \/ x.status \in {"declined", "cancelled", "expired"},
               answer' \in [Devices -> [ring : 0..MaxRings, lapsed : BOOLEAN]], rooms' = rooms
        PROVE  RingInv'
    <2>1. ring' \in [Rings -> RingRecord] /\ ring'[k] = x /\ \A i \in Rings \ {k} : ring'[i] = ring[i]
      BY <1>2 DEF RingInv
    <2> QED BY <1>2, <2>1 DEF RingInv
  <1>3. ASSUME NEW k \in Rings, NEW how \in {"declined", "cancelled"}, Ends(k, how) PROVE RingInv'
    <2>1. ring' = [ring EXCEPT ![k] = [ring[k] EXCEPT !.status = how]] /\ UNCHANGED <<answer, rooms>>
      BY <1>3 DEF Ends
    <2>2. [ring[k] EXCEPT !.status = how] \in RingRecord
      BY DEF RingInv, RingRecord
    <2>3. [ring[k] EXCEPT !.status = how].status = how
      BY DEF RingInv, RingRecord
    <2>4. answer' \in [Devices -> [ring : 0..MaxRings, lapsed : BOOLEAN]]
      BY <2>1 DEF RingInv
    <2> QED BY <1>2, <2>1, <2>2, <2>3, <2>4
  <1>4. ASSUME NEW k \in Rings, Lapse(k) PROVE RingInv'
    <2>1. ring' = [ring EXCEPT ![k] = [ring[k] EXCEPT !.lapsed = TRUE]] /\ UNCHANGED <<answer, rooms>>
      BY <1>4 DEF Lapse
    <2>2. /\ [ring[k] EXCEPT !.lapsed = TRUE] \in RingRecord
          /\ [ring[k] EXCEPT !.lapsed = TRUE].status = ring[k].status
      BY DEF RingInv, RingRecord
    <2>3. answer' \in [Devices -> [ring : 0..MaxRings, lapsed : BOOLEAN]]
      BY <2>1 DEF RingInv
    <2> QED BY <1>2, <2>1, <2>2, <2>3
  <1>5. ASSUME NEW d \in Devices, Accept(d) PROVE RingInv'
    <2>1. PICK k \in Rings : answer' = [answer EXCEPT ![d] = [ring |-> k, lapsed |-> ring[k].lapsed]]
      BY <1>5 DEF Accept
    <2>2. [ring |-> k, lapsed |-> ring[k].lapsed] \in [ring : 0..MaxRings, lapsed : BOOLEAN]
      BY PairBoundsAssumption DEF RingInv, RingRecord, Rings
    <2>3. answer' \in [Devices -> [ring : 0..MaxRings, lapsed : BOOLEAN]]
      BY <2>1, <2>2 DEF RingInv
    <2> QED BY <1>5, <2>3 DEF RingInv, Accept
  <1>6. ASSUME NEW d \in Devices, Answered(d) PROVE RingInv'
    <2> DEFINE k == answer[d].ring
    <2>1. k \in Rings
      BY <1>6 DEF Answered, RingInv, Rings
    <2>2. answer' \in [Devices -> [ring : 0..MaxRings, lapsed : BOOLEAN]]
      <3>1. answer' = [answer EXCEPT ![d] = NoAnswer]
        BY <1>6 DEF Answered
      <3>2. NoAnswer \in [ring : 0..MaxRings, lapsed : BOOLEAN]
        BY PairBoundsAssumption DEF NoAnswer
      <3> QED BY <3>1, <3>2 DEF RingInv
    <2>3. CASE answer[d].lapsed
      <3>1. ring' = [ring EXCEPT ![k] = [ring[k] EXCEPT !.status = "expired"]] /\ rooms' = rooms
        BY <1>6, <2>3 DEF Answered
      <3>2. /\ [ring[k] EXCEPT !.status = "expired"] \in RingRecord
            /\ [ring[k] EXCEPT !.status = "expired"].status = "expired"
        BY <2>1 DEF RingInv, RingRecord
      <3> HIDE DEF k
      <3> QED BY <1>2, <2>1, <2>2, <3>1, <3>2
    <2>4. CASE ~answer[d].lapsed /\ Takes(k)
      <3>1. /\ ring' = [ring EXCEPT ![k] = [ring[k] EXCEPT !.status = "accepted"]]
            /\ rooms' = [rooms EXCEPT ![k] = @ + 1]
            /\ ring[k].status = "pending"
        BY <1>6, <2>4 DEF Answered, Takes
      <3> HIDE DEF k
      <3>2. /\ [ring[k] EXCEPT !.status = "accepted"] \in RingRecord
            /\ [ring[k] EXCEPT !.status = "accepted"].status = "accepted"
        BY <2>1 DEF RingInv, RingRecord
      <3>3. rooms' \in [Rings -> 0..1] /\ rooms'[k] = 1 /\ \A i \in Rings \ {k} : rooms'[i] = rooms[i]
        BY <2>1, <3>1 DEF RingInv
      <3>4. /\ ring' \in [Rings -> RingRecord] /\ ring'[k].status = "accepted"
            /\ \A i \in Rings \ {k} : ring'[i] = ring[i]
        BY <2>1, <3>1, <3>2 DEF RingInv
      <3> QED BY <2>2, <3>3, <3>4 DEF RingInv
    <2>5. CASE ~answer[d].lapsed /\ ~Takes(k)
      <3>1. UNCHANGED <<ring, rooms>>
        BY <1>6, <2>5 DEF Answered
      <3> QED BY <2>2, <3>1 DEF RingInv
    <2> QED BY <2>3, <2>4, <2>5
  <1>7. ASSUME UNCHANGED <<ring, answer, rooms>> PROVE RingInv'
    BY <1>7 DEF RingInv
  <1>8. CASE Booking \/ Deploying \/ Reminding \/ Entering \/ UNCHANGED pairVars
    BY <1>7, <1>8 DEF Booking, Save, Confirm, Cancel, Tick, Deploying, OldServerBooks, Reminding,
                      Claim, Remind, RemindFails, Entering, ComeToDoor, Enter, pairVars
  <1> QED BY <1>1, <1>3, <1>4, <1>5, <1>6, <1>8 DEF PairNext, Ringing, Lapsing

-----------------------------------------------------------------------------
(* The reminder *)

\* A run that claims always finds a stamp no run holds: there are more of them
\* than runs.
LEMMA StampIsFresh ==
  ASSUME run \in [Runs -> Run]
  PROVE  Stamp \in 1..Cardinality(Runs) + 1 /\ \A r \in Runs : run[r].claim # Stamp
  <1> DEFINE N == Cardinality(Runs)
  <1>1. N \in Nat /\ IsFiniteSet(Runs)
    BY RunsCounted, PairBoundsAssumption
  <1>2. \E n \in 1..N + 1 : \A r \in Runs : run[r].claim # n
    <2> SUFFICES ASSUME \A n \in 1..N + 1 : \E r \in Runs : run[r].claim = n
                 PROVE  FALSE
      OBVIOUS
    <2> DEFINE f == [n \in 1..N + 1 |-> CHOOSE r \in Runs : run[r].claim = n]
    <2>1. \A n \in 1..N + 1 : f[n] \in Runs /\ run[f[n]].claim = n
      OBVIOUS
    <2>2. f \in [1..N + 1 -> Runs]
      BY <2>1
    <2>3. IsFiniteSet(1..N + 1) /\ Cardinality(1..N + 1) = N + 1
      BY <1>1, FS_Interval
    <2> HIDE DEF f, N
    <2>4. Cardinality(Runs) < Cardinality(1..N + 1)
      BY <1>1, <2>3 DEF N
    <2>5. \E x, y \in 1..N + 1 : x # y /\ f[x] = f[y]
      BY <1>1, <2>2, <2>3, <2>4, FS_PigeonHole
    <2> QED BY <2>1, <2>5
  <1> QED BY <1>2 DEF Stamp

\* A row that is written for the first time, moves on, or keeps its time and its
\* claim, and no bell: the runs and the bells are as they were.
LEMMA OneRowKeeps ==
  ASSUME ReminderInv, NEW m \in Rows, NEW x \in Meeting,
         meeting' = [meeting EXCEPT ![m] = x], UNCHANGED <<run, bells, lost>>,
         clock' \in Times, conv' \in Conversation,
         rows' \in 0..MaxRows, rows' >= rows, m <= rows',
         moves' \in 0..MaxMoves, moves' >= moves, x.seq <= moves',
         \/ m > rows /\ x.seq = 0
         \/ /\ x.seq > meeting[m].seq
            /\ x.claim = 0 \/ (x.claim = meeting[m].claim /\ x.start = meeting[m].start)
         \/ x.seq = meeting[m].seq /\ x.claim = meeting[m].claim /\ x.start = meeting[m].start
  PROVE  ReminderInv'
  <1>1. meeting' \in [Rows -> Meeting] /\ meeting'[m] = x /\ \A i \in Rows \ {m} : meeting'[i] = meeting[i]
    BY DEF ReminderInv, BookOK
  <1>2. /\ meeting[m].seq \in 0..MaxMoves /\ x.seq \in 0..MaxMoves
        /\ rows \in Nat /\ moves \in Nat /\ m \in Nat
        /\ \A i \in Rows : i \in Nat /\ meeting[i].seq \in Nat
    BY PairBoundsAssumption DEF ReminderInv, BookOK, Meeting, Rows
  <1>3. m > rows => meeting[m].seq = 0 /\ meeting[m].claim = 0
    BY DEF ReminderInv, RowsOK
  <1>4. BookOK'
    BY <1>1 DEF ReminderInv, BookOK
  <1>5. RowsOK'
    BY <1>1, <1>2, PairBoundsAssumption DEF ReminderInv, RowsOK
  <1>6. Untold(m, x.seq) \/ (x.seq = meeting[m].seq /\ x.claim = meeting[m].claim)
    BY <1>2, <1>3 DEF ReminderInv, BellsOK
  <1>7. BellsOK'
    <2>1. ASSUME NEW i \in 0..MaxMoves, i > x.seq PROVE Untold(m, i)
      <3>1. i > meeting[m].seq
        BY <1>2, <1>3, <2>1, PairBoundsAssumption
      <3> QED BY <3>1 DEF ReminderInv, BellsOK
    <2>2. x.claim = 0 => Untold(m, x.seq)
      BY <1>6 DEF ReminderInv, BellsOK
    <2>3. \A j \in Rows, i \in 0..MaxMoves : Untold(j, i)' <=> Untold(j, i)
      BY DEF Untold
    <2>4. \A j \in Rows, i \in 0..MaxMoves :
            bells'[j][i] <= 1 /\ (<<j, i>> \in lost' => bells'[j][i] = 0)
      BY DEF ReminderInv, BellsOK
    <2>5. \A i \in 0..MaxMoves : (i > meeting[m].seq => Untold(m, i))'
      BY <1>1, <2>1, <2>3
    <2>6. (meeting[m].claim = 0 => Untold(m, meeting[m].seq))'
      BY <1>1, <1>2, <2>2, <2>3
    <2>7. ASSUME NEW j \in Rows \ {m}
          PROVE  /\ \A i \in 0..MaxMoves : (i > meeting[j].seq => Untold(j, i))'
                 /\ (meeting[j].claim = 0 => Untold(j, meeting[j].seq))'
      <3>1. meeting'[j] = meeting[j] /\ meeting[j].seq \in 0..MaxMoves
        BY <1>1 DEF ReminderInv, BookOK, Meeting
      <3> QED BY <2>3, <3>1 DEF ReminderInv, BellsOK
    <2> QED BY <2>4, <2>5, <2>6, <2>7 DEF BellsOK
  <1>8. RunsOK'
    <2>1. ASSUME NEW r \in Runs, run[r] # NoClaim
          PROVE  /\ run[r].id \in 1..rows' /\ run[r].claim # 0
                 /\ meeting'[run[r].id].claim = run[r].claim =>
                      /\ meeting'[run[r].id].start = run[r].start
                      /\ Untold(run[r].id, meeting'[run[r].id].seq)
      <3>1. /\ run[r].id \in 1..rows /\ run[r].claim # 0
            /\ meeting[run[r].id].claim = run[r].claim =>
                 /\ meeting[run[r].id].start = run[r].start
                 /\ Untold(run[r].id, meeting[run[r].id].seq)
        BY <2>1 DEF ReminderInv, RunsOK
      <3>2. run[r].id \in 1..rows' /\ run[r].id \in Rows
        BY <1>2, <3>1, PairBoundsAssumption DEF Rows, ReminderInv, BookOK
      <3>3. CASE run[r].id = m
        <4>1. ~(m > rows)
          BY <1>2, <3>1, <3>3
        <4>2. x.claim = run[r].claim => x.claim = meeting[m].claim /\ x.start = meeting[m].start
          BY <3>1, <4>1
        <4>3. x.claim = run[r].claim => Untold(m, x.seq)
          BY <1>6, <3>1, <3>3, <4>2
        <4> QED BY <1>1, <3>1, <3>2, <3>3, <4>2, <4>3
      <3>4. CASE run[r].id # m
        BY <1>1, <3>1, <3>2, <3>4
      <3> QED BY <3>3, <3>4
    <2> QED BY <2>1 DEF ReminderInv, RunsOK, Untold
  <1> QED BY <1>4, <1>5, <1>7, <1>8 DEF ReminderInv

\* A row that moves on, with its claim taken off.
LEMMA MovedRow ==
  ASSUME NEW row \in Meeting, NEW s \in Times, AboutToStart(s) \in BOOLEAN,
         row.seq + 1 \in 0..MaxMoves
  PROVE  Moved(row, s) \in Meeting /\ Moved(row, s).seq = row.seq + 1 /\ Moved(row, s).claim = 0
  <1>1. 0 \in Claims
    BY RunsCounted DEF Claims
  <1> QED BY <1>1 DEF Moved, Meeting

\* A row that is booked or written for a call for the first time.
LEMMA NewRow ==
  ASSUME NEW s \in Times, NEW late \in BOOLEAN, NEW source \in {"scheduled", "instant"},
         NEW claim \in Claims
  PROVE  LET x == [start |-> s, status |-> "scheduled", source |-> source, late |-> late,
                   seq |-> 0, claim |-> claim, joined |-> {}]
         IN  x \in Meeting /\ x.seq = 0
  BY PairBoundsAssumption DEF Meeting

\* What stands is moved with its claim taken off, and what does not is new.
LEMMA BookKeeps ==
  ASSUME ReminderInv, NEW s \in Slots, Book(s), UNCHANGED <<clock, run, bells, lost>>
  PROVE  ReminderInv'
  <1> DEFINE standing == Replaced
             m == IF standing # 0 THEN standing ELSE rows + 1
             x == IF standing # 0 THEN Moved(meeting[m], s)
                  ELSE [NoMeeting EXCEPT !.start = s, !.status = "scheduled", !.late = AboutToStart(s)]
  <1>1. /\ m <= MaxRows /\ moves < MaxMoves /\ moves' = moves + 1
        /\ rows' = IF standing # 0 THEN rows ELSE m
        /\ meeting' = [meeting EXCEPT ![m] = x]
        /\ conv' = [conv EXCEPT !.start = s, !.id = m]
    BY DEF Book
  <1>2. s \in Times /\ AboutToStart(s) \in BOOLEAN
    BY SlotsAssumption, PairBoundsAssumption DEF Times, AboutToStart
  <1>3. standing # 0 => standing \in Rows /\ meeting[standing].status = "scheduled"
    BY PairBoundsAssumption DEF Replaced, Named, ReminderInv, BookOK, Conversation, Rows
  <1>4. standing # 0 => standing <= rows
    BY <1>3, PairBoundsAssumption DEF ReminderInv, RowsOK, BookOK, Rows
  <1>5. m \in Rows /\ rows' \in 0..MaxRows /\ rows' >= rows /\ m <= rows'
    BY <1>1, <1>3, <1>4, PairBoundsAssumption DEF ReminderInv, BookOK, Rows
  <1>6. moves' \in 0..MaxMoves /\ moves' >= moves /\ meeting[m] \in Meeting /\ meeting[m].seq <= moves
    BY <1>1, <1>5, PairBoundsAssumption DEF ReminderInv, BookOK, RowsOK
  <1>7. conv' \in Conversation
    <2>1. m \in 0..MaxRows /\ conv \in Conversation
      BY <1>5, PairBoundsAssumption DEF Rows, ReminderInv, BookOK
    <2> HIDE DEF m
    <2> QED BY <1>1, <2>1 DEF Conversation
  <1>8. CASE standing # 0
    <2>1. x = Moved(meeting[m], s)
      BY <1>8
    <2>2. meeting[m].seq \in Nat /\ meeting[m].seq + 1 \in 0..MaxMoves
      BY <1>1, <1>6, PairBoundsAssumption DEF Meeting, ReminderInv, BookOK
    <2>3. x \in Meeting /\ x.seq = meeting[m].seq + 1 /\ x.claim = 0
      <3> HIDE DEF m, x
      <3> QED BY <1>2, <1>6, <2>1, <2>2, MovedRow
    <2>4. x.seq > meeting[m].seq /\ x.seq <= moves'
      BY <1>1, <1>6, <2>2, <2>3, PairBoundsAssumption DEF ReminderInv, BookOK
    <2> HIDE DEF m, x, standing
    <2> QED BY <1>1, <1>5, <1>6, <1>7, <2>3, <2>4, OneRowKeeps DEF ReminderInv, BookOK
  <1>9. CASE standing = 0
    <2>1. x = [start |-> s, status |-> "scheduled", source |-> "scheduled", late |-> AboutToStart(s),
               seq |-> 0, claim |-> 0, joined |-> {}]
      BY <1>9 DEF NoMeeting
    <2>2. x \in Meeting /\ x.seq = 0
      <3>1. 0 \in Claims
        BY RunsCounted DEF Claims
      <3> HIDE DEF x
      <3> QED BY <1>2, <2>1, <3>1, NewRow
    <2>3. m > rows /\ x.seq <= moves'
      BY <1>6, <1>9, <2>2, PairBoundsAssumption DEF ReminderInv, BookOK
    <2> HIDE DEF m, x, standing
    <2> QED BY <1>1, <1>5, <1>6, <1>7, <2>2, <2>3, OneRowKeeps DEF ReminderInv, BookOK
  <1> QED BY <1>8, <1>9

\* A cancelled meeting keeps its claim and gets a new time's bell.
LEMMA CancelKeeps ==
  ASSUME ReminderInv, NEW p \in Pair, NEW m \in Rows, Cancel(p, m)
  PROVE  ReminderInv'
  <1> DEFINE x == [meeting[m] EXCEPT !.status = "cancelled", !.seq = @ + 1]
  <1>1. /\ meeting' = [meeting EXCEPT ![m] = x] /\ UNCHANGED <<run, bells, lost, clock, rows>>
        /\ moves < MaxMoves /\ moves' = moves + 1 /\ meeting[m].status = "scheduled"
    BY DEF Cancel
  <1>2. meeting[m] \in Meeting /\ meeting[m].seq <= moves /\ m <= rows /\ clock' \in Times
    BY <1>1, PairBoundsAssumption DEF ReminderInv, BookOK, RowsOK, Rows
  <1>3. conv' \in Conversation
    <2>1. conv \in Conversation
      BY DEF ReminderInv, BookOK
    <2>2. [conv EXCEPT !.start = 0, !.id = 0] \in Conversation
      <3>1. 0 \in 0..MaxRows
        BY PairBoundsAssumption
      <3>2. [conv EXCEPT !.start = 0] \in Conversation
        BY <2>1 DEF Conversation
      <3> DEFINE k == [conv EXCEPT !.start = 0]
      <3>3. k \in Conversation
        BY <3>2
      <3>4. [conv EXCEPT !.start = 0, !.id = 0] = [k EXCEPT !.id = 0]
        OBVIOUS
      <3> HIDE DEF k
      <3>5. [k EXCEPT !.id = 0] \in Conversation
        BY <3>1, <3>3 DEF Conversation
      <3> QED BY <3>4, <3>5
    <2>3. CASE Named = m
      <3>1. conv' = [conv EXCEPT !.start = 0, !.id = 0]
        BY <2>3 DEF Cancel
      <3> QED BY <2>2, <3>1
    <2>4. CASE Named # m
      <3>1. conv' = conv
        BY <2>4 DEF Cancel
      <3> QED BY <2>1, <3>1
    <2> QED BY <2>3, <2>4
  <1>4. moves' \in 0..MaxMoves /\ moves' >= moves /\ rows' \in 0..MaxRows /\ rows' >= rows /\ m <= rows'
    BY <1>1, <1>2, PairBoundsAssumption DEF ReminderInv, BookOK
  <1>5. meeting[m].seq \in Nat /\ meeting[m].seq + 1 \in 0..MaxMoves /\ meeting[m].seq + 1 <= moves'
    BY <1>1, <1>2, PairBoundsAssumption DEF Meeting, ReminderInv, BookOK
  <1>6. /\ x \in Meeting /\ x.seq = meeting[m].seq + 1
        /\ x.claim = meeting[m].claim /\ x.start = meeting[m].start
    BY <1>2, <1>5 DEF Meeting
  <1>7. x.seq > meeting[m].seq /\ x.seq <= moves'
    BY <1>5, <1>6
  <1> HIDE DEF x
  <1> QED BY <1>1, <1>2, <1>3, <1>4, <1>6, <1>7, OneRowKeeps

\* Coming in stamps the meeting's row and nothing else of it.
LEMMA EnterKeeps ==
  ASSUME ReminderInv, RoomInv, NEW p \in Pair, Enter(p)
  PROVE  ReminderInv'
  <1> DEFINE id == door[p].id
             x == [meeting[id] EXCEPT !.joined = @ \cup {p}]
  <1>1. conv' \in Conversation
    BY DEF Enter, ReminderInv, RoomInv, BookOK, Conversation
  <1>2. UNCHANGED <<run, bells, lost, clock, rows, moves>>
    BY DEF Enter
  <1>3. CASE id # 0 /\ meeting[id].status = "scheduled"
    <2>1. meeting' = [meeting EXCEPT ![id] = x]
      BY <1>3 DEF Enter
    <2>2. id \in Rows
      BY <1>3, PairBoundsAssumption DEF RoomInv, Door, Rows
    <2>3. meeting[id] \in Meeting /\ id <= rows /\ meeting[id].seq <= moves
      <3> HIDE DEF id
      <3> QED BY <1>3, <2>2, PairBoundsAssumption DEF ReminderInv, BookOK, RowsOK, Rows
    <2>4. /\ x \in Meeting /\ x.seq = meeting[id].seq
          /\ x.claim = meeting[id].claim /\ x.start = meeting[id].start
      BY <2>3 DEF Meeting
    <2>5. /\ clock' \in Times /\ rows' \in 0..MaxRows /\ rows' >= rows /\ id <= rows'
          /\ moves' \in 0..MaxMoves /\ moves' >= moves /\ x.seq <= moves'
      BY <1>2, <2>3, <2>4, PairBoundsAssumption DEF ReminderInv, BookOK
    <2> HIDE DEF id, x
    <2> QED BY <1>1, <1>2, <2>1, <2>2, <2>4, <2>5, OneRowKeeps
  <1>4. CASE ~(id # 0 /\ meeting[id].status = "scheduled")
    <2>1. meeting' = meeting
      BY <1>4 DEF Enter
    <2> QED BY <1>1, <1>2, <2>1 DEF ReminderInv, BookOK, RowsOK, BellsOK, RunsOK, Untold
  <1> QED BY <1>3, <1>4

\* The row an answered call inserts.
LEMMA InstantRow ==
  ASSUME NEW s \in Times, NEW c \in Claims, MaxMoves \in Nat, 0 \in Times, 0 \in Claims
  PROVE  LET x == [NoMeeting EXCEPT !.start = s, !.status = "scheduled", !.source = "instant",
                                    !.claim = c]
         IN  x \in Meeting /\ x.seq = 0
  <1>1. NoMeeting \in Meeting /\ NoMeeting.seq = 0
    BY DEF NoMeeting, Meeting
  <1> QED BY <1>1 DEF Meeting

\* An answered call writes a row of its own, already claimed.
LEMMA AnsweredKeeps ==
  ASSUME ReminderInv, NEW d \in Devices, Answered(d)
  PROVE  ReminderInv'
  <1> DEFINE x == [NoMeeting EXCEPT !.start = clock, !.status = "scheduled", !.source = "instant",
                                    !.claim = Cardinality(Runs) + 1]
  <1>1. UNCHANGED <<clock, conv, moves, run, bells, lost>>
    BY DEF Answered
  <1>2. CASE rows < MaxRows /\ rows' = rows + 1 /\ meeting' = [meeting EXCEPT ![rows'] = x]
    <2>1. x \in Meeting /\ x.seq = 0
      <3>1. Cardinality(Runs) + 1 \in Claims /\ clock \in Times
        BY RunsCounted DEF Claims, ReminderInv, BookOK
      <3>2. MaxMoves \in Nat /\ 0 \in Times /\ 0 \in Claims
        BY RunsCounted, PairBoundsAssumption DEF Times, Claims
      <3> QED BY <3>1, <3>2, InstantRow
    <2>2. /\ rows' \in Rows /\ rows' \in 0..MaxRows /\ rows' >= rows /\ rows' > rows /\ rows' <= rows'
      BY <1>2, PairBoundsAssumption DEF ReminderInv, BookOK, Rows
    <2>3. /\ clock' \in Times /\ conv' \in Conversation
          /\ moves' \in 0..MaxMoves /\ moves' >= moves /\ x.seq <= moves'
      BY <1>1, <2>1, PairBoundsAssumption DEF ReminderInv, BookOK
    <2>4. PICK m \in Rows : m = rows'
      BY <2>2
    <2> HIDE DEF x
    <2>5. meeting' = [meeting EXCEPT ![m] = x] /\ m > rows /\ m <= rows'
      BY <1>2, <2>2, <2>4
    <2> QED BY <1>1, <2>1, <2>2, <2>3, <2>5, OneRowKeeps
  <1>3. CASE UNCHANGED <<rows, meeting>>
    BY <1>1, <1>3 DEF ReminderInv, BookOK, RowsOK, BellsOK, RunsOK, Untold
  <1> QED BY <1>2, <1>3 DEF Answered

\* A claim stamps an unclaimed meeting, which has no bell for its time yet.
LEMMA ClaimKeeps ==
  ASSUME ReminderInv, NEW r \in Runs, Claim(r)
  PROVE  ReminderInv'
  <1>1. PICK m \in Rows :
          /\ Due(m)
          /\ meeting' = [meeting EXCEPT ![m].claim = Stamp]
          /\ run' = [run EXCEPT ![r] = [id |-> m, start |-> meeting[m].start, claim |-> Stamp,
                                        late |-> meeting[m].late]]
    BY DEF Claim
  <1>2. UNCHANGED <<clock, conv, rows, moves, bells, lost>>
    BY DEF Claim
  <1>3. Stamp \in 1..Cardinality(Runs) + 1 /\ \A q \in Runs : run[q].claim # Stamp
    BY StampIsFresh DEF ReminderInv, BookOK
  <1>4. Stamp \in Claims /\ Stamp # 0
    BY <1>3, RunsCounted DEF Claims
  <1>5. meeting[m] \in Meeting /\ meeting[m].claim = 0 /\ m \in 1..rows /\ m \in 0..MaxRows
    BY <1>1, PairBoundsAssumption DEF ReminderInv, BookOK, RowsOK, Rows, Due
  <1> DEFINE x == [meeting[m] EXCEPT !.claim = Stamp]
             k == [id |-> m, start |-> meeting[m].start, claim |-> Stamp, late |-> meeting[m].late]
  <1>6. /\ x \in Meeting /\ x.seq = meeting[m].seq /\ x.status = meeting[m].status
        /\ x.claim = Stamp /\ x.start = meeting[m].start
    BY <1>4, <1>5 DEF Meeting
  <1>7. k \in Run /\ k.id = m /\ k.start = meeting[m].start /\ k.claim = Stamp
    BY <1>4, <1>5 DEF Run, Meeting
  <1>8. /\ meeting' \in [Rows -> Meeting] /\ meeting'[m] = x
        /\ \A i \in Rows \ {m} : meeting'[i] = meeting[i]
    BY <1>1, <1>6 DEF ReminderInv, BookOK
  <1>9. run' \in [Runs -> Run] /\ run'[r] = k /\ \A q \in Runs \ {r} : run'[q] = run[q]
    BY <1>1, <1>7 DEF ReminderInv, BookOK
  <1> HIDE DEF x, k
  <1>10. BookOK'
    BY <1>2, <1>8, <1>9 DEF ReminderInv, BookOK
  <1>11. RowsOK'
    <2>1. ~(m > rows)
      BY <1>5, PairBoundsAssumption DEF ReminderInv, BookOK
    <2> QED BY <1>2, <1>6, <1>8, <2>1 DEF ReminderInv, RowsOK
  <1>12. BellsOK'
    BY <1>2, <1>4, <1>6, <1>8 DEF ReminderInv, BellsOK, Untold
  <1>13. RunsOK'
    <2>1. Untold(m, meeting[m].seq)
      BY <1>5 DEF ReminderInv, BellsOK
    <2>2. ASSUME NEW q \in Runs \ {r}, run[q] # NoClaim
          PROVE  /\ run[q].id \in 1..rows' /\ run[q].claim # 0
                 /\ meeting'[run[q].id].claim = run[q].claim =>
                      /\ meeting'[run[q].id].start = run[q].start
                      /\ Untold(run[q].id, meeting'[run[q].id].seq)
      <3>1. run[q].id \in Rows
        BY <2>2, PairBoundsAssumption DEF ReminderInv, RunsOK, BookOK, Rows
      <3> QED BY <1>2, <1>3, <1>6, <1>8, <2>2, <3>1 DEF ReminderInv, RunsOK, Untold
    <2>3. \A q \in Runs \ {r} : run'[q].claim # run'[r].claim
      BY <1>3, <1>7, <1>9
    <2> QED BY <1>2, <1>4, <1>5, <1>6, <1>7, <1>8, <1>9, <2>1, <2>2, <2>3 DEF ReminderInv, RunsOK, Untold
  <1> QED BY <1>10, <1>11, <1>12, <1>13 DEF ReminderInv

\* A bell is written under the run's own stamp only, and no stamp is ever found
\* on a meeting that moved.
LEMMA RemindKeeps ==
  ASSUME ReminderInv, NEW r \in Runs, Remind(r)
  PROVE  ReminderInv'
  <1> DEFINE k == run[r]
             m == k.id
  <1>1. k # NoClaim /\ run' = [run EXCEPT ![r] = NoClaim] /\ UNCHANGED <<clock, conv, rows, moves, lost>>
    BY DEF Remind
  <1>2. /\ m \in 1..rows /\ m \in Rows /\ k.claim # 0
        /\ meeting[m].claim = k.claim => meeting[m].start = k.start /\ Untold(m, meeting[m].seq)
    BY <1>1, PairBoundsAssumption DEF ReminderInv, RunsOK, BookOK, Rows
  <1>3. meeting' = meeting
    BY <1>2 DEF Remind, GivesBack
  <1>4. run' \in [Runs -> Run] /\ run'[r] = NoClaim /\ \A q \in Runs \ {r} : run'[q] = run[q]
    <2>1. NoClaim \in Run
      BY RunsCounted, PairBoundsAssumption DEF NoClaim, Run, Claims, Times
    <2> QED BY <1>1, <2>1 DEF ReminderInv, BookOK
  <1>5. meeting[m].seq \in 0..MaxMoves
    BY <1>2 DEF ReminderInv, BookOK, Meeting
  <1>6. CASE bells' = bells
    BY <1>1, <1>3, <1>4, <1>6 DEF ReminderInv, BookOK, RowsOK, BellsOK, RunsOK, Untold
  <1>7. CASE ~k.late /\ StillStands(k)
    <2>1. /\ bells' = [bells EXCEPT ![m][meeting[m].seq] = @ + 1]
          /\ meeting[m].claim = k.claim
      BY <1>7 DEF Remind, StillStands
    <2>2. Untold(m, meeting[m].seq)
      BY <1>2, <2>1
    <2> HIDE DEF k, m
    <2>3. /\ bells' \in [Rows -> [0..MaxMoves -> 0..2]]
          /\ bells'[m][meeting[m].seq] = 1
          /\ \A i \in 0..MaxMoves \ {meeting[m].seq} : bells'[m][i] = bells[m][i]
          /\ \A n \in Rows \ {m} : bells'[n] = bells[n]
      <3> DEFINE i == meeting[m].seq
                 b == bells[m]
      <3>1. b \in [0..MaxMoves -> 0..2] /\ bells \in [Rows -> [0..MaxMoves -> 0..2]] /\ m \in Rows
        BY <1>2 DEF ReminderInv, BookOK, m
      <3>2. bells' = [bells EXCEPT ![m] = [b EXCEPT ![i] = 1]]
        BY <2>1, <2>2 DEF Untold
      <3>3. i \in 0..MaxMoves
        BY <1>5 DEF m
      <3> HIDE DEF i, b
      <3>4. /\ [b EXCEPT ![i] = 1] \in [0..MaxMoves -> 0..2]
            /\ [b EXCEPT ![i] = 1][i] = 1
            /\ \A j \in 0..MaxMoves \ {i} : [b EXCEPT ![i] = 1][j] = b[j]
        BY <3>1, <3>3
      <3>5. /\ bells' \in [Rows -> [0..MaxMoves -> 0..2]] /\ bells'[m] = [b EXCEPT ![i] = 1]
            /\ \A n \in Rows \ {m} : bells'[n] = bells[n]
        BY <3>1, <3>2, <3>4
      <3> QED BY <3>3, <3>4, <3>5 DEF i, b
    <2>4. \A n \in Rows, i \in 0..MaxMoves :
            n # m \/ i # meeting[m].seq => bells'[n][i] = bells[n][i] /\ (Untold(n, i)' <=> Untold(n, i))
      BY <1>1, <2>3 DEF Untold
    <2>5. BookOK' /\ RowsOK'
      BY <1>1, <1>3, <1>4, <2>3 DEF ReminderInv, BookOK, RowsOK
    <2>6. BellsOK'
      <3>1. \A n \in Rows, i \in 0..MaxMoves :
              bells'[n][i] <= 1 /\ (<<n, i>> \in lost' => bells'[n][i] = 0)
        <4>1. bells'[m][meeting[m].seq] = 1 /\ <<m, meeting[m].seq>> \notin lost'
          BY <1>1, <2>2, <2>3 DEF Untold
        <4>2. \A n \in Rows, i \in 0..MaxMoves :
                bells[n][i] <= 1 /\ (<<n, i>> \in lost' => bells[n][i] = 0)
          BY <1>1 DEF ReminderInv, BellsOK
        <4>3. TAKE n \in Rows, i \in 0..MaxMoves
        <4>4. CASE n = m /\ i = meeting[m].seq
          BY <4>1, <4>4
        <4>5. CASE n # m \/ i # meeting[m].seq
          BY <2>4, <4>2, <4>5
        <4> QED BY <4>4, <4>5
      <3>2. \A n \in Rows, i \in 0..MaxMoves : (i > meeting[n].seq => Untold(n, i))'
        <4>1. \A n \in Rows, i \in 0..MaxMoves : i > meeting[n].seq => Untold(n, i)
          BY DEF ReminderInv, BellsOK
        <4>2. \A n \in Rows, i \in 0..MaxMoves : i > meeting[n].seq => n # m \/ i # meeting[m].seq
          BY PairBoundsAssumption
        <4> QED BY <1>3, <2>4, <4>1, <4>2
      <3>3. \A n \in Rows : (meeting[n].claim = 0 => Untold(n, meeting[n].seq))'
        <4>1. \A n \in Rows : meeting[n].claim = 0 => n # m /\ Untold(n, meeting[n].seq)
          BY <1>2, <2>1 DEF ReminderInv, BellsOK
        <4>2. \A n \in Rows : meeting[n].seq \in 0..MaxMoves
          BY DEF ReminderInv, BookOK, Meeting
        <4> QED BY <1>3, <2>4, <4>1, <4>2
      <3> QED BY <3>1, <3>2, <3>3 DEF BellsOK
    <2>7. RunsOK'
      <3>1. ASSUME NEW q \in Runs \ {r}, run[q] # NoClaim
            PROVE  /\ run[q].id \in 1..rows /\ run[q].claim # 0
                   /\ meeting[run[q].id].claim = run[q].claim =>
                        /\ meeting[run[q].id].start = run[q].start
                        /\ (Untold(run[q].id, meeting[run[q].id].seq))'
        <4>1. run[q].claim # k.claim /\ run[q].id \in Rows
          BY <1>1, <3>1, PairBoundsAssumption DEF ReminderInv, RunsOK, BookOK, Rows, k
        <4>2. meeting[run[q].id].claim = run[q].claim => run[q].id # m
          BY <2>1, <4>1
        <4>3. meeting[run[q].id].seq \in 0..MaxMoves
          BY <4>1 DEF ReminderInv, BookOK, Meeting
        <4>4. /\ run[q].id \in 1..rows /\ run[q].claim # 0
              /\ meeting[run[q].id].claim = run[q].claim =>
                   meeting[run[q].id].start = run[q].start /\ Untold(run[q].id, meeting[run[q].id].seq)
          BY <3>1 DEF ReminderInv, RunsOK
        <4> QED BY <1>3, <1>4, <2>4, <4>1, <4>2, <4>3, <4>4
      <3> QED BY <1>1, <1>3, <1>4, <3>1 DEF ReminderInv, RunsOK
    <2> QED BY <2>5, <2>6, <2>7 DEF ReminderInv
  <1> QED BY <1>6, <1>7 DEF Remind

\* A failure is written under the run's own stamp only, like a bell.
LEMMA RemindFailsKeeps ==
  ASSUME ReminderInv, NEW r \in Runs, RemindFails(r)
  PROVE  ReminderInv'
  <1> DEFINE k == run[r]
             m == k.id
  <1>1. /\ k # NoClaim /\ run' = [run EXCEPT ![r] = NoClaim]
        /\ UNCHANGED <<clock, conv, meeting, rows, moves, bells>>
    BY DEF RemindFails
  <1>2. /\ m \in 1..rows /\ m \in Rows /\ k.claim # 0
        /\ meeting[m].claim = k.claim => Untold(m, meeting[m].seq)
    <2>1. /\ run[r].id \in 1..rows /\ run[r].claim # 0
          /\ meeting[run[r].id].claim = run[r].claim => Untold(run[r].id, meeting[run[r].id].seq)
      BY <1>1 DEF ReminderInv, RunsOK
    <2>2. run[r].id \in Rows
      BY <2>1, PairBoundsAssumption DEF ReminderInv, BookOK, Rows
    <2> QED BY <2>1, <2>2
  <1>3. run' \in [Runs -> Run] /\ run'[r] = NoClaim /\ \A q \in Runs \ {r} : run'[q] = run[q]
    <2>1. NoClaim \in Run
      BY RunsCounted, PairBoundsAssumption DEF NoClaim, Run, Claims, Times
    <2> QED BY <1>1, <2>1 DEF ReminderInv, BookOK
  <1>4. CASE lost' = lost
    BY <1>1, <1>3, <1>4 DEF ReminderInv, BookOK, RowsOK, BellsOK, RunsOK, Untold
  <1>5. CASE meeting[m].claim = k.claim /\ lost' = lost \cup {<<m, meeting[m].seq>>}
    <2>1. /\ meeting[m].claim # 0 /\ Untold(m, meeting[m].seq)
          /\ meeting[m].seq \in 0..MaxMoves /\ ~(meeting[m].seq > meeting[m].seq)
      BY <1>2, <1>5 DEF ReminderInv, BookOK, Meeting
    <2> HIDE DEF k, m
    <2>2. BookOK' /\ RowsOK'
      BY <1>1, <1>2, <1>3, <1>5, <2>1 DEF ReminderInv, BookOK, RowsOK
    <2>3. BellsOK'
      BY <1>1, <1>5, <2>1 DEF ReminderInv, BellsOK, Untold
    <2>4. RunsOK'
      <3>1. ASSUME NEW q \in Runs \ {r}, run[q] # NoClaim, meeting[run[q].id].claim = run[q].claim
            PROVE  Untold(run[q].id, meeting[run[q].id].seq)'
        <4>1. run[q].claim # k.claim
          BY <1>1, <3>1 DEF ReminderInv, RunsOK, k
        <4> QED BY <1>1, <1>5, <3>1, <4>1 DEF ReminderInv, RunsOK, Untold
      <3> QED BY <1>1, <1>3, <3>1 DEF ReminderInv, RunsOK
    <2> QED BY <2>2, <2>3, <2>4 DEF ReminderInv
  <1> QED BY <1>4, <1>5 DEF RemindFails

\* Every step keeps what the reminder rests on.
LEMMA PairNextKeepsReminder ==
  ASSUME ReminderInv, RoomInv, [PairNext]_pairVars
  PROVE  ReminderInv'
  <1>1. ASSUME clock' \in Times, conv' \in Conversation, moves' \in 0..MaxMoves, moves' >= moves,
               UNCHANGED <<meeting, rows, run, bells, lost>>
        PROVE  ReminderInv'
    <2>1. \A m \in Rows : meeting[m].seq <= moves'
      BY <1>1, PairBoundsAssumption DEF ReminderInv, RowsOK, BookOK, Meeting
    <2> QED BY <1>1, <2>1 DEF ReminderInv, BookOK, RowsOK, BellsOK, RunsOK, Untold
  <1>2. clock \in Times /\ conv \in Conversation /\ moves \in 0..MaxMoves /\ moves >= moves
    BY PairBoundsAssumption DEF ReminderInv, BookOK
  <1>3. ASSUME NEW p \in Pair, Save(p) PROVE ReminderInv'
    <2>1. UNCHANGED <<clock, run, bells, lost>>
      BY <1>3 DEF Save
    <2>2. CASE \E s \in Slots : Book(s)
      BY <2>1, <2>2, BookKeeps
    <2>3. CASE UNCHANGED <<conv, meeting, rows, moves>>
      BY <1>1, <1>2, <2>1, <2>3
    <2> QED BY <1>3, <2>2, <2>3, SaveBooks DEF Save
  <1>4. ASSUME NEW s \in Slots, Confirm(s) PROVE ReminderInv'
    BY <1>4, BookKeeps DEF Confirm
  <1>5. CASE Tick
    <2>1. clock' \in Times
      BY <1>2, <1>5, PairBoundsAssumption DEF Tick, Times
    <2> QED BY <1>1, <1>2, <1>5, <2>1 DEF Tick
  <1>6. ASSUME NEW s \in Slots, OldServerBooks(s) PROVE ReminderInv'
    <2>1. conv' \in Conversation
      BY <1>2, <1>6 DEF OldServerBooks, Conversation
    <2> QED BY <1>1, <1>2, <1>6, <2>1 DEF OldServerBooks
  <1>7. ASSUME NEW k \in Rings, Ring(k) PROVE ReminderInv'
    <2>1. moves' \in 0..MaxMoves /\ moves' >= moves
      BY <1>2, <1>7, PairBoundsAssumption DEF Ring
    <2> QED BY <1>1, <1>2, <1>7, <2>1 DEF Ring
  <1>8. ASSUME UNCHANGED <<clock, conv, moves, meeting, rows, run, bells, lost>> PROVE ReminderInv'
    BY <1>1, <1>2, <1>8
  <1>9. ASSUME NEW p \in Pair, ComeToDoor(p) PROVE ReminderInv'
    BY <1>8, <1>9 DEF ComeToDoor
  <1>10. ASSUME NEW k \in Rings, NEW how \in {"declined", "cancelled"}, Ends(k, how)
         PROVE  ReminderInv'
    BY <1>8, <1>10 DEF Ends
  <1>11. ASSUME NEW d \in Devices, Accept(d) PROVE ReminderInv'
    BY <1>8, <1>11 DEF Accept
  <1>12. ASSUME NEW k \in Rings, Lapse(k) PROVE ReminderInv'
    BY <1>8, <1>12 DEF Lapse
  <1>13. CASE UNCHANGED pairVars
    BY <1>8, <1>13 DEF pairVars
  <1>14. CASE Booking
    BY <1>3, <1>4, <1>5, <1>14, CancelKeeps DEF Booking
  <1>15. CASE Reminding
    BY <1>15, ClaimKeeps, RemindKeeps, RemindFailsKeeps DEF Reminding
  <1>16. CASE Entering
    BY <1>9, <1>16, EnterKeeps DEF Entering
  <1>17. CASE Ringing
    BY <1>7, <1>10, <1>11, <1>17, AnsweredKeeps DEF Ringing
  <1> QED BY <1>6, <1>12, <1>13, <1>14, <1>15, <1>16, <1>17 DEF PairNext, Deploying, Lapsing

-----------------------------------------------------------------------------
(* No reminder is lost *)

\* What a booking makes: a meeting unclaimed, that the conversation names, of
\* the row that stood or of a new one.
LEMMA BookMakes ==
  ASSUME ReminderInv, NEW s \in Slots, Book(s)
  PROVE  \E m \in Rows :
           /\ conv'.start = s /\ conv'.id = m /\ m \in 1..rows'
           /\ meeting'[m].start = s /\ meeting'[m].status = "scheduled" /\ meeting'[m].claim = 0
           /\ \A i \in Rows \ {m} : meeting'[i] = meeting[i]
           /\ \/ Stands /\ m = Named /\ meeting'[m].source = meeting[m].source
              \/ ~(Stands /\ Named # 0) /\ meeting'[m].source = "scheduled" /\ m = rows + 1
  <1> DEFINE standing == Replaced
             m == IF standing # 0 THEN standing ELSE rows + 1
             x == IF standing # 0 THEN Moved(meeting[m], s)
                  ELSE [NoMeeting EXCEPT !.start = s, !.status = "scheduled", !.late = AboutToStart(s)]
  <1>1. /\ m <= MaxRows
        /\ rows' = IF standing # 0 THEN rows ELSE m
        /\ meeting' = [meeting EXCEPT ![m] = x]
        /\ conv' = [conv EXCEPT !.start = s, !.id = m]
    BY DEF Book
  <1>2. standing # 0 => standing \in 1..rows /\ standing \in Rows /\ Stands /\ standing = Named
    <2>1. standing # 0 => standing \in Rows /\ meeting[standing].status = "scheduled"
                            /\ Stands /\ standing = Named
      BY PairBoundsAssumption DEF Replaced, Named, ReminderInv, BookOK, Conversation, Rows
    <2>2. standing # 0 => ~(standing > rows)
      BY <2>1 DEF ReminderInv, RowsOK
    <2>3. standing # 0 => standing \in 1..rows
      BY <2>1, <2>2, PairBoundsAssumption DEF ReminderInv, BookOK, Rows
    <2> QED BY <2>1, <2>3
  <1>3. standing = 0 => ~(Stands /\ Named # 0)
    BY DEF Replaced
  <1>4. m \in Rows /\ m \in 1..rows'
    BY <1>1, <1>2, PairBoundsAssumption DEF ReminderInv, BookOK, Rows
  <1>5. meeting[m] \in Meeting
    BY <1>4 DEF ReminderInv, BookOK
  <1>6. x.start = s
    BY <1>5 DEF Moved, Meeting, NoMeeting
  <1>7. x.claim = 0
    BY <1>5 DEF Moved, Meeting, NoMeeting
  <1>8. standing = 0 => x.status = "scheduled" /\ x.source = "scheduled"
    BY DEF NoMeeting
  <1>9. standing # 0 => x.status = meeting[m].status /\ x.source = meeting[m].source
                          /\ meeting[m].status = "scheduled"
    <2>1. standing # 0 => meeting[m].status = "scheduled"
      BY DEF Replaced, Named
    <2> QED BY <1>5, <2>1 DEF Moved, Meeting
  <1>10. conv'.start = s /\ conv'.id = m
    BY <1>1 DEF ReminderInv, BookOK, Conversation
  <1>11. standing # 0 => m = Named /\ Stands
    BY <1>2
  <1>12. standing = 0 => m = rows + 1
    OBVIOUS
  <1> HIDE DEF m, x
  <1>13. meeting'[m] = x /\ \A i \in Rows \ {m} : meeting'[i] = meeting[i]
    BY <1>1, <1>4 DEF ReminderInv, BookOK
  <1> QED BY <1>3, <1>4, <1>6, <1>7, <1>8, <1>9, <1>10, <1>11, <1>12, <1>13

\* Either way it is the one booked meeting ahead, and waits for a run.
LEMMA BookKeepsNotice ==
  ASSUME ReminderInv, NoticeInv, NEW s \in Slots, s > clock, Book(s),
         UNCHANGED <<clock, run, bells, lost, oldWrites>>
  PROVE  NoticeInv'
  <1> SUFFICES ASSUME oldWrites = 0, NoticeOK PROVE NoticeOK'
    BY DEF NoticeInv
  <1>1. PICK m \in Rows :
          /\ conv'.start = s /\ conv'.id = m /\ m \in 1..rows'
          /\ meeting'[m].start = s /\ meeting'[m].status = "scheduled" /\ meeting'[m].claim = 0
          /\ \A i \in Rows \ {m} : meeting'[i] = meeting[i]
          /\ \/ Stands /\ m = Named /\ meeting'[m].source = meeting[m].source
             \/ ~(Stands /\ Named # 0) /\ meeting'[m].source = "scheduled" /\ m = rows + 1
    BY BookMakes
  <1>2. /\ clock \in Nat /\ s \in Nat /\ conv.start \in Nat /\ rows \in 0..MaxRows
        /\ \A i \in Rows : i \in Nat /\ meeting[i].start \in Nat
    <2>1. (\A t \in Slots : t \in Nat) /\ MaxClock \in Nat /\ MaxRows \in Nat
      BY SlotsAssumption, PairBoundsAssumption
    <2>2. conv.start = 0 \/ conv.start \in Slots
      BY DEF ReminderInv, BookOK, Conversation
    <2>3. \A i \in Rows : meeting[i].start \in Times
      BY DEF ReminderInv, BookOK, Meeting
    <2>4. clock \in Times /\ rows \in 0..MaxRows
      BY DEF ReminderInv, BookOK
    <2>5. s \in Nat
      BY <2>1
    <2>7. conv.start \in Nat
      BY <2>1, <2>2
    <2>6. \A t \in Times : t \in Nat
      BY <2>1 DEF Times
    <2> QED BY <2>1, <2>3, <2>4, <2>5, <2>6, <2>7 DEF Rows
  <1>3. Stands => Named = conv.id /\ Named # 0
    BY DEF NoticeOK, Stands, Named, Booked
  <1>4. Booked(m)'
    BY <1>1, <1>3 DEF Booked, NoticeOK, Stands
  <1>5. \A i \in Rows \ {m} : Booked(i) => ~(meeting[i].start > clock)
    <2> SUFFICES ASSUME NEW i \in Rows \ {m}, Booked(i), meeting[i].start > clock PROVE FALSE
      OBVIOUS
    <2>1. conv.id = i /\ conv.start = meeting[i].start
      BY DEF NoticeOK
    <2>2. Stands
      BY <1>2, <2>1 DEF Stands, Over
    <2> QED BY <1>1, <1>3, <2>1, <2>2
  <1>6. Noticed(m)'
    BY <1>1, <1>2 DEF Noticed
  <1>7. \A i \in Rows \ {m} : Booked(i)' => Booked(i) /\ Noticed(i)'
    <2> TAKE i \in Rows \ {m}
    <2>1. meeting'[i] = meeting[i]
      BY <1>1
    <2>2. Booked(i) => Noticed(i)
      BY DEF NoticeOK
    <2> QED BY <2>1, <2>2 DEF Booked, Noticed, Settled
  <1>8. ASSUME NEW r \in Runs, run[r] # NoClaim, meeting'[run[r].id].claim = run[r].claim
        PROVE  run[r].late = meeting'[run[r].id].late
    <2>1. run[r].id \in Rows /\ run[r].claim # 0
      BY <1>2, <1>8, PairBoundsAssumption DEF ReminderInv, RunsOK, Rows
    <2>2. run[r].id # m
      BY <1>1, <1>8, <2>1
    <2> QED BY <1>1, <1>8, <2>1, <2>2 DEF NoticeOK
  <1> QED BY <1>1, <1>4, <1>5, <1>6, <1>7, <1>8 DEF NoticeOK

\* A row that keeps what the notice reads of it keeps the notice.
LEMMA SameRowsKeepNotice ==
  ASSUME ReminderInv, NoticeInv, UNCHANGED <<clock, conv, run, bells, lost, oldWrites>>, rows' >= rows,
         rows' \in Nat,
         \A i \in Rows :
           \/ /\ Booked(i)' <=> Booked(i)
              /\ meeting'[i].start = meeting[i].start /\ meeting'[i].claim = meeting[i].claim
              /\ meeting'[i].late = meeting[i].late /\ meeting'[i].seq = meeting[i].seq
           \/ i > rows /\ ~Booked(i)'
  PROVE  NoticeInv'
  <1> SUFFICES ASSUME oldWrites = 0, NoticeOK PROVE NoticeOK'
    BY DEF NoticeInv
  <1>1. rows \in 0..MaxRows /\ \A i \in Rows : i \in Nat
    BY PairBoundsAssumption DEF ReminderInv, BookOK, Rows
  <1>2. ASSUME NEW i \in 1..rows
        PROVE  /\ i \in Rows /\ i \in 1..rows' /\ (Booked(i)' <=> Booked(i))
               /\ meeting'[i].start = meeting[i].start /\ meeting'[i].claim = meeting[i].claim
               /\ meeting'[i].late = meeting[i].late
    BY <1>1, PairBoundsAssumption DEF Rows
  <1>3. conv.start # 0 =>
          conv.id \in 1..rows' /\ Booked(conv.id)' /\ meeting'[conv.id].start = conv.start
    BY <1>2 DEF NoticeOK, Booked
  <1>4. \A i \in Rows : Booked(i)' =>
          /\ meeting'[i].start > clock => conv.id = i /\ conv.start = meeting'[i].start
          /\ Noticed(i)'
    BY DEF NoticeOK, Noticed, Settled
  <1>5. ASSUME NEW r \in Runs, run[r] # NoClaim PROVE run[r].id \in 1..rows
    BY <1>5 DEF ReminderInv, RunsOK
  <1>6. \A r \in Runs : run[r] # NoClaim /\ meeting'[run[r].id].claim = run[r].claim =>
          run[r].late = meeting'[run[r].id].late
    BY <1>2, <1>5 DEF NoticeOK
  <1> QED BY <1>3, <1>4, <1>6 DEF NoticeOK, Booked

\* A meeting ahead is the one the conversation names: cancelling takes it off.
LEMMA CancelKeepsNotice ==
  ASSUME ReminderInv, NoticeInv, NEW p \in Pair, NEW m \in Rows, Cancel(p, m)
  PROVE  NoticeInv'
  <1> SUFFICES ASSUME oldWrites = 0, NoticeOK PROVE NoticeOK'
    BY DEF NoticeInv, Cancel
  <1>1. Booked(m) /\ meeting[m].start > clock /\ UNCHANGED <<clock, rows, run, bells, lost>>
    BY DEF Cancel, Booked
  <1>2. conv.id = m /\ conv.start = meeting[m].start
    BY <1>1 DEF NoticeOK
  <1>3. Named = m
    BY <1>1, <1>2, PairBoundsAssumption DEF Named, Booked, Rows
  <1>4. conv'.start = 0
    BY <1>3 DEF Cancel, ReminderInv, BookOK, Conversation
  <1> DEFINE x == [meeting[m] EXCEPT !.status = "cancelled", !.seq = @ + 1]
  <1>5. /\ x.status = "cancelled" /\ x.late = meeting[m].late /\ x.claim = meeting[m].claim
    BY DEF ReminderInv, BookOK, Meeting
  <1>6. meeting' = [meeting EXCEPT ![m] = x]
    BY DEF Cancel
  <1> HIDE DEF x
  <1>7. meeting'[m] = x /\ \A i \in Rows \ {m} : meeting'[i] = meeting[i]
    BY <1>6 DEF ReminderInv, BookOK
  <1>8. \A i \in Rows : Booked(i)' => Booked(i) /\ i # m
    BY <1>5, <1>7 DEF Booked
  <1>9. \A i \in Rows : Booked(i)' => ~(meeting'[i].start > clock) /\ Noticed(i)'
    <2> TAKE i \in Rows
    <2>1. i # m => meeting'[i] = meeting[i]
      BY <1>7
    <2> QED BY <1>1, <1>2, <1>8, <2>1 DEF NoticeOK, Noticed, Settled
  <1>10. ASSUME NEW r \in Runs, run[r] # NoClaim PROVE run[r].id \in Rows
    BY <1>10, PairBoundsAssumption DEF ReminderInv, RunsOK, BookOK, Rows
  <1>11. \A r \in Runs : run[r] # NoClaim /\ meeting'[run[r].id].claim = run[r].claim =>
           run[r].late = meeting'[run[r].id].late
    BY <1>5, <1>7, <1>10 DEF NoticeOK
  <1> QED BY <1>1, <1>4, <1>9, <1>11 DEF NoticeOK

\* A run that claims has it in hand.
LEMMA ClaimKeepsNotice ==
  ASSUME ReminderInv, NoticeInv, NEW r \in Runs, Claim(r)
  PROVE  NoticeInv'
  <1> SUFFICES ASSUME oldWrites = 0, NoticeOK PROVE NoticeOK'
    BY DEF NoticeInv, Claim
  <1>1. PICK m \in Rows :
          /\ Due(m)
          /\ meeting' = [meeting EXCEPT ![m].claim = Stamp]
          /\ run' = [run EXCEPT ![r] = [id |-> m, start |-> meeting[m].start, claim |-> Stamp,
                                        late |-> meeting[m].late]]
    BY DEF Claim
  <1>2. UNCHANGED <<clock, conv, rows, moves, bells, lost>> /\ run[r] = NoClaim
    BY DEF Claim
  <1>3. Stamp # 0 /\ \A q \in Runs : run[q].claim # Stamp
    BY StampIsFresh, RunsCounted DEF ReminderInv, BookOK
  <1> DEFINE x == [meeting[m] EXCEPT !.claim = Stamp]
             k == [id |-> m, start |-> meeting[m].start, claim |-> Stamp, late |-> meeting[m].late]
  <1>4. /\ x.claim = Stamp /\ x.start = meeting[m].start /\ x.late = meeting[m].late
        /\ x.status = meeting[m].status /\ x.source = meeting[m].source /\ x.seq = meeting[m].seq
    BY DEF ReminderInv, BookOK, Meeting
  <1>5. k # NoClaim /\ k.id = m /\ k.claim = Stamp /\ k.late = meeting[m].late
    BY <1>3 DEF NoClaim
  <1>6. meeting' = [meeting EXCEPT ![m] = x] /\ run' = [run EXCEPT ![r] = k]
    BY <1>1
  <1> HIDE DEF x, k
  <1>7. /\ meeting'[m] = x /\ \A i \in Rows \ {m} : meeting'[i] = meeting[i]
        /\ run'[r] = k /\ \A q \in Runs \ {r} : run'[q] = run[q]
    BY <1>6 DEF ReminderInv, BookOK
  <1>8. meeting[m].start = clock + 1 /\ clock \in Nat
    BY <1>1, PairBoundsAssumption DEF Due, AboutToStart, ReminderInv, BookOK, Times
  <1>9. \A i \in Rows : /\ Booked(i)' <=> Booked(i)
                        /\ meeting'[i].start = meeting[i].start /\ meeting'[i].late = meeting[i].late
                        /\ meeting'[i].seq = meeting[i].seq
    BY <1>4, <1>7 DEF Booked
  <1>10. conv.start # 0 =>
           conv.id \in 1..rows /\ Booked(conv.id)' /\ meeting'[conv.id].start = conv.start
    <2>1. conv.id \in 1..rows => conv.id \in Rows
      BY PairBoundsAssumption DEF ReminderInv, BookOK, Rows
    <2> QED BY <1>2, <1>9, <2>1 DEF NoticeOK, Booked
  <1>11. \A i \in Rows \ {m} : Booked(i) => Noticed(i)'
    <2> TAKE i \in Rows \ {m}
    <2>1. meeting'[i] = meeting[i]
      BY <1>7
    <2>2. \A q \in Runs : run[q] # NoClaim => q # r
      BY <1>2
    <2> QED BY <1>2, <1>7, <2>1, <2>2 DEF NoticeOK, Noticed, Settled
  <1>12. Noticed(m)'
    <2>1. ~(meeting'[m].start > clock + 1) /\ meeting'[m].start # clock
      BY <1>4, <1>7, <1>8
    <2> QED BY <1>2, <1>4, <1>5, <1>7, <2>1 DEF Noticed
  <1>13. ASSUME NEW q \in Runs, run'[q] # NoClaim, meeting'[run'[q].id].claim = run'[q].claim
         PROVE  run'[q].late = meeting'[run'[q].id].late
    <2>1. CASE q = r
      BY <1>4, <1>5, <1>7, <2>1
    <2>2. CASE q # r
      <3>1. run[q].id \in Rows
        BY <1>7, <1>13, <2>2, PairBoundsAssumption DEF ReminderInv, RunsOK, BookOK, Rows
      <3>2. run[q].id # m
        BY <1>3, <1>4, <1>7, <1>13, <2>2
      <3> QED BY <1>7, <1>13, <2>2, <3>1, <3>2 DEF NoticeOK
    <2> QED BY <2>1, <2>2
  <1> QED BY <1>2, <1>9, <1>10, <1>11, <1>12, <1>13 DEF NoticeOK, Booked

\* ... and a run that is done lets it go with a bell, unless it was booked late ...
LEMMA RemindKeepsNotice ==
  ASSUME ReminderInv, NoticeInv, NEW r \in Runs, Remind(r)
  PROVE  NoticeInv'
  <1> SUFFICES ASSUME oldWrites = 0, NoticeOK PROVE NoticeOK'
    BY DEF NoticeInv, Remind
  <1> DEFINE k == run[r]
  <1>0. PICK m \in Rows : m = run[r].id
    BY PairBoundsAssumption DEF Remind, ReminderInv, RunsOK, BookOK, Rows
  <1>1. k # NoClaim /\ run' = [run EXCEPT ![r] = NoClaim] /\ UNCHANGED <<clock, conv, rows, moves, lost>>
    BY DEF Remind
  <1>2. /\ k.claim # 0
        /\ meeting[m].claim = k.claim =>
             meeting[m].start = k.start /\ Untold(m, meeting[m].seq) /\ k.late = meeting[m].late
    BY <1>0, <1>1 DEF ReminderInv, RunsOK, NoticeOK
  <1>3. meeting' = meeting
    BY <1>0, <1>2 DEF Remind, GivesBack
  <1>4. run'[r] = NoClaim /\ \A q \in Runs \ {r} : run'[q] = run[q]
    BY <1>1 DEF ReminderInv, BookOK
  <1>5. \A i \in Rows : meeting[i].seq \in 0..MaxMoves /\ meeting[i].start \in Nat /\ clock \in Nat
    BY PairBoundsAssumption DEF ReminderInv, BookOK, Meeting, Times
  <1>6. ASSUME NEW i \in Rows, Settled(i) PROVE Settled(i)'
    <2>1. CASE bells' = bells
      BY <1>1, <1>3, <1>6, <2>1 DEF Settled
    <2>2. CASE ~k.late /\ StillStands(k)
      <3>1. i # m
        BY <1>0, <1>2, <1>6, <2>2 DEF StillStands, Settled, Untold
      <3>2. bells' = [bells EXCEPT ![m][meeting[m].seq] = @ + 1]
        BY <1>0, <2>2 DEF Remind
      <3> QED BY <1>1, <1>3, <1>6, <3>1, <3>2 DEF Settled, ReminderInv, BookOK
    <2> QED BY <2>1, <2>2 DEF Remind
  <1>7. ASSUME Booked(m), meeting[m].start > clock, meeting[m].claim = k.claim, ~meeting[m].late
        PROVE  Settled(m)'
    <2>1. StillStands(k) /\ ~k.late
      BY <1>0, <1>2, <1>7 DEF StillStands, NoticeOK, Booked
    <2>2. bells' = [bells EXCEPT ![m][meeting[m].seq] = @ + 1]
      BY <1>0, <2>1 DEF Remind
    <2>3. bells[m][meeting[m].seq] = 0
      BY <1>2, <1>7 DEF Untold
    <2>4. bells'[m][meeting[m].seq] = 1
      <3> DEFINE i == meeting[m].seq
                 b == bells[m]
      <3>1. b \in [0..MaxMoves -> 0..2] /\ bells \in [Rows -> [0..MaxMoves -> 0..2]] /\ i \in 0..MaxMoves
        BY <1>5 DEF ReminderInv, BookOK
      <3>2. bells' = [bells EXCEPT ![m] = [b EXCEPT ![i] = 1]]
        BY <2>2, <2>3
      <3> HIDE DEF i, b
      <3>3. [b EXCEPT ![i] = 1][i] = 1
        BY <3>1
      <3> QED BY <3>1, <3>2, <3>3 DEF i
    <2> QED BY <1>3, <2>4 DEF Settled
  <1>8. ASSUME NEW i \in Rows, Booked(i) PROVE Noticed(i)'
    <2>1. Noticed(i)
      BY <1>8 DEF NoticeOK
    <2>2. meeting[i].start > clock + 1 => meeting[i].claim = 0
      BY <2>1 DEF Noticed
    <2>3. meeting[i].start = clock /\ ~meeting[i].late => Settled(i)'
      BY <1>6, <2>1 DEF Noticed
    <2>4. ASSUME meeting[i].start = clock + 1, ~meeting[i].late
          PROVE  \/ meeting[i].claim = 0 \/ Settled(i)'
                 \/ \E q \in Runs : run'[q] # NoClaim /\ run'[q].id = i /\ run'[q].claim = meeting[i].claim
      <3>1. CASE meeting[i].claim = 0 \/ Settled(i)
        BY <1>6, <3>1
      <3>2. ASSUME NEW q \in Runs, run[q] # NoClaim, run[q].id = i, run[q].claim = meeting[i].claim
            PROVE  Settled(i)' \/ (run'[q] # NoClaim /\ run'[q].id = i /\ run'[q].claim = meeting[i].claim)
        <4>1. CASE q = r
          <5>1. meeting[i].start > clock
            BY <1>5, <2>4
          <5>2. i = m /\ meeting[m].claim = k.claim
            BY <1>0, <3>2, <4>1
          <5> HIDE DEF k
          <5> QED BY <1>7, <1>8, <2>4, <5>1, <5>2
        <4>2. CASE q # r
          BY <1>4, <3>2, <4>2
        <4> QED BY <4>1, <4>2
      <3> QED BY <2>1, <2>4, <3>1, <3>2 DEF Noticed
    <2> QED BY <1>1, <1>3, <2>2, <2>3, <2>4 DEF Noticed
  <1> QED BY <1>1, <1>3, <1>4, <1>8 DEF NoticeOK, Booked

\* ... or with a failure of its own.
LEMMA RemindFailsKeepsNotice ==
  ASSUME ReminderInv, NoticeInv, NEW r \in Runs, RemindFails(r)
  PROVE  NoticeInv'
  <1> SUFFICES ASSUME oldWrites = 0, NoticeOK PROVE NoticeOK'
    BY DEF NoticeInv, RemindFails
  <1>1. /\ run[r] # NoClaim /\ run' = [run EXCEPT ![r] = NoClaim]
        /\ UNCHANGED <<clock, conv, meeting, rows, moves, bells>>
        /\ lost' = IF ~run[r].late /\ meeting[run[r].id].claim = run[r].claim
                   THEN lost \cup {<<run[r].id, meeting[run[r].id].seq>>} ELSE lost
    BY DEF RemindFails
  <1>2. run'[r] = NoClaim /\ \A q \in Runs \ {r} : run'[q] = run[q]
    BY <1>1 DEF ReminderInv, BookOK
  <1>3. \A i \in Rows : Settled(i) => Settled(i)'
    BY <1>1 DEF Settled
  <1>4. ASSUME NEW i \in Rows, Booked(i) PROVE Noticed(i)'
    <2>1. Noticed(i)
      BY <1>4 DEF NoticeOK
    <2>2. run[r].id = i /\ run[r].claim = meeting[i].claim => run[r].late = meeting[i].late
      BY <1>1 DEF NoticeOK
    <2>3. run[r].id = i /\ run[r].claim = meeting[i].claim /\ ~meeting[i].late => Settled(i)'
      BY <1>1, <2>2 DEF Settled
    <2> QED BY <1>1, <1>2, <1>3, <2>1, <2>3 DEF Noticed
  <1> QED BY <1>1, <1>2, <1>4 DEF NoticeOK, Booked

\* Ten minutes go by only when no meeting is due and none is in hand.
LEMMA TickKeepsNotice ==
  ASSUME ReminderInv, NoticeInv, Tick
  PROVE  NoticeInv'
  <1> SUFFICES ASSUME oldWrites = 0, NoticeOK PROVE NoticeOK'
    BY DEF NoticeInv, Tick
  <1>1. /\ clock' = clock + 1 /\ UNCHANGED <<conv, meeting, rows, run, bells, lost>>
        /\ clock \in Nat /\ \A i \in Rows : meeting[i].start \in Nat
    BY PairBoundsAssumption DEF Tick, ReminderInv, BookOK, Times, Meeting
  <1>2. ASSUME NEW i \in Rows, Booked(i) PROVE Noticed(i)'
    <2>1. Noticed(i) /\ ~Due(i)
      BY <1>2 DEF NoticeOK, Tick
    <2>2. meeting[i].start = clock + 1 => meeting[i].claim # 0
      BY <1>2, <2>1 DEF Due, Booked, AboutToStart
    <2>3. meeting[i].start = clock + 1 /\ ~meeting[i].late => Settled(i)
      BY <2>1, <2>2 DEF Noticed, Tick
    <2>4. meeting[i].start > clock' + 1 => meeting[i].claim = 0
      BY <1>1, <2>1 DEF Noticed
    <2>5. meeting[i].start = clock' + 1 => meeting[i].claim = 0
      BY <1>1, <2>1 DEF Noticed
    <2>6. Settled(i)' = Settled(i)
      BY <1>1 DEF Settled
    <2> QED BY <1>1, <2>3, <2>4, <2>5, <2>6 DEF Noticed
  <1>3. \A i \in Rows : meeting[i].start > clock' => meeting[i].start > clock
    BY <1>1
  <1> QED BY <1>1, <1>2, <1>3 DEF NoticeOK, Booked

LEMMA PairNextKeepsNotice ==
  ASSUME ReminderInv, RoomInv, NoticeInv, [PairNext]_pairVars
  PROVE  NoticeInv'
  <1>1. ASSUME UNCHANGED <<clock, conv, meeting, rows, run, bells, lost, oldWrites>> PROVE NoticeInv'
    BY <1>1 DEF NoticeInv, NoticeOK, Noticed, Booked, Settled
  <1>2. ASSUME NEW p \in Pair, Save(p) PROVE NoticeInv'
    <2>1. UNCHANGED <<clock, run, bells, lost, oldWrites>>
      BY <1>2 DEF Save
    <2>2. PICK av : \/ Book(CHOOSE s \in Shared(av) : TRUE) /\ Cardinality(Shared(av)) = 1
                    \/ UNCHANGED <<conv, meeting, rows, moves>>
      BY <1>2 DEF Save
    <2>3. CASE Cardinality(Shared(av)) = 1 /\ Book(CHOOSE s \in Shared(av) : TRUE)
      <3>1. Shared(av) # {}
        BY <2>3, FS_EmptySet
      <3>2. PICK s \in Slots : ~Past(s) /\ Book(s)
        BY <2>3, <3>1 DEF Shared
      <3>3. s > clock
        BY <3>2, SlotsAssumption, PairBoundsAssumption DEF Past, ReminderInv, BookOK, Times
      <3> QED BY <2>1, <3>2, <3>3, BookKeepsNotice
    <2> QED BY <1>1, <2>1, <2>2, <2>3
  <1>3. ASSUME NEW s \in Slots, Confirm(s) PROVE NoticeInv'
    <2>1. s > clock
      BY <1>3, SlotsAssumption, PairBoundsAssumption DEF Confirm, Past, ReminderInv, BookOK, Times
    <2> QED BY <1>3, <2>1, BookKeepsNotice DEF Confirm
  <1>4. ASSUME NEW s \in Slots, OldServerBooks(s) PROVE NoticeInv'
    BY <1>4 DEF OldServerBooks, NoticeInv
  <1>5. ASSUME NEW p \in Pair, Enter(p) PROVE NoticeInv'
    <2> DEFINE id == door[p].id
    <2>1. UNCHANGED <<clock, rows, run, bells, lost, oldWrites>>
      BY <1>5 DEF Enter
    <2>2. conv'.start = conv.start /\ conv'.id = conv.id
      BY <1>5 DEF Enter, ReminderInv, BookOK, Conversation
    <2>3. ASSUME NEW i \in Rows
          PROVE  /\ meeting'[i].status = meeting[i].status /\ meeting'[i].source = meeting[i].source
                 /\ meeting'[i].start = meeting[i].start /\ meeting'[i].claim = meeting[i].claim
                 /\ meeting'[i].late = meeting[i].late /\ meeting'[i].seq = meeting[i].seq
      <3>1. CASE i # id \/ meeting' = meeting
        BY <1>5, <3>1 DEF Enter
      <3>2. CASE i = id /\ meeting' # meeting
        <4> DEFINE x == [meeting[i] EXCEPT !.joined = @ \cup {p}]
        <4>1. meeting' = [meeting EXCEPT ![i] = x]
          BY <1>5, <3>2 DEF Enter
        <4>2. /\ x.status = meeting[i].status /\ x.source = meeting[i].source
              /\ x.start = meeting[i].start /\ x.claim = meeting[i].claim
              /\ x.late = meeting[i].late /\ x.seq = meeting[i].seq
          BY DEF ReminderInv, BookOK, Meeting
        <4> HIDE DEF x
        <4> QED BY <4>1, <4>2 DEF ReminderInv, BookOK
      <3> QED BY <3>1, <3>2
    <2>4. \A i \in Rows : (Booked(i)' <=> Booked(i)) /\ (Settled(i)' <=> Settled(i))
      BY <2>1, <2>3 DEF Booked, Settled
    <2>5. \A i \in Rows : Noticed(i) => Noticed(i)'
      BY <2>1, <2>3, <2>4 DEF Noticed
    <2>6. \A i \in 1..rows : i \in Rows
      BY PairBoundsAssumption DEF ReminderInv, BookOK, Rows
    <2>7. \A r \in Runs : run[r] # NoClaim => run[r].id \in Rows
      BY <2>6 DEF ReminderInv, RunsOK
    <2>8. NoticeOK => NoticeOK'
      BY <2>1, <2>2, <2>3, <2>4, <2>5, <2>6, <2>7 DEF NoticeOK, Booked
    <2> QED BY <2>1, <2>8 DEF NoticeInv
  <1>6. ASSUME NEW d \in Devices, Answered(d) PROVE NoticeInv'
    <2>1. UNCHANGED <<clock, conv, run, bells, lost, oldWrites>>
      BY <1>6 DEF Answered
    <2>2. CASE UNCHANGED <<rows, meeting>>
      BY <1>1, <2>1, <2>2
    <2>3. CASE /\ rows < MaxRows /\ rows' = rows + 1
               /\ meeting' = [meeting EXCEPT ![rows'] =
                    [NoMeeting EXCEPT !.start = clock, !.status = "scheduled", !.source = "instant",
                                      !.claim = Cardinality(Runs) + 1]]
      <3>1. rows' >= rows /\ rows' > rows /\ rows' \in Nat /\ rows' \in Rows
        BY <2>3, PairBoundsAssumption DEF ReminderInv, BookOK, Rows
      <3>2. \A i \in Rows \ {rows'} : meeting'[i] = meeting[i]
        BY <2>3 DEF ReminderInv, BookOK
      <3>3. meeting'[rows'].source = "instant"
        BY <2>3, <3>1 DEF ReminderInv, BookOK, NoMeeting
      <3>4. \A i \in Rows :
              \/ /\ Booked(i)' <=> Booked(i)
                 /\ meeting'[i].start = meeting[i].start /\ meeting'[i].claim = meeting[i].claim
                 /\ meeting'[i].late = meeting[i].late /\ meeting'[i].seq = meeting[i].seq
              \/ i > rows /\ ~Booked(i)'
        BY <3>1, <3>2, <3>3 DEF Booked
      <3> QED BY <2>1, <3>1, <3>4, SameRowsKeepNotice
    <2> QED BY <1>6, <2>2, <2>3 DEF Answered
  <1>7. CASE Booking
    BY <1>2, <1>3, <1>7, CancelKeepsNotice, TickKeepsNotice DEF Booking
  <1>8. CASE Reminding
    BY <1>8, ClaimKeepsNotice, RemindKeepsNotice, RemindFailsKeepsNotice DEF Reminding
  <1>9. CASE Entering
    BY <1>1, <1>5, <1>9 DEF Entering, ComeToDoor
  <1>10. CASE Ringing \/ Lapsing
    BY <1>1, <1>6, <1>10 DEF Ringing, Ring, Ends, Accept, Lapsing, Lapse
  <1>11. CASE UNCHANGED pairVars
    BY <1>1, <1>11 DEF pairVars
  <1> QED BY <1>4, <1>7, <1>8, <1>9, <1>10, <1>11 DEF PairNext, Deploying

-----------------------------------------------------------------------------
(* The promises *)

LEMMA Always == PairSpec => [](ReminderInv /\ RoomInv /\ RingInv /\ NoticeInv)
  <1>1. PairInit => ReminderInv /\ RoomInv /\ RingInv /\ NoticeInv
    <2> SUFFICES ASSUME PairInit PROVE ReminderInv /\ RoomInv /\ RingInv /\ NoticeInv
      OBVIOUS
    <2> USE PairBoundsAssumption, RunsCounted
    <2>1. BookOK
      <3>1. /\ NoMeeting \in Meeting /\ NoClaim \in Run /\ NoConv \in Conversation /\ 0 \in Times
        BY DEF NoMeeting, Meeting, NoClaim, Run, NoConv, Conversation, Times, Claims
      <3> QED BY <3>1 DEF PairInit, BookOK
    <2>2. RowsOK /\ BellsOK /\ RunsOK
      BY DEF PairInit, RowsOK, BellsOK, RunsOK, NoMeeting, NoClaim, Untold
    <2>3. RoomInv
      BY DEF PairInit, RoomInv, NoConv, NoDoor, Door
    <2>4. RingInv
      BY DEF PairInit, RingInv, RingRecord, NoAnswer
    <2>5. NoticeInv
      BY DEF PairInit, NoticeInv, NoticeOK, Booked, NoMeeting, NoConv
    <2> QED BY <2>1, <2>2, <2>3, <2>4, <2>5 DEF ReminderInv
  <1>2. ReminderInv /\ RoomInv /\ RingInv /\ NoticeInv /\ [PairNext]_pairVars =>
          (ReminderInv /\ RoomInv /\ RingInv /\ NoticeInv)'
    BY PairNextKeepsReminder, PairNextKeepsRoom, PairNextKeepsRings, PairNextKeepsNotice DEF ReminderInv
  <1> QED BY <1>1, <1>2, PTL DEF PairSpec

\* Neither person hears twice of a meeting at one time, whatever reminder runs
\* overlap each other and the moves, and a reminder that failed is not sent by
\* another run (meeting-reminder.worker.ts).
THEOREM ReminderSentOnce == PairSpec => []RemindedOnce
  <1>1. ReminderInv => RemindedOnce
    BY DEF ReminderInv, BellsOK, RemindedOnce
  <1> QED BY <1>1, Always, PTL

\* A booked meeting that has started was rung for at the time it was moved to
\* last, or a run that had its reminder in hand at that time failed, unless the
\* booking was in its last ten minutes or a server of before wrote the conversation
\* (processMeetingReminders and remind in meeting-reminder.worker.ts).
THEOREM ReminderNotSkipped == PairSpec => []NoReminderSkipped
  <1>1. NoticeInv => NoReminderSkipped
    BY DEF NoticeInv, NoticeOK, Noticed, Settled, NoReminderSkipped
  <1> QED BY <1>1, Always, PTL

\* Calls of a pair unlock only when both came to the room in the window of a
\* booked meeting (recordJoin in meeting-call.service.ts).
THEOREM UnlockedByBoth == PairSpec => []UnlockNeedsMeeting
  <1>1. RoomInv => UnlockNeedsMeeting
    BY DEF RoomInv, UnlockNeedsMeeting
  <1> QED BY <1>1, Always, PTL

\* However many devices answer a ring, and however late, it is one meeting
\* (the claim of an answer in meeting-call.service.ts).
THEOREM CallIsOneMeeting == PairSpec => []OneMeetingPerCall
  <1>1. RingInv => OneMeetingPerCall
    BY DEF RingInv, OneMeetingPerCall
  <1> QED BY <1>1, Always, PTL
=============================================================================
