------------------------------- MODULE Meetings -------------------------------
(***************************************************************************)
(* The meetings of one pair: the times each saved, the conversation that   *)
(* names the meeting that stands, the rows of the meetings, the reminder   *)
(* ten minutes before, the call room, and calls that are rung.             *)
(*                                                                         *)
(* A booking, a move and a cancel lock the conversation's row first, so    *)
(* each of their transactions is one step here.  The reminder worker and   *)
(* the door of the room do not: what they read is older than what they     *)
(* write, and they ask again.  A server of before the meetings rows may    *)
(* still answer for a while and writes the conversation alone.             *)
(*                                                                         *)
(* The clock counts in slots: a meeting at s is ahead until s - 1, about   *)
(* to start at s - 1 (reminded, and soon joinable), under way at s with    *)
(* its half hour of grace, and over after it.                              *)
(***************************************************************************)
EXTENDS Naturals, FiniteSets

CONSTANTS
  Pair,         \* the two people
  Slots,        \* the times that can be picked
  Runs,         \* reminder runs that may overlap
  Devices,      \* devices of the one who is rung
  MaxClock,     \* bound: the clock
  MaxRows,      \* bound: meetings
  MaxMoves,     \* bound: bookings, moves, cancels and rings
  MaxOldWrites, \* bound: bookings by the server of before
  MaxRings      \* bound: calls that are rung

ASSUME SlotsAssumption == Slots \subseteq 2..MaxClock
ASSUME PairBoundsAssumption ==
  /\ IsFiniteSet(Runs)
  /\ MaxClock \in Nat /\ MaxRows \in Nat /\ MaxMoves \in Nat
  /\ MaxOldWrites \in Nat /\ MaxRings \in Nat

VARIABLES
  clock,
  avail,      \* the times each has saved (meeting_availability)
  conv,       \* what the conversation says of its meeting (dm_conversations)
  meeting,    \* the rows of meetings
  rows,       \* how many there are
  moves,      \* bookings, moves and cancels so far
  oldWrites,  \* how many the server of before made
  run,        \* what each reminder run claimed
  bells,      \* reminders of each meeting, at each of its times
  lost,       \* history: the ones whose run failed with the meeting claimed by it
  door,       \* what the room's door has read for each person
  inWindow,   \* history: who came to the door in the window of a booked meeting
  ring,       \* the calls that were rung
  answer,     \* the accept each device has under way
  rooms       \* history: meetings written for each call

pairVars == <<clock, avail, conv, meeting, rows, moves, oldWrites, run, bells,
              lost, door, inWindow, ring, answer, rooms>>

Rows == 1..MaxRows
Rings == 1..MaxRings
NoMeeting == [start |-> 0, status |-> "none", source |-> "scheduled", late |-> FALSE,
              seq |-> 0, claim |-> 0, joined |-> {}]
NoConv == [start |-> 0, id |-> 0, joined |-> {}, unlocked |-> FALSE]
NoClaim == [id |-> 0, start |-> 0, claim |-> 0, late |-> FALSE]
NoDoor == [open |-> FALSE, stamps |-> FALSE, id |-> 0]
NoAnswer == [ring |-> 0, lapsed |-> FALSE]

Times == 0..MaxClock
PairTypeOK ==
  /\ clock \in Times
  /\ avail \in [Pair -> SUBSET Slots]
  /\ conv \in [start : {0} \cup Slots, id : 0..MaxRows, joined : SUBSET Pair, unlocked : BOOLEAN]
  /\ meeting \in [Rows -> [start : Times, status : {"none", "scheduled", "cancelled"},
                           source : {"scheduled", "instant"}, late : BOOLEAN,
                           seq : 0..MaxMoves, claim : 0..Cardinality(Runs) + 1, joined : SUBSET Pair]]
  /\ rows \in 0..MaxRows /\ moves \in 0..MaxMoves /\ oldWrites \in 0..MaxOldWrites
  /\ run \in [Runs -> [id : 0..MaxRows, start : Times, claim : 0..Cardinality(Runs) + 1, late : BOOLEAN]]
  /\ bells \in [Rows -> [0..MaxMoves -> 0..2]] /\ lost \subseteq Rows \X (0..MaxMoves)
  /\ door \in [Pair -> [open : BOOLEAN, stamps : BOOLEAN, id : 0..MaxRows]]
  /\ inWindow \subseteq Pair
  /\ ring \in [Rings -> [status : {"none", "pending", "accepted", "declined", "cancelled", "expired"},
                         lapsed : BOOLEAN]]
  /\ answer \in [Devices -> [ring : 0..MaxRings, lapsed : BOOLEAN]]
  /\ rooms \in [Rings -> 0..2]

-----------------------------------------------------------------------------
(* Booking *)

Past(s) == s <= clock           \* isPastKey: it has started
AboutToStart(s) == clock + 1 = s
Over(s) == s < clock            \* isMeetingOver: half an hour past its end

\* The pointer is read through its guard: it names a row only while that row is
\* scheduled at the time the conversation says.
Named ==
  IF conv.id # 0 /\ meeting[conv.id].status = "scheduled" /\ meeting[conv.id].start = conv.start
  THEN conv.id ELSE 0

Stands == conv.start # 0 /\ ~Over(conv.start)

\* writeMeetingRow: the standing row, if there is one, moves, and will be
\* reminded again...
Replaced == IF Stands THEN Named ELSE 0
MovedKeepsClaim(row, s) ==
  [row EXCEPT !.start = s, !.seq = @ + 1, !.late = AboutToStart(s)]
Moved(row, s) ==
  [row EXCEPT !.start = s, !.seq = @ + 1, !.late = AboutToStart(s), !.claim = 0]

\* ... or a new one is written.  Either way the conversation names it.
Book(s) ==
  LET standing == Replaced
      m == IF standing # 0 THEN standing ELSE rows + 1 IN
  /\ m <= MaxRows /\ moves < MaxMoves
  /\ moves' = moves + 1
  /\ rows' = IF standing # 0 THEN rows ELSE m
  /\ meeting' = [meeting EXCEPT ![m] =
       IF standing # 0 THEN Moved(@, s)
       ELSE [NoMeeting EXCEPT !.start = s, !.status = "scheduled", !.late = AboutToStart(s)]]
  /\ conv' = [conv EXCEPT !.start = s, !.id = m]

Shared(av) == {s \in Slots : ~Past(s) /\ \A p \in Pair : s \in av[p]}

\* setAvailability: a save that leaves one shared time books it, unless a
\* meeting stands or the shared times are what they were.
Save(p) ==
  \E keys \in SUBSET {s \in Slots : ~Past(s)} :
    LET av == [avail EXCEPT ![p] = keys] IN
    /\ av # avail
    /\ avail' = av
    /\ IF ~Stands /\ Shared(av) # Shared(avail) /\ Cardinality(Shared(av)) = 1
       THEN Book(CHOOSE s \in Shared(av) : TRUE)
       ELSE UNCHANGED <<conv, meeting, rows, moves>>
    /\ UNCHANGED <<clock, oldWrites, run, bells, lost, door, inWindow, ring, answer, rooms>>

\* confirmWindow: a time both saved; the one that stands already is a yes.
Confirm(s) ==
  /\ ~Past(s)
  /\ ~(Stands /\ conv.start = s)
  /\ \A p \in Pair : s \in avail[p]
  /\ Book(s)
  /\ UNCHANGED <<clock, avail, oldWrites, run, bells, lost, door, inWindow, ring, answer, rooms>>

\* cancelMeeting: claimed while scheduled, booked and not started; taken off
\* the conversation if it is the one it names, and its time off the list.
Cancel(p, m) ==
  /\ meeting[m].status = "scheduled" /\ meeting[m].source = "scheduled"
  /\ meeting[m].start > clock
  /\ moves < MaxMoves /\ moves' = moves + 1
  /\ meeting' = [meeting EXCEPT ![m].status = "cancelled", ![m].seq = @ + 1]
  /\ IF Named = m
     THEN /\ conv' = [conv EXCEPT !.start = 0, !.id = 0]
          /\ avail' = [avail EXCEPT ![p] = @ \ {conv.start}]
     ELSE UNCHANGED <<conv, avail>>
  /\ UNCHANGED <<clock, rows, oldWrites, run, bells, lost, door, inWindow, ring, answer, rooms>>

\* The server of before books or moves on the conversation alone.
OldServerBooks(s) ==
  /\ oldWrites < MaxOldWrites
  /\ ~Past(s) /\ s # conv.start /\ \A p \in Pair : s \in avail[p]
  /\ oldWrites' = oldWrites + 1
  /\ conv' = [conv EXCEPT !.start = s]
  /\ UNCHANGED <<clock, avail, meeting, rows, moves, run, bells, lost, door, inWindow, ring, answer, rooms>>

-----------------------------------------------------------------------------
(* The reminder *)

Due(m) == /\ meeting[m].status = "scheduled" /\ meeting[m].claim = 0
          /\ AboutToStart(meeting[m].start)

\* One UPDATE takes it; the stamp, a moment, is this claim's own.
Stamp == CHOOSE n \in 1..Cardinality(Runs) + 1 : \A r \in Runs : run[r].claim # n

Claim(r) ==
  /\ run[r] = NoClaim
  /\ \E m \in Rows :
       /\ Due(m)
       /\ meeting' = [meeting EXCEPT ![m].claim = Stamp]
       /\ run' = [run EXCEPT ![r] = [id |-> m, start |-> meeting[m].start, claim |-> Stamp,
                                     late |-> meeting[m].late]]
  /\ UNCHANGED <<clock, avail, conv, rows, moves, oldWrites, bells, lost, door, inWindow,
                 ring, answer, rooms>>

\* remind: the row is locked and read again; the bells of both are written in
\* that transaction.  None for one booked or moved in the last ten minutes.
StillStands(k) ==
  /\ meeting[k.id].status = "scheduled" /\ meeting[k.id].start = k.start
  /\ meeting[k.id].claim = k.claim
  /\ conv.id = k.id /\ conv.start = meeting[k.id].start

\* A meeting that moved has its claim given back, if it is still this run's.
GivesBackAny(k) ==
  meeting[k.id].status = "scheduled" /\ meeting[k.id].start # k.start
GivesBack(k) ==
  /\ meeting[k.id].status = "scheduled" /\ meeting[k.id].start # k.start
  /\ meeting[k.id].claim = k.claim

Remind(r) ==
  LET k == run[r] IN
  /\ k # NoClaim
  /\ run' = [run EXCEPT ![r] = NoClaim]
  /\ IF ~k.late /\ StillStands(k)
     THEN bells' = [bells EXCEPT ![k.id][meeting[k.id].seq] = @ + 1]
     ELSE UNCHANGED bells
  /\ meeting' = IF ~k.late /\ GivesBack(k) THEN [meeting EXCEPT ![k.id].claim = 0] ELSE meeting
  /\ UNCHANGED <<clock, avail, conv, rows, moves, oldWrites, lost, door, inWindow,
                 ring, answer, rooms>>

\* ... or not at all: an account is closed, a block stands, a statement fails and
\* takes the transaction with it, or the server stops.  Nobody takes it up again,
\* and the claim stays, so while it is this run's the reminder is not sent.
RemindFails(r) ==
  LET k == run[r] IN
  /\ k # NoClaim
  /\ run' = [run EXCEPT ![r] = NoClaim]
  /\ lost' = IF ~k.late /\ meeting[k.id].claim = k.claim
             THEN lost \cup {<<k.id, meeting[k.id].seq>>} ELSE lost
  /\ UNCHANGED <<clock, avail, conv, meeting, rows, moves, oldWrites, bells, door, inWindow,
                 ring, answer, rooms>>

-----------------------------------------------------------------------------
(* The room *)

\* From five minutes before, which is some of the time about to start.
InWindow(s) == {w \in BOOLEAN : IF s = clock THEN w ELSE w => AboutToStart(s)}

\* standingMeeting: the booked meeting the conversation names, or else a call.
Standing(inside) ==
  LET named == {m \in Rows : m = Named /\ inside}
      calls == {m \in Rows : meeting[m].source = "instant" /\ meeting[m].start = clock} IN
  IF named # {} THEN named ELSE IF calls # {} THEN calls ELSE {0}

\* getCallToken reads who may come in, and what coming in would count as.
StampsAnyMeeting(inside, id) == ~conv.unlocked /\ (inside \/ id # 0)
Stamps(inside, id) == ~conv.unlocked /\ inside
ComeToDoor(p) ==
  /\ ~door[p].open
  /\ \E inside \in InWindow(conv.start) : \E id \in Standing(conv.start # 0 /\ inside) :
       /\ conv.unlocked \/ Stands \/ id # 0
       /\ door' = [door EXCEPT ![p] =
            [open |-> TRUE, stamps |-> Stamps(conv.start # 0 /\ inside, id), id |-> id]]
       /\ inWindow' = IF conv.start # 0 /\ inside THEN inWindow \cup {p} ELSE inWindow
  /\ UNCHANGED <<clock, avail, conv, meeting, rows, moves, oldWrites, run, bells, lost,
                 ring, answer, rooms>>

\* recordJoin: the conversation's stamp, which unlocks calls once both have
\* one, and the meeting's, while it is scheduled.  Neither is taken back.
Enter(p) ==
  LET d == door[p]
      joined == conv.joined \cup {p} IN
  /\ d.open
  /\ door' = [door EXCEPT ![p] = NoDoor]
  /\ conv' = IF d.stamps
             THEN [conv EXCEPT !.joined = joined, !.unlocked = @ \/ joined = Pair]
             ELSE conv
  /\ meeting' = IF d.id # 0 /\ meeting[d.id].status = "scheduled"
                THEN [meeting EXCEPT ![d.id].joined = @ \cup {p}] ELSE meeting
  /\ UNCHANGED <<clock, avail, rows, moves, oldWrites, run, bells, lost, inWindow,
                 ring, answer, rooms>>

-----------------------------------------------------------------------------
(* A call that is rung *)

\* One waits at a time; one over two minutes old has lapsed and gives way.
Ring(k) ==
  /\ ring[k].status = "none" /\ \A i \in Rings : i < k => ring[i].status # "none"
  /\ \A i \in Rings : ring[i].status = "pending" => ring[i].lapsed
  /\ moves < MaxMoves /\ moves' = moves + 1
  /\ ring' = [i \in Rings |->
       IF i = k THEN [status |-> "pending", lapsed |-> FALSE]
       ELSE IF ring[i].status = "pending" THEN [ring[i] EXCEPT !.status = "expired"] ELSE ring[i]]
  /\ UNCHANGED <<clock, avail, conv, meeting, rows, oldWrites, run, bells, lost, door,
                 inWindow, answer, rooms>>

Lapse(k) ==
  /\ ring[k].status = "pending" /\ ~ring[k].lapsed
  /\ ring' = [ring EXCEPT ![k].lapsed = TRUE]
  /\ UNCHANGED <<clock, avail, conv, meeting, rows, moves, oldWrites, run, bells, lost, door,
                 inWindow, answer, rooms>>

\* The accept of a device reads a request that waits, and whether it lapsed...
Accept(d) ==
  /\ answer[d] = NoAnswer
  /\ \E k \in Rings :
       /\ ring[k].status = "pending"
       /\ answer' = [answer EXCEPT ![d] = [ring |-> k, lapsed |-> ring[k].lapsed]]
  /\ UNCHANGED <<clock, avail, conv, meeting, rows, moves, oldWrites, run, bells, lost, door,
                 inWindow, ring, rooms>>

\* ... and writes it expired whatever it says by now, if it had lapsed, or
\* claims it and writes the meeting of the call, in one transaction.
TakesUnclaimed(k) == TRUE
Takes(k) == ring[k].status = "pending"
Answered(d) ==
  LET k == answer[d].ring IN
  /\ k # 0
  /\ answer' = [answer EXCEPT ![d] = NoAnswer]
  /\ IF answer[d].lapsed
     THEN /\ ring' = [ring EXCEPT ![k].status = "expired"]
          /\ UNCHANGED <<meeting, rows, rooms>>
     ELSE IF Takes(k)
     THEN /\ rows < MaxRows
          /\ ring' = [ring EXCEPT ![k].status = "accepted"]
          /\ rows' = rows + 1
          /\ meeting' = [meeting EXCEPT ![rows'] =
               [NoMeeting EXCEPT !.start = clock, !.status = "scheduled", !.source = "instant",
                                 !.claim = Cardinality(Runs) + 1]]
          /\ rooms' = [rooms EXCEPT ![k] = @ + 1]
     ELSE UNCHANGED <<ring, meeting, rows, rooms>>
  /\ UNCHANGED <<clock, avail, conv, moves, oldWrites, run, bells, lost, door, inWindow>>

\* claimAnswer: a decline or a cancel is one statement.
Ends(k, how) ==
  /\ ring[k].status = "pending"
  /\ ring' = [ring EXCEPT ![k].status = how]
  /\ UNCHANGED <<clock, avail, conv, meeting, rows, moves, oldWrites, run, bells, lost, door,
                 inWindow, answer, rooms>>

-----------------------------------------------------------------------------

\* Time passes slowly beside the worker, which runs every 60 s: ten minutes do
\* not go by while a meeting is due, or claimed by a run that has it in hand.
Tick ==
  /\ clock < MaxClock
  /\ \A m \in Rows : ~Due(m)
  /\ \A r \in Runs : run[r] # NoClaim => run[r].claim # meeting[run[r].id].claim
  /\ clock' = clock + 1
  /\ avail' = [p \in Pair |-> avail[p] \ {clock'}]
  /\ UNCHANGED <<conv, meeting, rows, moves, oldWrites, run, bells, lost, door, inWindow,
                 ring, answer, rooms>>

PairInit ==
  /\ clock = 0
  /\ avail = [p \in Pair |-> {}]
  /\ conv = NoConv
  /\ meeting = [m \in Rows |-> NoMeeting]
  /\ rows = 0 /\ moves = 0 /\ oldWrites = 0
  /\ run = [r \in Runs |-> NoClaim]
  /\ bells = [m \in Rows |-> [i \in 0..MaxMoves |-> 0]]
  /\ lost = {}
  /\ door = [p \in Pair |-> NoDoor]
  /\ inWindow = {}
  /\ ring = [k \in Rings |-> [status |-> "none", lapsed |-> FALSE]]
  /\ answer = [d \in Devices |-> NoAnswer]
  /\ rooms = [k \in Rings |-> 0]

Booking ==
  \/ \E p \in Pair : Save(p)
  \/ \E s \in Slots : Confirm(s)
  \/ \E p \in Pair, m \in Rows : Cancel(p, m)
  \/ Tick
Deploying == \E s \in Slots : OldServerBooks(s)
Reminding == \E r \in Runs : Claim(r) \/ Remind(r) \/ RemindFails(r)
Entering == \E p \in Pair : ComeToDoor(p) \/ Enter(p)
Ringing ==
  \/ \E k \in Rings : Ring(k) \/ Ends(k, "declined") \/ Ends(k, "cancelled")
  \/ \E d \in Devices : Accept(d) \/ Answered(d)
Lapsing == \E k \in Rings : Lapse(k)

PairNext == Booking \/ Deploying \/ Reminding \/ Entering \/ Ringing \/ Lapsing

PairSpec == PairInit /\ [][PairNext]_pairVars

-----------------------------------------------------------------------------
(* What it promises *)

Booked(m) == meeting[m].status = "scheduled" /\ meeting[m].source = "scheduled"

\* Neither person is reminded twice of a meeting at one time, however runs,
\* moves and cancels interleave, and one whose reminder failed is not reminded by
\* another run at that time (meeting-reminder.worker.ts).
RemindedOnce ==
  \A m \in Rows : \A i \in 0..MaxMoves :
    bells[m][i] <= 1 /\ (<<m, i>> \in lost => bells[m][i] = 0)

\* No reminder is skipped: a meeting that has started was reminded at the time it
\* was moved to last, unless it was booked or moved in the ten minutes before or a
\* run had that very reminder in hand and failed.  A move, a cancel of another
\* meeting or a run left over from before the move never costs one.
NoReminderSkipped ==
  \A m \in Rows :
    Booked(m) /\ meeting[m].start = clock /\ ~meeting[m].late /\ oldWrites = 0
      => bells[m][meeting[m].seq] = 1 \/ <<m, meeting[m].seq>> \in lost

\* Calls unlock only for two people who each came in the window of a meeting
\* they had booked: a call that was rung and answered never unlocks them.
UnlockNeedsMeeting == conv.unlocked => inWindow = Pair

\* However many devices answer, an answered call is one meeting.
OneMeetingPerCall ==
  \A k \in Rings : rooms[k] <= 1 /\ (ring[k].status = "accepted" => rooms[k] = 1)

-----------------------------------------------------------------------------
(* What a comment says and the code does not keep: no run checks it *)

\* Calls unlock after a meeting both attended: some row has both.
UnlockedByMeetingBothAttended ==
  conv.unlocked => \E m \in Rows : meeting[m].source = "scheduled" /\ meeting[m].joined = Pair
=============================================================================
