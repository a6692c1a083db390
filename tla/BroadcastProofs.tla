---------------------------- MODULE BroadcastProofs ----------------------------
(***************************************************************************)
(* The promises of "Message everyone", for any number of people, servers,  *)
(* sends, refusals and faults.                                             *)
(*                                                                         *)
(* That a completed job left nobody pending needs nothing of the other     *)
(* cycles: once a job is written no row of it becomes pending again.  That *)
(* nobody is written twice needs the lease: where no cycle stands still    *)
(* for five minutes, a job in hand is in one cycle's hand, a first cycle's *)
(* pending people have no message, and a resumed one finds the message.    *)
(***************************************************************************)
EXTENDS Broadcast, TLAPS, FiniteSetTheorems

InHand == {"read", "next", "write", "mark", "count", "finish", "abort"}
AtPerson == {"next", "write", "mark", "count"}
Owns(c, j) == cycle[c].at \in InHand /\ cycle[c].job = j

Job == [kind : Kinds \cup {"none"}, status : {"none"} \cup Active \cup Ended,
        total : Int, sent : Nat, failed : Nat]
Cycle == [at : Steps, job : Jobs \cup {0}, resumed : BOOLEAN, who : Everyone \cup {Nobody},
          mark : Marks, batch : SUBSET Everyone, skip : SUBSET Everyone]

ShapeOK ==
  /\ job \in [Jobs -> Job]
  /\ made \in 0..MaxJobs
  /\ row \in [Jobs -> [Everyone -> {"none", "pending", "sent", "failed", "skipped"}]]
  /\ written \in [Jobs -> [Everyone -> Nat]]
  /\ silent \subseteq Jobs
  /\ refuses \subseteq Everyone
  /\ draft \in [Organisers -> [kind : Kinds \cup {"none"}, to : SUBSET Everyone, skip : SUBSET Everyone]]
  /\ cycle \in [Cycles -> Cycle]

\* Jobs are made in order, one at a time; a cycle holds one that was made, and
\* somebody of it.
HeldOK ==
  /\ \A j \in Jobs : j > made <=> job[j].status = "none"
  /\ \A i, j \in Jobs : job[i].status \in Active /\ job[j].status \in Active => i = j
  /\ \A c \in Cycles :
       /\ cycle[c].at \in {"idle", "pick"} => cycle[c].job = 0
       /\ cycle[c].at \notin {"idle", "pick"} => cycle[c].job \in 1..made
       /\ cycle[c].at \in {"write", "mark", "count"} => cycle[c].who \in Everyone

\* Where nobody was pending, nobody is.
DrainedOK ==
  /\ \A c \in Cycles : cycle[c].at = "finish" => PendingOf(cycle[c].job) = {}
  /\ CompletedMissedNobody

DrainInv == ShapeOK /\ HeldOK /\ DrainedOK

\* A job in hand is under way, not silent, and in one hand; who picked a job
\* nobody had started finds it so, or finds it taken.
LeaseOK ==
  /\ \A j \in silent : job[j].status = "processing"
  /\ \A c \in Cycles, j \in Jobs : Owns(c, j) => job[j].status = "processing" /\ j \notin silent
  /\ \A c, d \in Cycles, j \in Jobs : Owns(c, j) /\ Owns(d, j) => c = d
  /\ \A c \in Cycles : cycle[c].at = "claim" /\ ~cycle[c].resumed => cycle[c].job \notin silent

\* The people of a batch still wait, and the one in turn is not among them.
BatchOK(c) ==
  LET k == cycle[c] IN
  /\ k.at \in AtPerson => k.batch \subseteq PendingOf(k.job)
  /\ k.at \in {"write", "mark", "count"} => k.who \notin k.batch
  /\ k.at = "write" => k.who \in PendingOf(k.job)

\* Of a job nobody resumed, who waits has no message, but for the one just
\* written and not yet marked.
FreshOK(c) ==
  LET k == cycle[c] IN
  k.at \in AtPerson \cup {"read"} /\ ~k.resumed =>
    \A p \in PendingOf(k.job) : written[k.job][p] = 0 \/ (k.at = "mark" /\ k.who = p)

WrittenOK ==
  /\ \A j \in Jobs : job[j].status \in {"none", "pending"} => \A p \in Everyone : written[j][p] = 0
  /\ \A c \in Cycles : BatchOK(c) /\ FreshOK(c)
  /\ NobodyWrittenTwice

OnceInv == DrainInv /\ LeaseOK /\ WrittenOK

-----------------------------------------------------------------------------
(* Cycles *)

LEMMA IdleType == Idle \in Cycle
  BY DEF Cycle, Idle, Steps, Marks, Nobody

\* What each step makes of its cycle; the others stay.
Becomes(c, k) == cycle' = [cycle EXCEPT ![c] = k]
LEMMA BecomesType ==
  ASSUME ShapeOK, NEW c \in Cycles, NEW k \in Cycle, Becomes(c, k)
  PROVE  /\ cycle' \in [Cycles -> Cycle]
         /\ cycle'[c] = k
         /\ \A d \in Cycles \ {c} : cycle'[d] = cycle[d]
  BY DEF ShapeOK, Becomes

\* The job picked is the one that needs a worker: no two are active.
LEMMA PickStep ==
  ASSUME ShapeOK, HeldOK, NEW c \in Cycles, Pick(c)
  PROVE  \E k \in Cycle :
           /\ Becomes(c, k)
           /\ \/ k = Idle
              \/ /\ k.at = "claim" /\ k.job \in Jobs /\ NeedsWorker(k.job)
                 /\ k.resumed = (job[k.job].status = "processing")
  <1> DEFINE found == {j \in Jobs : NeedsWorker(j)}
             m == CHOOSE j \in found : \A i \in found : j <= i
             k == [cycle[c] EXCEPT !.at = "claim", !.job = m,
                                   !.resumed = job[m].status = "processing"]
  <1>1. CASE found = {}
    BY <1>1, IdleType DEF Pick, CycleEnds, Becomes
  <1>2. CASE found # {}
    <2>1. \A i, j \in found : i = j
      BY DEF HeldOK, NeedsWorker, Active
    <2>2. \E j \in found : \A i \in found : j <= i
      <3>1. PICK j \in found : TRUE
        BY <1>2
      <3>2. \A i \in found : j <= i
        BY <2>1, <3>1 DEF Jobs
      <3> QED BY <3>1, <3>2
    <2>3. m \in found
      BY <2>2
    <2>4. Becomes(c, k)
      BY <1>2 DEF Pick, Becomes
    <2> HIDE DEF m
    <2>5. k \in Cycle /\ k.at = "claim" /\ k.job = m /\ k.resumed = (job[m].status = "processing")
      BY <2>3 DEF ShapeOK, Cycle, Steps
    <2> HIDE DEF k
    <2> QED BY <2>3, <2>4, <2>5
  <1> QED BY <1>1, <1>2

\* Only a cycle that finds nobody pending is done.
LEMMA ReadBatchStep ==
  ASSUME ShapeOK, HeldOK, NEW c \in Cycles, ReadBatch(c)
  PROVE  \E k \in Cycle :
           /\ Becomes(c, k)
           /\ k.job = cycle[c].job /\ k.resumed = cycle[c].resumed
           /\ k.batch \subseteq PendingOf(k.job)
           /\ \/ k.at = "finish" /\ PendingOf(k.job) = {}
              \/ k.at = "next"
  <1> DEFINE P == PendingOf(cycle[c].job)
  <1>1. P \subseteq Everyone
    BY DEF PendingOf
  <1>2. IsFiniteSet(P) /\ Cardinality(P) \in Nat
    BY <1>1, EveryoneAssumption, FS_Subset, FS_CardinalityType
  <1>3. PICK b \in Batches(P) :
          Becomes(c, [cycle[c] EXCEPT !.at = IF b = {} THEN "finish" ELSE "next",
                                      !.batch = b, !.skip = b \cap refuses])
    BY DEF ReadBatch, Becomes
  <1> DEFINE n == IF BatchSize < Cardinality(P) THEN BatchSize ELSE Cardinality(P)
             k == [cycle[c] EXCEPT !.at = IF b = {} THEN "finish" ELSE "next",
                                   !.batch = b, !.skip = b \cap refuses]
  <1>4. b \subseteq P /\ Cardinality(b) = n
    BY <1>3 DEF Batches, kSubset
  <1>5. b = {} => P = {}
    <2>1. b = {} => Cardinality(P) = 0
      BY <1>2, <1>4, FS_EmptySet, SendBoundsAssumption
    <2> QED BY <1>2, <2>1, FS_EmptySet
  <1> HIDE DEF P
  <1>6. /\ k \in Cycle /\ k.job = cycle[c].job /\ k.resumed = cycle[c].resumed /\ k.batch = b
        /\ k.at = IF b = {} THEN "finish" ELSE "next"
    BY <1>1, <1>4 DEF ShapeOK, Cycle, Steps
  <1> HIDE DEF k
  <1>7. Becomes(c, k)
    BY <1>3 DEF k
  <1> QED BY <1>4, <1>5, <1>6, <1>7 DEF P

\* The one in turn is of the batch and leaves it.
LEMMA TurnStep ==
  ASSUME ShapeOK, NEW c \in Cycles, Turn(c)
  PROVE  \E k \in Cycle :
           /\ Becomes(c, k)
           /\ k.job = cycle[c].job /\ k.resumed = cycle[c].resumed
           /\ k.batch \subseteq cycle[c].batch
           /\ \/ k.at = "read"
              \/ k.at \in {"mark", "write"} /\ k.who \in cycle[c].batch /\ k.who \notin k.batch
  <1>1. CASE cycle[c].batch = {}
    <2>1. Becomes(c, [cycle[c] EXCEPT !.at = "read"])
      BY <1>1 DEF Turn, Becomes
    <2>2. [cycle[c] EXCEPT !.at = "read"] \in Cycle
      BY DEF ShapeOK, Cycle, Steps
    <2> DEFINE k == [cycle[c] EXCEPT !.at = "read"]
    <2>3. k.job = cycle[c].job /\ k.resumed = cycle[c].resumed /\ k.batch = cycle[c].batch /\ k.at = "read"
      BY DEF ShapeOK, Cycle
    <2> HIDE DEF k
    <2> QED BY <2>1, <2>2, <2>3 DEF k
  <1>2. CASE cycle[c].batch # {}
    <2>1. PICK p \in cycle[c].batch :
            Becomes(c, [cycle[c] EXCEPT !.batch = @ \ {p}, !.who = p,
                          !.at = IF p \in cycle[c].skip THEN "mark" ELSE "write",
                          !.mark = IF p \in cycle[c].skip THEN "skipped" ELSE "sent"])
      BY <1>2 DEF Turn, Becomes
    <2> DEFINE k == [cycle[c] EXCEPT !.batch = @ \ {p}, !.who = p,
                       !.at = IF p \in cycle[c].skip THEN "mark" ELSE "write",
                       !.mark = IF p \in cycle[c].skip THEN "skipped" ELSE "sent"]
    <2>2. /\ k \in Cycle /\ k.job = cycle[c].job /\ k.resumed = cycle[c].resumed
          /\ k.batch = cycle[c].batch \ {p} /\ k.who = p /\ k.at \in {"mark", "write"}
      BY DEF ShapeOK, Cycle, Steps, Marks
    <2>3. Becomes(c, k)
      BY <2>1
    <2> HIDE DEF k
    <2> QED BY <2>2, <2>3
  <1> QED BY <1>1, <1>2

\* A cycle that only goes on keeps what it holds.
Keeps(c) ==
  /\ cycle'[c].job = cycle[c].job /\ cycle'[c].resumed = cycle[c].resumed
  /\ cycle'[c].who = cycle[c].who /\ cycle'[c].batch = cycle[c].batch
Alone(c) ==
  /\ cycle' \in [Cycles -> Cycle]
  /\ \A d \in Cycles \ {c} : cycle'[d] = cycle[d]

LEMMA GoesStep ==
  ASSUME ShapeOK, NEW c \in Cycles, NEW at \in Steps, cycle' = [cycle EXCEPT ![c].at = at]
  PROVE  Alone(c) /\ Keeps(c) /\ cycle'[c].at = at /\ cycle'[c].mark = cycle[c].mark
  <1> DEFINE k == [cycle[c] EXCEPT !.at = at]
  <1>1. cycle' = [cycle EXCEPT ![c] = k]
    OBVIOUS
  <1>2. /\ k \in Cycle /\ k.at = at /\ k.job = cycle[c].job /\ k.resumed = cycle[c].resumed
        /\ k.who = cycle[c].who /\ k.batch = cycle[c].batch /\ k.mark = cycle[c].mark
    BY DEF ShapeOK, Cycle
  <1> HIDE DEF k
  <1> QED BY <1>1, <1>2 DEF ShapeOK, Alone, Keeps

LEMMA ToMarkStep ==
  ASSUME ShapeOK, NEW c \in Cycles, NEW mark \in Marks, ToMark(c, mark)
  PROVE  Alone(c) /\ Keeps(c) /\ cycle'[c].at = "mark" /\ cycle'[c].mark = mark
  <1> DEFINE k == [cycle[c] EXCEPT !.at = "mark", !.mark = mark]
  <1>1. cycle' = [cycle EXCEPT ![c] = k]
    BY DEF ToMark
  <1>2. /\ k \in Cycle /\ k.at = "mark" /\ k.job = cycle[c].job /\ k.resumed = cycle[c].resumed
        /\ k.who = cycle[c].who /\ k.batch = cycle[c].batch /\ k.mark = mark
    BY DEF ShapeOK, Cycle, Steps
  <1> HIDE DEF k
  <1> QED BY <1>1, <1>2 DEF ShapeOK, Alone, Keeps

LEMMA IdleStep ==
  ASSUME ShapeOK, NEW c \in Cycles, cycle' = [cycle EXCEPT ![c] = Idle]
  PROVE  Alone(c) /\ cycle'[c] = Idle
  BY IdleType DEF ShapeOK, Alone

\* The three ways a statement that fails can go.
LEMMA ThrowsStep ==
  ASSUME ShapeOK, NEW c \in Cycles, Throws(c)
  PROVE  /\ Alone(c)
         /\ \/ cycle'[c] = Idle
            \/ Keeps(c) /\ cycle'[c].at = "mark" /\ cycle[c].at \in {"write", "mark", "count"}
            \/ Keeps(c) /\ cycle'[c].at = "abort" /\ cycle[c].at \in InHand
  <1>1. cycle[c].at \in Steps
    BY DEF ShapeOK, Cycle
  <1>2. CASE cycle[c].at \in {"pick", "claim", "abort"}
    BY <1>2, IdleStep DEF Throws, CycleEnds
  <1>3. CASE cycle[c].at = "write" \/ (cycle[c].at \in {"mark", "count"} /\ ~Caught(cycle[c]))
    <2>1. ToMark(c, "failed")
      BY <1>3 DEF Throws
    <2> QED BY <1>3, <2>1, ToMarkStep DEF Marks
  <1>4. CASE cycle[c].at \in {"read", "finish"} \/ (cycle[c].at \in {"mark", "count"} /\ Caught(cycle[c]))
    <2>1. Goes(c, "abort")
      BY <1>4 DEF Throws
    <2> QED BY <1>4, <2>1, GoesStep DEF Goes, Steps, InHand
  <1>5. cycle[c].at \notin {"idle", "next"}
    BY DEF Throws
  <1> QED BY <1>1, <1>2, <1>3, <1>4, <1>5 DEF Steps

\* What the steps of a cycle do to it, in one place.
LEMMA CycleAlone ==
  ASSUME ShapeOK, HeldOK, NEW c \in Cycles, Works(c) \/ Throws(c) \/ Stops(c)
  PROVE  Alone(c)
  <1>1. CASE Wake(c)
    BY <1>1, GoesStep DEF Wake, Steps
  <1>2. CASE Pick(c)
    BY <1>2, PickStep, BecomesType DEF Alone
  <1>3. CASE Take(c)
    BY <1>3, GoesStep, IdleStep DEF Take, Goes, CycleEnds, Steps
  <1>4. CASE ReadBatch(c)
    BY <1>4, ReadBatchStep, BecomesType DEF Alone
  <1>5. CASE Turn(c)
    BY <1>5, TurnStep, BecomesType DEF Alone
  <1>6. CASE Write(c)
    BY <1>6, ToMarkStep DEF Write, Marks
  <1>7. CASE Mark(c)
    BY <1>7, GoesStep DEF Mark, Goes, Steps
  <1>8. CASE Count(c)
    BY <1>8, GoesStep DEF Count, Goes, Steps
  <1>9. CASE Finish(c) \/ Abort(c) \/ Stops(c)
    BY <1>9, IdleStep DEF Finish, Abort, Stops, CycleEnds
  <1>10. CASE Throws(c)
    BY <1>10, ThrowsStep
  <1> QED BY <1>1, <1>2, <1>3, <1>4, <1>5, <1>6, <1>7, <1>8, <1>9, <1>10 DEF Works

-----------------------------------------------------------------------------
(* Nobody is left pending *)

\* A count keeps what a job is, and the state it is in.
LEMMA CountedType ==
  ASSUME NEW k \in Job, NEW mark \in Marks
  PROVE  /\ Counted(k, mark) \in Job
         /\ Counted(k, mark).status = k.status /\ Counted(k, mark).kind = k.kind
  <1>1. CASE mark = "sent"
    BY <1>1 DEF Counted, Job
  <1>2. CASE mark = "failed"
    BY <1>2 DEF Counted, Job
  <1>3. CASE mark = "skipped"
    BY <1>3 DEF Counted, Job
  <1> QED BY <1>1, <1>2, <1>3 DEF Marks

LEMMA StatusType ==
  ASSUME ShapeOK, NEW j \in Jobs, NEW st \in Active \cup Ended, job' = [job EXCEPT ![j].status = st]
  PROVE  /\ job' \in [Jobs -> Job]
         /\ \A i \in Jobs : job'[i].kind = job[i].kind
         /\ job'[j].status = st
         /\ \A i \in Jobs \ {j} : job'[i].status = job[i].status
  <1> DEFINE k == [job[j] EXCEPT !.status = st]
  <1>1. k \in Job /\ k.status = st /\ k.kind = job[j].kind
    BY DEF ShapeOK, Job
  <1>2. job' = [job EXCEPT ![j] = k]
    OBVIOUS
  <1> HIDE DEF k
  <1> QED BY <1>1, <1>2 DEF ShapeOK

\* What a cycle does to the jobs: it takes one, ends one or counts for one.
LEMMA CycleJobs ==
  ASSUME ShapeOK, HeldOK, NEW c \in Cycles, Works(c) \/ Throws(c) \/ Stops(c)
  PROVE  /\ job' \in [Jobs -> Job]
         /\ \A j \in Jobs : job'[j].kind = job[j].kind
         /\ \A j \in Jobs :
              \/ job'[j].status = job[j].status
              \/ j = cycle[c].job /\ Take(c) /\ Claimable(j) /\ job'[j].status = "processing"
              \/ j = cycle[c].job /\ Finish(c)
                   /\ job'[j].status \in {"completed", "completed_with_errors"}
              \/ j = cycle[c].job /\ Abort(c) /\ job'[j].status = "failed"
  <1> DEFINE m == cycle[c].job
  <1>1. cycle[c] \in Cycle /\ (cycle[c].at \notin {"idle", "pick"} => m \in Jobs)
    BY SendBoundsAssumption DEF ShapeOK, HeldOK, Jobs
  <1>2. CASE Take(c)
    <2>1. CASE Claimable(m)
      BY <1>1, <1>2, <2>1, StatusType DEF Take, Active
    <2>2. CASE ~Claimable(m)
      BY <1>2, <2>2 DEF Take, ShapeOK
    <2> QED BY <2>1, <2>2
  <1>3. CASE Finish(c)
    <2> DEFINE st == IF job[m].failed > 0 THEN "completed_with_errors" ELSE "completed"
    <2>1. st \in {"completed", "completed_with_errors"} /\ st \in Active \cup Ended
      BY DEF Ended
    <2>2. job' = [job EXCEPT ![m].status = st] /\ m \in Jobs
      BY <1>1, <1>3 DEF Finish
    <2> HIDE DEF st
    <2> QED BY <1>3, <2>1, <2>2, StatusType
  <1>4. CASE Abort(c)
    BY <1>1, <1>4, StatusType DEF Abort, Ended
  <1>5. CASE Count(c)
    <2> DEFINE k == Counted(job[m], cycle[c].mark)
    <2>1. m \in Jobs /\ cycle[c].mark \in Marks
      BY <1>1, <1>5 DEF Count, Cycle
    <2>2. k \in Job /\ k.status = job[m].status /\ k.kind = job[m].kind
      BY <2>1, CountedType DEF ShapeOK
    <2>3. job' = [job EXCEPT ![m] = k]
      BY <1>5 DEF Count
    <2> HIDE DEF k
    <2> QED BY <2>1, <2>2, <2>3 DEF ShapeOK
  <1>6. CASE UNCHANGED job
    BY <1>6 DEF ShapeOK
  <1> QED BY <1>2, <1>3, <1>4, <1>5, <1>6
       DEF Works, Wake, Pick, ReadBatch, Turn, Write, Mark, Throws, Stops

\* Nor does it make anybody wait who did not.
LEMMA CycleRows ==
  ASSUME ShapeOK, HeldOK, NEW c \in Cycles, Works(c) \/ Throws(c) \/ Stops(c)
  PROVE  /\ row' \in [Jobs -> [Everyone -> {"none", "pending", "sent", "failed", "skipped"}]]
         /\ \A j \in Jobs : PendingOf(j)' \subseteq PendingOf(j)
         /\ \/ row' = row
            \/ /\ Mark(c)
               /\ \A j \in Jobs, p \in Everyone :
                    j # cycle[c].job \/ p # cycle[c].who => row'[j][p] = row[j][p]
               /\ row'[cycle[c].job][cycle[c].who] # "pending"
  <1>1. CASE Mark(c)
    <2> DEFINE k == cycle[c]
    <2>1. k.job \in Jobs /\ k.who \in Everyone /\ k.mark \in Marks
      <3>1. k \in Cycle /\ k.at = "mark" /\ made \in 0..MaxJobs
        BY <1>1 DEF Mark, ShapeOK
      <3>2. k.job \in 1..made /\ k.who \in Everyone
        BY <3>1 DEF HeldOK
      <3> QED BY <3>1, <3>2, SendBoundsAssumption DEF Cycle, Jobs
    <2>2. row' = [row EXCEPT ![k.job][k.who] = k.mark]
      BY <1>1 DEF Mark
    <2> HIDE DEF k
    <2>3. row' \in [Jobs -> [Everyone -> {"none", "pending", "sent", "failed", "skipped"}]]
      BY <2>1, <2>2 DEF ShapeOK, Marks
    <2>4. \A j \in Jobs, p \in Everyone : j # k.job \/ p # k.who => row'[j][p] = row[j][p]
      BY <2>1, <2>2 DEF ShapeOK
    <2>5. row'[k.job][k.who] # "pending"
      BY <2>1, <2>2 DEF ShapeOK, Marks
    <2> QED BY <1>1, <2>3, <2>4, <2>5 DEF PendingOf, k
  <1>2. CASE UNCHANGED row
    BY <1>2 DEF ShapeOK, PendingOf
  <1> QED BY <1>1, <1>2
       DEF Works, Wake, Pick, Take, ReadBatch, Turn, Write, Count, Finish, Abort, Throws, Stops

\* A person gets at most one message more, of the job in hand.
LEMMA CycleWritten ==
  ASSUME ShapeOK, HeldOK, NEW c \in Cycles, Works(c) \/ Throws(c) \/ Stops(c)
  PROVE  /\ written' \in [Jobs -> [Everyone -> Nat]]
         /\ \/ written' = written
            \/ /\ Write(c) /\ FALSE \in CopyFound(c, cycle[c].who)
               /\ \A j \in Jobs, p \in Everyone :
                    j # cycle[c].job \/ p # cycle[c].who => written'[j][p] = written[j][p]
               /\ written'[cycle[c].job][cycle[c].who] = written[cycle[c].job][cycle[c].who] + 1
  <1>1. CASE Write(c)
    <2> DEFINE k == cycle[c]
    <2>1. k.job \in Jobs /\ k.who \in Everyone
      <3>1. k \in Cycle /\ k.at = "write" /\ made \in 0..MaxJobs
        BY <1>1 DEF Write, ShapeOK
      <3>2. k.job \in 1..made /\ k.who \in Everyone
        BY <3>1 DEF HeldOK
      <3> QED BY <3>1, <3>2, SendBoundsAssumption DEF Cycle, Jobs
    <2>2. CASE UNCHANGED written
      BY <2>2 DEF ShapeOK
    <2>3. ASSUME FALSE \in CopyFound(c, k.who), written' = [written EXCEPT ![k.job][k.who] = @ + 1]
          PROVE  /\ written' \in [Jobs -> [Everyone -> Nat]]
                 /\ \A j \in Jobs, p \in Everyone :
                      j # k.job \/ p # k.who => written'[j][p] = written[j][p]
                 /\ written'[k.job][k.who] = written[k.job][k.who] + 1
      <3> HIDE DEF k
      <3> QED BY <2>1, <2>3 DEF ShapeOK
    <2>4. \A found \in CopyFound(c, k.who) : found \in BOOLEAN
      BY DEF CopyFound
    <2>5. UNCHANGED written \/ (FALSE \in CopyFound(c, k.who)
                                 /\ written' = [written EXCEPT ![k.job][k.who] = @ + 1])
      BY <1>1, <2>4 DEF Write
    <2> QED BY <1>1, <2>2, <2>3, <2>5
  <1>2. CASE UNCHANGED written
    BY <1>2 DEF ShapeOK
  <1> QED BY <1>1, <1>2
       DEF Works, Wake, Pick, Take, ReadBatch, Turn, Mark, Count, Finish, Abort, Throws, Stops

\* Where a step of a cycle leaves it.
LEMMA CycleHolds ==
  ASSUME DrainInv, NEW c \in Cycles, Works(c) \/ Throws(c) \/ Stops(c)
  PROVE  \/ cycle'[c] = Idle
         \/ cycle'[c].at = "pick" /\ cycle'[c].job = 0
         \/ /\ cycle'[c].at \notin {"idle", "pick"} /\ cycle'[c].job \in 1..made
            /\ cycle'[c].at \in {"write", "mark", "count"} => cycle'[c].who \in Everyone
            /\ cycle'[c].at = "finish" => PendingOf(cycle'[c].job) = {}
  <1>1. ShapeOK /\ HeldOK /\ DrainedOK
    BY DEF DrainInv
  <1>2. cycle[c] \in Cycle
    BY <1>1 DEF ShapeOK
  <1>3. CASE Wake(c)
    BY <1>1, <1>3, GoesStep DEF Wake, Steps, HeldOK, Keeps
  <1>4. CASE Pick(c)
    <2>1. PICK k \in Cycle :
            /\ Becomes(c, k)
            /\ k = Idle \/ (k.at = "claim" /\ k.job \in Jobs /\ NeedsWorker(k.job))
      BY <1>1, <1>4, PickStep
    <2>2. cycle'[c] = k
      BY <1>1, <2>1, BecomesType
    <2>3. NeedsWorker(k.job) /\ k.job \in Jobs => k.job \in 1..made
      BY <1>1 DEF HeldOK, NeedsWorker, Jobs, ShapeOK
    <2> QED BY <2>1, <2>2, <2>3
  <1>5. CASE Take(c)
    BY <1>1, <1>5, GoesStep, IdleStep DEF Take, Goes, CycleEnds, Steps, HeldOK, Keeps
  <1>6. CASE ReadBatch(c)
    <2>1. PICK k \in Cycle :
            /\ Becomes(c, k)
            /\ k.job = cycle[c].job
            /\ (k.at = "finish" /\ PendingOf(k.job) = {}) \/ k.at = "next"
      BY <1>1, <1>6, ReadBatchStep
    <2>2. cycle'[c] = k
      BY <1>1, <2>1, BecomesType
    <2>3. cycle[c].job \in 1..made
      BY <1>1, <1>6 DEF ReadBatch, HeldOK
    <2> QED BY <2>1, <2>2, <2>3
  <1>7. CASE Turn(c)
    <2>1. PICK k \in Cycle :
            /\ Becomes(c, k)
            /\ k.job = cycle[c].job
            /\ k.at = "read" \/ (k.at \in {"mark", "write"} /\ k.who \in cycle[c].batch)
      BY <1>1, <1>7, TurnStep
    <2>2. cycle'[c] = k
      BY <1>1, <2>1, BecomesType
    <2>3. cycle[c].job \in 1..made /\ cycle[c].batch \subseteq Everyone
      BY <1>1, <1>2, <1>7 DEF Turn, HeldOK, Cycle
    <2> QED BY <2>1, <2>2, <2>3
  <1>8. CASE Write(c)
    BY <1>1, <1>8, ToMarkStep DEF Write, Marks, HeldOK, Keeps
  <1>9. CASE Mark(c)
    BY <1>1, <1>9, GoesStep DEF Mark, Goes, Steps, HeldOK, Keeps
  <1>10. CASE Count(c)
    BY <1>1, <1>10, GoesStep DEF Count, Goes, Steps, HeldOK, Keeps
  <1>11. CASE Finish(c) \/ Abort(c) \/ Stops(c)
    BY <1>1, <1>11, IdleStep DEF Finish, Abort, Stops, CycleEnds
  <1>12. CASE Throws(c)
    BY <1>1, <1>12, ThrowsStep DEF HeldOK, Keeps, InHand
  <1> QED BY <1>3, <1>4, <1>5, <1>6, <1>7, <1>8, <1>9, <1>10, <1>11, <1>12 DEF Works

\* The statuses, more shortly: a job is taken, or one in hand ends.
LEMMA CycleStatus ==
  ASSUME DrainInv, NEW c \in Cycles, Works(c) \/ Throws(c) \/ Stops(c), NEW j \in Jobs
  PROVE  \/ job'[j].status = job[j].status
         \/ /\ j = cycle[c].job /\ j \in 1..made
            /\ \/ job[j].status \in Active /\ job'[j].status = "processing"
               \/ job'[j].status = "failed"
               \/ /\ job'[j].status \in {"completed", "completed_with_errors"}
                  /\ PendingOf(j) = {}
  <1>1. ShapeOK /\ HeldOK /\ DrainedOK
    BY DEF DrainInv
  <1>2. CASE j = cycle[c].job /\ Take(c) /\ Claimable(j) /\ job'[j].status = "processing"
    BY <1>1, <1>2 DEF Take, HeldOK, Claimable, NeedsWorker, Active
  <1>3. CASE j = cycle[c].job /\ Finish(c) /\ job'[j].status \in {"completed", "completed_with_errors"}
    BY <1>1, <1>3 DEF Finish, HeldOK, DrainedOK
  <1>4. CASE j = cycle[c].job /\ Abort(c) /\ job'[j].status = "failed"
    BY <1>1, <1>4 DEF Abort, HeldOK
  <1> QED BY <1>1, <1>2, <1>3, <1>4, CycleJobs

LEMMA CycleKeepsDrain ==
  ASSUME DrainInv, NEW c \in Cycles, Works(c) \/ Throws(c) \/ Stops(c)
  PROVE  DrainInv'
  <1>1. ShapeOK /\ HeldOK /\ DrainedOK
    BY DEF DrainInv
  <1>2. Alone(c)
    BY <1>1, CycleAlone
  <1>3. UNCHANGED <<made, refuses, draft>> /\ silent' \subseteq silent
    BY DEF Works, Wake, Pick, Take, ReadBatch, Turn, Write, Mark, Count, Finish, Abort,
           Throws, Stops
  <1>4. ShapeOK'
    <2>1. job' \in [Jobs -> Job]
      BY <1>1, CycleJobs
    <2>2. row' \in [Jobs -> [Everyone -> {"none", "pending", "sent", "failed", "skipped"}]]
      BY <1>1, CycleRows
    <2>3. written' \in [Jobs -> [Everyone -> Nat]]
      BY <1>1, CycleWritten
    <2> QED BY <1>1, <1>2, <1>3, <2>1, <2>2, <2>3 DEF ShapeOK, Alone
  <1>5. \A j \in Jobs : j > made <=> job'[j].status = "none"
    <2> TAKE j \in Jobs
    <2>1. job'[j].status = job[j].status \/ (j \in 1..made /\ job'[j].status # "none")
      BY CycleStatus
    <2> QED BY <1>1, <2>1 DEF HeldOK, ShapeOK, Jobs
  <1>6. \A i, j \in Jobs : job'[i].status \in Active /\ job'[j].status \in Active => i = j
    <2>1. \A i \in Jobs : job'[i].status \in Active => job[i].status \in Active
      BY CycleStatus DEF Active
    <2> QED BY <1>1, <2>1 DEF HeldOK
  <1>7. HeldOK'
    BY <1>1, <1>2, <1>3, <1>5, <1>6, CycleHolds DEF HeldOK, Alone, Idle
  <1>8. \A j \in Jobs : PendingOf(j)' \subseteq PendingOf(j)
    BY <1>1, CycleRows
  <1>9. ASSUME NEW d \in Cycles, NEW m \in Jobs, cycle'[d].at = "finish", cycle'[d].job = m
        PROVE  PendingOf(m)' = {}
    <2>1. PendingOf(m) = {}
      BY <1>1, <1>2, <1>9, CycleHolds DEF Alone, DrainedOK, Idle
    <2> QED BY <1>8, <2>1
  <1>10. CompletedMissedNobody'
    <2> SUFFICES ASSUME NEW j \in Jobs, job'[j].status \in {"completed", "completed_with_errors"}
                 PROVE  PendingOf(j)' = {}
      BY DEF CompletedMissedNobody
    <2>1. PendingOf(j) = {}
      BY <1>1, CycleStatus DEF CompletedMissedNobody, DrainedOK, Active
    <2> QED BY <1>8, <2>1
  <1>11. DrainedOK'
    <2>1. ASSUME NEW d \in Cycles, (cycle[d].at = "finish")' PROVE (PendingOf(cycle[d].job) = {})'
      <3>1. cycle'[d].job \in Jobs
        BY <1>3, <1>4, <1>7, <2>1, SendBoundsAssumption DEF HeldOK, ShapeOK, Jobs
      <3> QED BY <1>9, <2>1, <3>1 DEF PendingOf
    <2> QED BY <1>10, <2>1 DEF DrainedOK
  <1> QED BY <1>4, <1>7, <1>11 DEF DrainInv

\* A send that is inserted, and the steps beside the cycles.
LEMMA InsertKeepsDrain ==
  ASSUME DrainInv, NEW o \in Organisers, Insert(o)
  PROVE  /\ DrainInv'
         /\ \A j \in 1..made : /\ job'[j] = job[j] /\ row'[j] = row[j]
                               /\ PendingOf(j)' = PendingOf(j)
         /\ \A j \in Jobs : job'[j].status = job[j].status \/ job'[j].status = "pending"
  <1>1. ShapeOK /\ HeldOK /\ DrainedOK
    BY DEF DrainInv
  <1>2. /\ draft'[o] = NoDraft /\ \A q \in Organisers \ {o} : draft'[q] = draft[q]
        /\ draft' \in [Organisers -> [kind : Kinds \cup {"none"}, to : SUBSET Everyone,
                                     skip : SUBSET Everyone]]
    BY <1>1 DEF Insert, NoDraft, ShapeOK
  <1>3. UNCHANGED <<written, silent, refuses, cycle>>
    BY DEF Insert
  <1>4. CASE UNCHANGED <<made, job, row>>
    <2>1. ShapeOK' /\ HeldOK' /\ DrainedOK'
      BY <1>1, <1>2, <1>3, <1>4 DEF ShapeOK, HeldOK, DrainedOK, CompletedMissedNobody, PendingOf
    <2> QED BY <1>4, <2>1 DEF DrainInv, PendingOf
  <1>5. CASE made < MaxJobs /\ \A j \in Jobs : job[j].status \notin Active
    <2> DEFINE n == made + 1
               d == draft[o]
               k == [kind |-> d.kind, status |-> "pending", total |-> Cardinality(d.to),
                     sent |-> 0, failed |-> 0]
               w == [p \in Everyone |-> IF p \in d.to THEN "pending"
                                       ELSE IF p \in d.skip THEN "skipped" ELSE "none"]
    <2>1. made' = n /\ job' = [job EXCEPT ![n] = k] /\ row' = [row EXCEPT ![n] = w]
      BY <1>5 DEF Insert
    <2>2. n \in Jobs /\ made \in Nat /\ n \notin 1..made /\ 1..made \subseteq Jobs /\ n \in 0..MaxJobs
      BY <1>1, <1>5, SendBoundsAssumption DEF ShapeOK, Jobs
    <2>3. k \in Job /\ k.status = "pending"
      <3>1. d.kind \in Kinds \cup {"none"} /\ d.to \subseteq Everyone
        BY <1>1 DEF ShapeOK
      <3>2. Cardinality(d.to) \in Nat
        BY <3>1, EveryoneAssumption, FS_Subset, FS_CardinalityType
      <3> QED BY <3>1, <3>2 DEF Job, Active
    <2>4. w \in [Everyone -> {"none", "pending", "sent", "failed", "skipped"}]
      OBVIOUS
    <2> HIDE DEF k, w, n, d
    <2>5. /\ job' \in [Jobs -> Job] /\ job'[n] = k
          /\ \A j \in Jobs \ {n} : job'[j] = job[j] /\ row'[j] = row[j]
          /\ row' \in [Jobs -> [Everyone -> {"none", "pending", "sent", "failed", "skipped"}]]
      BY <1>1, <2>1, <2>2, <2>3, <2>4 DEF ShapeOK
    <2>6. ShapeOK'
      BY <1>1, <1>2, <1>3, <2>1, <2>2, <2>5 DEF ShapeOK
    <2>7. \A j \in Jobs : j > n <=> job'[j].status = "none"
      <3>1. \A j \in Jobs : j = n \/ (j > n <=> j > made)
        BY <2>2 DEF n, Jobs
      <3>2. ~(n > n)
        BY <2>2 DEF Jobs
      <3> QED BY <1>1, <2>3, <2>5, <3>1, <3>2 DEF HeldOK
    <2>8. 1..made \subseteq 1..n
      BY <2>2 DEF n
    <2>9. HeldOK'
      BY <1>1, <1>3, <1>5, <2>1, <2>3, <2>5, <2>7, <2>8 DEF HeldOK
    <2>10. \A j \in 1..made : job'[j] = job[j] /\ row'[j] = row[j] /\ PendingOf(j)' = PendingOf(j)
      BY <2>2, <2>5 DEF PendingOf
    <2>11. DrainedOK'
      <3>1. ASSUME NEW c \in Cycles, cycle[c].at = "finish" PROVE (PendingOf(cycle[c].job) = {})'
        <4>1. cycle[c].job \in 1..made
          BY <1>1, <3>1 DEF HeldOK
        <4>2. row'[cycle[c].job] = row[cycle[c].job] /\ PendingOf(cycle[c].job) = {}
          BY <1>1, <2>10, <3>1, <4>1 DEF DrainedOK
        <4> QED BY <1>3, <4>2 DEF PendingOf
      <3>2. ASSUME NEW j \in Jobs, job'[j].status \in {"completed", "completed_with_errors"}
            PROVE  PendingOf(j)' = {}
        <4>1. j \in Jobs \ {n} /\ job'[j] = job[j]
          BY <2>3, <2>5, <3>2
        <4>2. row'[j] = row[j] /\ PendingOf(j) = {}
          BY <1>1, <2>5, <3>2, <4>1 DEF DrainedOK, CompletedMissedNobody
        <4> QED BY <4>2 DEF PendingOf
      <3> QED BY <1>3, <3>1, <3>2 DEF DrainedOK, CompletedMissedNobody
    <2> QED BY <2>3, <2>5, <2>6, <2>9, <2>10, <2>11 DEF DrainInv
  <1> QED BY <1>4, <1>5 DEF Insert

LEMMA PlannedType ==
  ASSUME ShapeOK, NEW kind \in Kinds
  PROVE  Planned(kind) \in [kind : Kinds \cup {"none"}, to : SUBSET Everyone, skip : SUBSET Everyone]
  BY DEF Planned, ShapeOK

LEMMA RestKeepsDrain ==
  ASSUME DrainInv,
         \/ \E o \in Organisers : Plan(o)
         \/ \E j \in Jobs : GoesSilent(j) \/ GoesLate(j)
         \/ \E p \in Everyone : Refuse(p)
         \/ LockExpires
  PROVE  DrainInv' /\ UNCHANGED <<job, made, row, written, cycle>>
  <1>1. ShapeOK /\ HeldOK /\ DrainedOK
    BY DEF DrainInv
  <1>2. UNCHANGED <<job, made, row, written, cycle>>
    BY DEF Plan, GoesSilent, GoesLate, Refuse, LockExpires
  <1>3. /\ silent' \subseteq Jobs /\ refuses' \subseteq Everyone
        /\ draft' \in [Organisers -> [kind : Kinds \cup {"none"}, to : SUBSET Everyone,
                                     skip : SUBSET Everyone]]
    <2>1. CASE \E o \in Organisers : Plan(o)
      BY <1>1, <2>1, PlannedType DEF Plan, ShapeOK
    <2>2. CASE \E j \in Jobs : GoesSilent(j) \/ GoesLate(j)
      BY <1>1, <2>2 DEF GoesSilent, GoesLate, ShapeOK
    <2>3. CASE (\E p \in Everyone : Refuse(p)) \/ LockExpires
      BY <1>1, <2>3 DEF Refuse, LockExpires, ShapeOK
    <2> QED BY <2>1, <2>2, <2>3
  <1>4. ShapeOK'
    BY <1>1, <1>2, <1>3 DEF ShapeOK
  <1>5. HeldOK' /\ DrainedOK'
    BY <1>1, <1>2 DEF HeldOK, DrainedOK, CompletedMissedNobody, PendingOf
  <1> QED BY <1>2, <1>4, <1>5 DEF DrainInv

LEMMA InitDrain == SendInit => DrainInv
  <1> SUFFICES ASSUME SendInit PROVE DrainInv
    OBVIOUS
  <1>1. NoJob \in Job
    BY DEF NoJob, Job
  <1>2. NoDraft \in [kind : Kinds \cup {"none"}, to : SUBSET Everyone, skip : SUBSET Everyone]
    BY DEF NoDraft
  <1>3. ShapeOK
    BY <1>1, <1>2, IdleType, SendBoundsAssumption DEF SendInit, ShapeOK
  <1>4. HeldOK
    BY SendBoundsAssumption DEF SendInit, HeldOK, NoJob, Idle, Jobs, Active
  <1>5. DrainedOK
    BY DEF SendInit, DrainedOK, CompletedMissedNobody, NoJob, Idle
  <1> QED BY <1>3, <1>4, <1>5 DEF DrainInv

LEMMA NextKeepsDrain == DrainInv /\ [SendNext]_sendVars => DrainInv'
  <1> SUFFICES ASSUME DrainInv, [SendNext]_sendVars PROVE DrainInv'
    OBVIOUS
  <1>1. CASE UNCHANGED sendVars
    BY <1>1 DEF sendVars, DrainInv, ShapeOK, HeldOK, DrainedOK, CompletedMissedNobody, PendingOf
  <1>2. CASE SendNext
    BY <1>2, CycleKeepsDrain, InsertKeepsDrain, RestKeepsDrain DEF SendNext
  <1> QED BY <1>1, <1>2

\* A job that completed left nobody waiting, whatever cycles stall, overlap,
\* stop or fail on it.
THEOREM CompletedReachedAll == SendSpec => []CompletedMissedNobody
  <1>1. DrainInv => CompletedMissedNobody
    BY DEF DrainInv, DrainedOK
  <1> QED BY <1>1, InitDrain, NextKeepsDrain, PTL DEF SendSpec

-----------------------------------------------------------------------------
(* A job in hand is in one hand *)

\* A cycle has a job in hand that it had, or one it took; and it holds a pick
\* it had, or one it made.
LEMMA CycleTakes ==
  ASSUME DrainInv, NEW c \in Cycles, Works(c) \/ Throws(c) \/ Stops(c)
  PROVE  /\ cycle'[c].at \in InHand =>
              /\ cycle'[c].job = cycle[c].job /\ cycle'[c].resumed = cycle[c].resumed
              /\ \/ cycle[c].at \in InHand
                 \/ /\ Take(c) /\ Claimable(cycle[c].job)
                    /\ cycle'[c].at \in {"abort", "read"} /\ silent' = silent \ {cycle[c].job}
         /\ cycle'[c].at = "claim" =>
              /\ cycle'[c].job \in Jobs
              /\ cycle'[c].resumed = (job[cycle'[c].job].status = "processing")
  <1>1. ShapeOK /\ HeldOK /\ DrainedOK
    BY DEF DrainInv
  <1>3. CASE Wake(c)
    BY <1>1, <1>3, GoesStep DEF Wake, Steps, InHand
  <1>4. CASE Pick(c)
    <2>1. PICK k \in Cycle :
            /\ Becomes(c, k)
            /\ \/ k = Idle
               \/ k.at = "claim" /\ k.job \in Jobs /\ k.resumed = (job[k.job].status = "processing")
      BY <1>1, <1>4, PickStep
    <2>2. cycle'[c] = k
      BY <1>1, <2>1, BecomesType
    <2> QED BY <2>1, <2>2 DEF Idle, InHand
  <1>5. CASE Take(c)
    <2>1. CASE Claimable(cycle[c].job)
      <3>1. PICK at \in {"abort", "read"} : cycle' = [cycle EXCEPT ![c].at = at]
        BY <1>5, <2>1 DEF Take, Goes
      <3>2. Keeps(c) /\ cycle'[c].at = at
        BY <1>1, <3>1, GoesStep DEF Steps
      <3> QED BY <1>5, <2>1, <3>1, <3>2 DEF Take, Keeps
    <2>2. CASE ~Claimable(cycle[c].job)
      BY <1>1, <1>5, <2>2, IdleStep DEF Take, CycleEnds, Idle, InHand
    <2> QED BY <2>1, <2>2
  <1>6. CASE ReadBatch(c)
    <2>1. PICK k \in Cycle :
            /\ Becomes(c, k)
            /\ k.job = cycle[c].job /\ k.resumed = cycle[c].resumed /\ k.at \in {"finish", "next"}
      BY <1>1, <1>6, ReadBatchStep
    <2>2. cycle'[c] = k
      BY <1>1, <2>1, BecomesType
    <2> QED BY <1>6, <2>1, <2>2 DEF ReadBatch, InHand
  <1>7. CASE Turn(c)
    <2>1. PICK k \in Cycle :
            /\ Becomes(c, k)
            /\ k.job = cycle[c].job /\ k.resumed = cycle[c].resumed /\ k.at \in {"read", "mark", "write"}
      BY <1>1, <1>7, TurnStep
    <2>2. cycle'[c] = k
      BY <1>1, <2>1, BecomesType
    <2> QED BY <1>7, <2>1, <2>2 DEF Turn, InHand
  <1>8. CASE Write(c)
    BY <1>1, <1>8, ToMarkStep DEF Write, Marks, Keeps, InHand
  <1>9. CASE Mark(c)
    BY <1>1, <1>9, GoesStep DEF Mark, Goes, Steps, Keeps, InHand
  <1>10. CASE Count(c)
    BY <1>1, <1>10, GoesStep DEF Count, Goes, Steps, Keeps, InHand
  <1>11. CASE Finish(c) \/ Abort(c) \/ Stops(c)
    BY <1>1, <1>11, IdleStep DEF Finish, Abort, Stops, CycleEnds, Idle, InHand
  <1>12. CASE Throws(c)
    BY <1>1, <1>12, ThrowsStep DEF Keeps, InHand, Idle
  <1> QED BY <1>3, <1>4, <1>5, <1>6, <1>7, <1>8, <1>9, <1>10, <1>11, <1>12 DEF Works

\* Who has no job in hand disturbs none of the others.
LEMMA CycleLeavesOthers ==
  ASSUME DrainInv, LeaseOK, NEW c \in Cycles, Works(c) \/ Throws(c) \/ Stops(c),
         NEW d \in Cycles \ {c}, NEW j \in Jobs, Owns(d, j)
  PROVE  /\ cycle'[d] = cycle[d] /\ ~(cycle'[c].at \in InHand /\ cycle'[c].job = j)
         /\ job'[j].status = "processing" /\ j \notin silent'
         /\ row'[j] = row[j] /\ written'[j] = written[j]
  <1>1. ShapeOK /\ HeldOK
    BY DEF DrainInv
  <1>2. job[j].status = "processing" /\ j \notin silent /\ ~Owns(c, j)
    BY DEF LeaseOK
  <1>3. ~Claimable(j)
    BY <1>2 DEF Claimable, NeedsWorker
  <1>4. cycle'[d] = cycle[d]
    BY <1>1, CycleAlone DEF Alone
  <1>5. ~(cycle'[c].at \in InHand /\ cycle'[c].job = j)
    BY <1>2, <1>3, CycleTakes DEF Owns
  <1>6. job'[j].status = job[j].status
    <2>1. ~(j = cycle[c].job /\ (Finish(c) \/ Abort(c)))
      BY <1>2 DEF Finish, Abort, Owns, InHand
    <2> QED BY <1>1, <1>3, <2>1, CycleJobs
  <1>7. silent' \subseteq silent
    BY DEF Works, Wake, Pick, Take, ReadBatch, Turn, Write, Mark, Count, Finish, Abort,
           Throws, Stops
  <1>8. row'[j] = row[j]
    <2>1. CASE row' = row
      BY <2>1
    <2>2. CASE Mark(c)
      <3>1. cycle[c].job # j /\ cycle[c].job \in Jobs /\ cycle[c].who \in Everyone
        BY <1>1, <1>2, <2>2, SendBoundsAssumption DEF Mark, Owns, InHand, HeldOK, ShapeOK, Jobs
      <3> QED BY <2>2, <3>1 DEF Mark
    <2> QED BY <1>1, <2>1, <2>2, CycleRows
  <1>9. written'[j] = written[j]
    <2>1. CASE written' = written
      BY <2>1
    <2>2. CASE Write(c)
      <3>1. cycle[c].job # j
        BY <1>2, <2>2 DEF Write, Owns, InHand
      <3>2. \/ written' = written
            \/ written' = [written EXCEPT ![cycle[c].job][cycle[c].who] = @ + 1]
        BY <2>2 DEF Write
      <3> QED BY <1>1, <3>1, <3>2 DEF ShapeOK
    <2> QED BY <1>1, <2>1, <2>2, CycleWritten
  <1> QED BY <1>2, <1>4, <1>5, <1>6, <1>7, <1>8, <1>9

LEMMA CycleKeepsLease ==
  ASSUME DrainInv, LeaseOK, NEW c \in Cycles, Works(c) \/ Throws(c) \/ Stops(c)
  PROVE  LeaseOK'
  <1>1. ShapeOK /\ HeldOK /\ DrainInv'
    BY CycleKeepsDrain DEF DrainInv
  <1>2. silent' \subseteq silent
    BY DEF Works, Wake, Pick, Take, ReadBatch, Turn, Write, Mark, Count, Finish, Abort,
           Throws, Stops
  <1>3. \A d \in Cycles \ {c} : cycle'[d] = cycle[d]
    BY <1>1, CycleAlone DEF Alone
  <1>4. ASSUME NEW j \in Jobs, cycle[c].job = j, Finish(c) \/ Abort(c) PROVE j \notin silent
    BY <1>4 DEF LeaseOK, Owns, InHand, Finish, Abort
  <1>5. \A j \in silent' : job'[j].status = "processing"
    <2> SUFFICES ASSUME NEW j \in silent' PROVE job'[j].status = "processing"
      OBVIOUS
    <2>1. j \in Jobs /\ j \in silent /\ job[j].status = "processing"
      BY <1>1, <1>2 DEF LeaseOK, ShapeOK
    <2> QED BY <1>1, <1>4, <2>1, CycleJobs
  <1>6. ASSUME NEW j \in Jobs, cycle'[c].at \in InHand, cycle'[c].job = j
        PROVE  job'[j].status = "processing" /\ j \notin silent'
    <2>1. CASE Owns(c, j)
      <3>1. ~Finish(c) /\ ~Abort(c)
        BY <1>1, <1>6, IdleStep DEF Finish, Abort, CycleEnds, Idle, InHand
      <3> QED BY <1>1, <1>2, <2>1, <3>1, CycleJobs DEF LeaseOK
    <2>2. CASE ~Owns(c, j)
      <3>1. Take(c) /\ Claimable(j) /\ cycle[c].job = j /\ silent' = silent \ {j}
        BY <1>6, <2>2, CycleTakes DEF Owns
      <3>2. job' = [job EXCEPT ![j].status = "processing"]
        BY <3>1 DEF Take
      <3> QED BY <1>1, <3>1, <3>2, StatusType DEF Active
    <2> QED BY <2>1, <2>2
  <1>7. ASSUME NEW d \in Cycles \ {c}, NEW j \in Jobs, Owns(d, j)'
        PROVE  /\ job'[j].status = "processing" /\ j \notin silent'
               /\ ~Owns(c, j)' /\ Owns(d, j)
    <2>1. Owns(d, j)
      BY <1>3, <1>7 DEF Owns
    <2> QED BY <2>1, CycleLeavesOthers DEF Owns
  <1>8. \A d \in Cycles, j \in Jobs : Owns(d, j)' => job'[j].status = "processing" /\ j \notin silent'
    BY <1>6, <1>7 DEF Owns
  <1>9. \A d, e \in Cycles, j \in Jobs : Owns(d, j)' /\ Owns(e, j)' => d = e
    BY <1>7 DEF LeaseOK
  <1>10. \A d \in Cycles : cycle'[d].at = "claim" /\ ~cycle'[d].resumed => cycle'[d].job \notin silent'
    <2>1. cycle'[c].at = "claim" /\ ~cycle'[c].resumed => cycle'[c].job \notin silent
      BY CycleTakes DEF LeaseOK
    <2> QED BY <1>2, <1>3, <2>1 DEF LeaseOK
  <1> QED BY <1>5, <1>8, <1>9, <1>10 DEF LeaseOK

\* A job goes silent, where no cycle stands still, only when nobody holds it.
LEMMA RestKeepsLease ==
  ASSUME ~Stalls, DrainInv, LeaseOK,
         \/ \E o \in Organisers : Plan(o)
         \/ \E j \in Jobs : GoesSilent(j) \/ GoesLate(j)
         \/ \E p \in Everyone : Refuse(p)
         \/ LockExpires
  PROVE  LeaseOK'
  <1>1. UNCHANGED <<job, cycle>>
    BY RestKeepsDrain
  <1>2. CASE UNCHANGED silent
    BY <1>1, <1>2 DEF LeaseOK, Owns
  <1>3. ASSUME NEW j \in Jobs, GoesSilent(j) PROVE LeaseOK'
    <2>1. /\ silent' = silent \cup {j} /\ job[j].status = "processing"
          /\ \A c \in Cycles : cycle[c].job # j
      BY <1>3 DEF GoesSilent
    <2> QED BY <1>1, <2>1 DEF LeaseOK, Owns
  <1> QED BY <1>2, <1>3 DEF Plan, GoesLate, Refuse, LockExpires

LEMMA InsertKeepsLease ==
  ASSUME DrainInv, LeaseOK, NEW o \in Organisers, Insert(o)
  PROVE  LeaseOK'
  <1>1. ShapeOK /\ HeldOK
    BY DEF DrainInv
  <1>2. UNCHANGED <<silent, cycle>>
    BY DEF Insert
  <1>3. \A j \in Jobs : job[j].status = "processing" => job'[j].status = "processing"
    <2> TAKE j \in Jobs
    <2>1. job[j].status = "processing" => j \in 1..made
      BY <1>1 DEF HeldOK, ShapeOK, Jobs
    <2> QED BY <2>1, InsertKeepsDrain
  <1>4. silent \subseteq Jobs
    BY <1>1 DEF ShapeOK
  <1> QED BY <1>2, <1>3, <1>4 DEF LeaseOK, Owns

-----------------------------------------------------------------------------
(* Nobody is written to twice *)

\* What a first taking of a job finds: nobody has had a word of it.
LEMMA FirstTaking ==
  ASSUME DrainInv, LeaseOK, WrittenOK, NEW c \in Cycles, Take(c), ~cycle[c].resumed,
         Claimable(cycle[c].job)
  PROVE  \A p \in Everyone : written[cycle[c].job][p] = 0
  <1> DEFINE j == cycle[c].job
  <1>1. cycle[c].at = "claim" /\ NeedsWorker(j)
    BY DEF Take, Claimable
  <1>2. j \in Jobs
    BY <1>1, SendBoundsAssumption DEF DrainInv, ShapeOK, HeldOK, Jobs
  <1>3. job[j].status = "pending"
    BY <1>1 DEF LeaseOK, NeedsWorker
  <1> QED BY <1>2, <1>3 DEF WrittenOK

\* The cycle's own batch, step by step.
LEMMA CycleKeepsBatch ==
  ASSUME DrainInv, LeaseOK, WrittenOK, NEW c \in Cycles, Works(c) \/ Throws(c) \/ Stops(c)
  PROVE  BatchOK(c)' /\ FreshOK(c)'
  <1>1. ShapeOK /\ HeldOK /\ BatchOK(c) /\ FreshOK(c)
    BY DEF DrainInv, WrittenOK
  <1>2. CASE cycle'[c].at \notin AtPerson \cup {"read"}
    BY <1>2 DEF BatchOK, FreshOK, AtPerson
  <1>3. CASE Take(c)
    <2>1. cycle'[c].at \in InHand =>
            /\ cycle'[c].job = cycle[c].job /\ cycle'[c].resumed = cycle[c].resumed
            /\ Claimable(cycle[c].job) /\ cycle'[c].at \in {"abort", "read"}
      BY <1>3, CycleTakes DEF Take, InHand
    <2>2. UNCHANGED <<row, written>>
      BY <1>3 DEF Take
    <2>3. cycle'[c].at \in AtPerson \cup {"read"} => cycle'[c].at = "read"
      BY <2>1 DEF AtPerson, InHand
    <2>4. BatchOK(c)'
      BY <2>3 DEF BatchOK, AtPerson
    <2>5. CASE cycle'[c].at = "read" /\ ~cycle'[c].resumed
      <3>1. \A p \in Everyone : written'[cycle'[c].job][p] = 0
        BY <1>3, <2>1, <2>2, <2>5, FirstTaking DEF InHand
      <3>2. \A p \in PendingOf(cycle[c].job)' : p \in Everyone
        BY DEF PendingOf
      <3> QED BY <2>4, <3>1, <3>2 DEF FreshOK
    <2> QED BY <2>3, <2>4, <2>5 DEF FreshOK
  <1>4. CASE ReadBatch(c)
    <2>1. PICK k \in Cycle :
            /\ Becomes(c, k)
            /\ k.job = cycle[c].job /\ k.resumed = cycle[c].resumed
            /\ k.batch \subseteq PendingOf(k.job) /\ k.at \in {"finish", "next"}
      BY <1>1, <1>4, ReadBatchStep
    <2>2. cycle'[c] = k
      BY <1>1, <2>1, BecomesType
    <2>3. UNCHANGED <<row, written>> /\ cycle[c].at = "read"
      BY <1>4 DEF ReadBatch
    <2> QED BY <1>1, <2>1, <2>2, <2>3 DEF BatchOK, FreshOK, AtPerson, PendingOf
  <1>5. CASE Turn(c)
    <2>1. PICK k \in Cycle :
            /\ Becomes(c, k)
            /\ k.job = cycle[c].job /\ k.resumed = cycle[c].resumed
            /\ k.batch \subseteq cycle[c].batch
            /\ \/ k.at = "read"
               \/ k.at \in {"mark", "write"} /\ k.who \in cycle[c].batch /\ k.who \notin k.batch
      BY <1>1, <1>5, TurnStep
    <2>2. cycle'[c] = k
      BY <1>1, <2>1, BecomesType
    <2>3. UNCHANGED <<row, written>> /\ cycle[c].at = "next"
      BY <1>5 DEF Turn
    <2> QED BY <1>1, <2>1, <2>2, <2>3 DEF BatchOK, FreshOK, AtPerson, PendingOf
  <1>6. CASE Write(c)
    <2>1. Keeps(c) /\ cycle'[c].at = "mark"
      BY <1>1, <1>6, ToMarkStep DEF Write, Marks
    <2>2. row' = row /\ cycle[c].at = "write"
      BY <1>6 DEF Write
    <2>3. cycle[c].job \in Jobs
      BY <1>1, <2>2, SendBoundsAssumption DEF HeldOK, ShapeOK, Jobs
    <2>4. \A p \in Everyone : p # cycle[c].who => written'[cycle[c].job][p] = written[cycle[c].job][p]
      BY <1>1, <2>3, CycleWritten
    <2>5. BatchOK(c)'
      BY <1>1, <2>1, <2>2 DEF BatchOK, AtPerson, Keeps, PendingOf
    <2>6. FreshOK(c)'
      BY <1>1, <2>1, <2>2, <2>4 DEF FreshOK, AtPerson, Keeps, PendingOf
    <2> QED BY <2>5, <2>6
  <1>7. CASE Mark(c)
    <2>1. Keeps(c) /\ cycle'[c].at = "count"
      BY <1>1, <1>7, GoesStep DEF Mark, Goes, Steps
    <2>2. written' = written /\ cycle[c].at = "mark"
      BY <1>7 DEF Mark
    <2>3. cycle[c].job \in Jobs /\ cycle[c].who \in Everyone /\ cycle[c].mark \in Marks
      <3>1. cycle[c].mark \in Marks
        BY <1>1 DEF ShapeOK, Cycle
      <3>2. cycle[c].job \in 1..made /\ cycle[c].who \in Everyone
        BY <1>1, <2>2 DEF HeldOK
      <3> QED BY <1>1, <3>1, <3>2, SendBoundsAssumption DEF ShapeOK, Jobs
    <2>4. row' = [row EXCEPT ![cycle[c].job][cycle[c].who] = cycle[c].mark]
      BY <1>7 DEF Mark
    <2>5. \A p \in Everyone : row'[cycle[c].job][p] =
                                IF p = cycle[c].who THEN cycle[c].mark ELSE row[cycle[c].job][p]
      BY <1>1, <2>3, <2>4 DEF ShapeOK
    <2>6. PendingOf(cycle[c].job)' = {p \in Everyone : row'[cycle'[c].job][p] = "pending"}
      BY DEF PendingOf
    <2>7. {p \in Everyone : row'[cycle'[c].job][p] = "pending"} = PendingOf(cycle[c].job) \ {cycle[c].who}
      BY <2>1, <2>3, <2>5 DEF PendingOf, Keeps, Marks
    <2> QED BY <1>1, <2>1, <2>2, <2>6, <2>7 DEF BatchOK, FreshOK, AtPerson, Keeps
  <1>8. CASE Count(c)
    <2>1. Keeps(c) /\ cycle'[c].at = "next"
      BY <1>1, <1>8, GoesStep DEF Count, Goes, Steps
    <2>2. UNCHANGED <<row, written>> /\ cycle[c].at = "count"
      BY <1>8 DEF Count
    <2> QED BY <1>1, <2>1, <2>2 DEF BatchOK, FreshOK, AtPerson, Keeps, PendingOf
  <1>9. CASE Throws(c)
    <2>1. UNCHANGED <<row, written>>
      BY <1>9 DEF Throws
    <2>2. CASE Keeps(c) /\ cycle'[c].at = "mark" /\ cycle[c].at \in {"write", "mark", "count"}
      BY <1>1, <2>1, <2>2 DEF BatchOK, FreshOK, AtPerson, Keeps, PendingOf
    <2> QED BY <1>1, <1>2, <1>9, <2>2, ThrowsStep DEF Idle, AtPerson
  <1>10. CASE Wake(c) \/ Pick(c) \/ Finish(c) \/ Abort(c) \/ Stops(c)
    <2>1. CASE Wake(c) \/ Pick(c)
      BY <1>2, <1>10, <2>1, CycleTakes DEF Wake, Pick, InHand, Take, AtPerson
    <2>2. CASE Finish(c) \/ Abort(c) \/ Stops(c)
      BY <1>1, <1>2, <2>2, IdleStep DEF Finish, Abort, Stops, CycleEnds, Idle, AtPerson
    <2> QED BY <1>10, <2>1, <2>2
  <1> QED BY <1>3, <1>4, <1>5, <1>6, <1>7, <1>8, <1>9, <1>10 DEF Works

LEMMA CycleKeepsWritten ==
  ASSUME DrainInv, LeaseOK, WrittenOK, NEW c \in Cycles, Works(c) \/ Throws(c) \/ Stops(c)
  PROVE  WrittenOK'
  <1>1. ShapeOK /\ HeldOK /\ BatchOK(c) /\ FreshOK(c)
    BY DEF DrainInv, WrittenOK
  <1>3. ASSUME NEW d \in Cycles \ {c} PROVE BatchOK(d)' /\ FreshOK(d)'
    <2>1. BatchOK(d) /\ FreshOK(d) /\ cycle'[d] = cycle[d]
      BY <1>1, CycleAlone DEF WrittenOK, Alone
    <2>2. CASE cycle[d].at \in AtPerson \cup {"read"}
      <3>1. cycle[d].job \in Jobs /\ Owns(d, cycle[d].job)
        BY <1>1, <2>2, SendBoundsAssumption DEF HeldOK, ShapeOK, Jobs, AtPerson, Owns, InHand
      <3>2. row'[cycle[d].job] = row[cycle[d].job] /\ written'[cycle[d].job] = written[cycle[d].job]
        BY <3>1, CycleLeavesOthers
      <3> QED BY <2>1, <3>2 DEF BatchOK, FreshOK, PendingOf
    <2> QED BY <2>1, <2>2 DEF BatchOK, FreshOK, AtPerson
  <1>4. ASSUME NEW j \in Jobs, job'[j].status \in {"none", "pending"}, NEW p \in Everyone
        PROVE  written'[j][p] = 0
    <2>1. job[j].status = job'[j].status
      BY <1>1, <1>4, CycleJobs
    <2>2. written[j][p] = 0
      BY <1>4, <2>1 DEF WrittenOK
    <2>3. Write(c) => cycle[c].job # j
      BY <1>4, <2>1 DEF LeaseOK, Owns, InHand, Write
    <2> QED BY <1>1, <2>2, <2>3, CycleWritten
  <1>5. ASSUME NEW j \in Jobs, NEW p \in Everyone, job'[j].kind = "own"
        PROVE  written'[j][p] <= 1
    <2>1. job[j].kind = "own" /\ written[j][p] <= 1
      BY <1>1, <1>5, CycleJobs DEF WrittenOK, NobodyWrittenTwice
    <2>2. CASE Write(c) /\ FALSE \in CopyFound(c, cycle[c].who) /\ j = cycle[c].job /\ p = cycle[c].who
      <3>1. written[j][p] = 0
        <4>1. CASE cycle[c].resumed
          BY <2>1, <2>2, <4>1 DEF CopyFound
        <4>2. CASE ~cycle[c].resumed
          BY <1>1, <2>2, <4>2 DEF BatchOK, FreshOK, AtPerson, Write
        <4> QED BY <4>1, <4>2
      <3>2. written'[j][p] = written[j][p] \/ written'[j][p] = written[j][p] + 1
        BY <1>1, <2>2, CycleWritten
      <3> QED BY <3>1, <3>2
    <2>3. CASE written'[j][p] = written[j][p]
      BY <2>1, <2>3
    <2> QED BY <1>1, <2>2, <2>3, CycleWritten
  <1> QED BY <1>3, <1>4, <1>5, CycleKeepsBatch DEF WrittenOK, NobodyWrittenTwice

LEMMA InsertKeepsWritten ==
  ASSUME DrainInv, LeaseOK, WrittenOK, NEW o \in Organisers, Insert(o)
  PROVE  WrittenOK'
  <1>1. ShapeOK /\ HeldOK
    BY DEF DrainInv
  <1>2. UNCHANGED <<written, cycle>>
    BY DEF Insert
  <1>3. ASSUME NEW j \in Jobs
        PROVE  \/ job'[j] = job[j]
               \/ \A p \in Everyone : written[j][p] = 0
    <2>1. CASE j \in 1..made
      BY <2>1, InsertKeepsDrain
    <2>2. CASE j \notin 1..made
      <3>1. job[j].status = "none"
        BY <1>1, <2>2 DEF HeldOK, ShapeOK, Jobs
      <3> QED BY <3>1 DEF WrittenOK
    <2> QED BY <2>1, <2>2
  <1>4. \A c \in Cycles : BatchOK(c)' /\ FreshOK(c)'
    <2> TAKE c \in Cycles
    <2>1. CASE cycle[c].at \in AtPerson \cup {"read"}
      <3>1. cycle[c].job \in 1..made
        BY <1>1, <2>1 DEF HeldOK, AtPerson
      <3>2. row'[cycle[c].job] = row[cycle[c].job]
        BY <3>1, InsertKeepsDrain
      <3> QED BY <1>2, <3>2 DEF BatchOK, FreshOK, PendingOf, WrittenOK
    <2> QED BY <1>2, <2>1 DEF BatchOK, FreshOK, AtPerson
  <1>5. \A j \in Jobs : job'[j].status \in {"none", "pending"} =>
                          \A p \in Everyone : written'[j][p] = 0
    BY <1>2, <1>3 DEF WrittenOK
  <1>6. NobodyWrittenTwice'
    <2>1. \A j \in Jobs, p \in Everyone : job'[j].kind = "own" => written[j][p] <= 1
      BY <1>3 DEF WrittenOK, NobodyWrittenTwice
    <2> QED BY <1>2, <2>1 DEF NobodyWrittenTwice
  <1> QED BY <1>4, <1>5, <1>6 DEF WrittenOK

LEMMA NextKeepsOnce ==
  ASSUME ~Stalls, OnceInv, [SendNext]_sendVars
  PROVE  OnceInv'
  <1>1. DrainInv /\ LeaseOK /\ WrittenOK /\ DrainInv'
    BY NextKeepsDrain DEF OnceInv
  <1>2. CASE UNCHANGED <<job, row, written, cycle>> /\ LeaseOK'
    BY <1>1, <1>2 DEF OnceInv, WrittenOK, NobodyWrittenTwice, BatchOK, FreshOK, PendingOf
  <1>3. CASE UNCHANGED sendVars
    BY <1>1, <1>2, <1>3 DEF sendVars, LeaseOK, Owns
  <1>4. CASE \E o \in Organisers : Insert(o)
    BY <1>1, <1>4, InsertKeepsLease, InsertKeepsWritten DEF OnceInv
  <1>5. CASE \E c \in Cycles : Works(c) \/ Throws(c) \/ Stops(c)
    BY <1>1, <1>5, CycleKeepsLease, CycleKeepsWritten DEF OnceInv
  <1>6. CASE \/ \E o \in Organisers : Plan(o)
             \/ \E j \in Jobs : GoesSilent(j) \/ GoesLate(j)
             \/ \E p \in Everyone : Refuse(p)
             \/ LockExpires
    BY <1>1, <1>2, <1>6, RestKeepsDrain, RestKeepsLease
  <1> QED BY <1>3, <1>4, <1>5, <1>6 DEF SendNext

LEMMA InitOnce == SendInit => OnceInv
  <1> SUFFICES ASSUME SendInit PROVE OnceInv
    OBVIOUS
  <1>1. LeaseOK
    BY DEF SendInit, LeaseOK, Owns, Idle, InHand
  <1>2. WrittenOK
    BY DEF SendInit, WrittenOK, BatchOK, FreshOK, AtPerson, NobodyWrittenTwice, Idle
  <1> QED BY <1>1, <1>2, InitDrain DEF OnceInv

\* Where no cycle stands still for five minutes and wakes, nobody gets the
\* organiser's words of one send twice, however often the servers that send it
\* stop, fail or take over from one another.
THEOREM OwnWordsOnce ==
  ASSUME ~Stalls PROVE SendSpec => []NobodyWrittenTwice
  <1>1. SendInit => OnceInv
    BY InitOnce
  <1>2. OnceInv /\ [SendNext]_sendVars => OnceInv'
    BY NextKeepsOnce
  <1>3. OnceInv => NobodyWrittenTwice
    BY DEF OnceInv, WrittenOK
  <1> QED BY <1>1, <1>2, <1>3, PTL DEF SendSpec
=============================================================================
