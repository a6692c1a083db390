------------------------------ MODULE Broadcast ------------------------------
(***************************************************************************)
(* "Message everyone" after an event: a table of jobs, a row per person,   *)
(* and worker cycles, one every 10 s in every server, that drain them.     *)
(*                                                                         *)
(* A cycle keeps in memory what it read: the job as it was when picked,    *)
(* and up to 25 people who were pending.  Every statement commits alone,   *)
(* so a server that stops leaves a job half sent; a later cycle takes a    *)
(* job that gave no sign of life for five minutes and carries on.          *)
(***************************************************************************)
EXTENDS Naturals, FiniteSets, FiniteSetsExt

CONSTANTS
  Everyone,     \* who took part
  Organisers,   \* who may send
  Cycles,       \* worker cycles that may run at once
  Kinds,        \* "own": the organiser's words; "template": the older send
  BatchSize,    \* how many pending people a cycle reads (25 in the code)
  Stalls,       \* whether a cycle may stand still for five minutes and wake
  MaxJobs,      \* bound: sends
  MaxRefusals,  \* bound: blocks and closed accounts
  MaxFaults     \* bound: servers that stop, statements that fail

ASSUME EveryoneAssumption == IsFiniteSet(Everyone) /\ "nobody" \notin Everyone
ASSUME KindsAssumption == Kinds \subseteq {"own", "template"}
ASSUME StallsAssumption == Stalls \in BOOLEAN
ASSUME SendBoundsAssumption ==
  /\ MaxJobs \in Nat /\ MaxRefusals \in Nat /\ MaxFaults \in Nat
  /\ BatchSize \in Nat \ {0}

VARIABLES
  job,       \* the jobs, in the order they were made
  made,      \* how many there are
  row,       \* the row of each job for each person
  written,   \* how many messages of a job's words each person has
  silent,    \* processing jobs without a sign of life for five minutes
  late,      \* jobs made over a day ago
  refuses,   \* who has blocked the sender, or closed the account
  lock,      \* whether Redis holds the worker's key
  draft,     \* what each organiser's request has read, before it inserts
  cycle,     \* what each cycle holds in memory
  faults     \* how many there were

sendVars == <<job, made, row, written, silent, late, refuses, lock, draft, cycle, faults>>

Jobs == 1..MaxJobs
Active == {"pending", "processing"}
Ended == {"completed", "completed_with_errors", "failed"}
NoDraft == [kind |-> "none", to |-> {}, skip |-> {}]
NoJob == [kind |-> "none", status |-> "none", total |-> 0, sent |-> 0, failed |-> 0]
Nobody == "nobody"
Idle == [at |-> "idle", job |-> 0, resumed |-> FALSE, who |-> Nobody, mark |-> "sent", batch |-> {}, skip |-> {}]
Marks == {"sent", "skipped", "failed"}
Steps == {"idle", "pick", "claim", "read", "next", "write", "finish", "abort"}
           \cup {"mark", "count"}

SendTypeOK ==
  /\ job \in [Jobs -> [kind : Kinds \cup {"none"}, status : {"none"} \cup Active \cup Ended,
                       total : 0..Cardinality(Everyone), sent : Nat, failed : Nat]]
  /\ made \in 0..MaxJobs
  /\ row \in [Jobs -> [Everyone -> {"none", "pending", "sent", "failed", "skipped"}]]
  /\ written \in [Jobs -> [Everyone -> Nat]]
  /\ silent \subseteq Jobs /\ late \subseteq Jobs
  /\ refuses \subseteq Everyone
  /\ lock \in BOOLEAN
  /\ draft \in [Organisers -> [kind : Kinds \cup {"none"}, to : SUBSET Everyone,
                               skip : SUBSET Everyone]]
  /\ cycle \in [Cycles -> [at : Steps, job : Jobs \cup {0}, resumed : BOOLEAN,
                           who : Everyone \cup {Nobody}, mark : Marks, batch : SUBSET Everyone, skip : SUBSET Everyone]]
  /\ faults \in 0..MaxFaults

-----------------------------------------------------------------------------
(* A send *)

SentBefore == {p \in Everyone : \E j \in Jobs : row[j][p] = "sent"}

\* Own words go to everyone who took part, and a refusal is a row 'skipped';
\* the template goes to those no earlier job is known to have reached.
Planned(kind) ==
  IF kind = "own"
  THEN [kind |-> kind, to |-> Everyone \ refuses, skip |-> refuses]
  ELSE [kind |-> kind, to |-> Everyone \ SentBefore, skip |-> {}]

Plan(o) ==
  /\ draft[o] = NoDraft
  /\ made < MaxJobs
  /\ \E kind \in Kinds :
       LET d == Planned(kind) IN
       /\ kind = "own" => d.to # {}
       /\ draft' = [draft EXCEPT ![o] = d]
  /\ UNCHANGED <<job, made, row, written, silent, late, refuses, lock, cycle, faults>>

\* The unique index allows one active job of the event; the loser has a 409.
Insert(o) ==
  /\ draft[o] # NoDraft
  /\ draft' = [draft EXCEPT ![o] = NoDraft]
  /\ IF made < MaxJobs /\ \A j \in Jobs : job[j].status \notin Active
     THEN LET j == made + 1
              d == draft[o] IN
          /\ made' = j
          /\ job' = [job EXCEPT ![j] =
               [kind |-> d.kind, status |-> "pending", total |-> Cardinality(d.to),
                sent |-> 0, failed |-> 0]]
          /\ row' = [row EXCEPT ![j] =
               [p \in Everyone |-> IF p \in d.to THEN "pending"
                                   ELSE IF p \in d.skip THEN "skipped" ELSE "none"]]
     ELSE UNCHANGED <<made, job, row>>
  /\ UNCHANGED <<written, silent, late, refuses, lock, cycle, faults>>

-----------------------------------------------------------------------------
(* Finding and taking a job *)

NeedsWorkerPendingOnly(j) == job[j].status = "pending"
NeedsWorker(j) ==
  \/ job[j].status = "pending"
  \/ job[j].status = "processing" /\ j \in silent

\* A cycle of the interval: the probe, then the key, SET NX.
Wake(c) ==
  /\ cycle[c].at = "idle"
  /\ \E j \in Jobs : NeedsWorker(j)
  /\ ~lock
  /\ lock' = TRUE
  /\ cycle' = [cycle EXCEPT ![c].at = "pick"]
  /\ UNCHANGED <<job, made, row, written, silent, late, refuses, draft, faults>>

\* The key is kept 55 s and never renewed; whoever ends deletes it.
LockExpires ==
  /\ lock
  /\ lock' = FALSE
  /\ UNCHANGED <<job, made, row, written, silent, late, refuses, draft, cycle, faults>>

CycleEnds(c) == cycle' = [cycle EXCEPT ![c] = Idle] /\ lock' = FALSE
Goes(c, at) == cycle' = [cycle EXCEPT ![c].at = at] /\ UNCHANGED lock

Pick(c) ==
  /\ cycle[c].at = "pick"
  /\ LET found == {j \in Jobs : NeedsWorker(j)} IN
     IF found = {} THEN CycleEnds(c)
     ELSE LET j == CHOOSE j \in found : \A i \in found : j <= i IN
          /\ cycle' = [cycle EXCEPT ![c] = [@ EXCEPT !.at = "claim", !.job = j,
                         !.resumed = job[j].status = "processing"]]
          /\ UNCHANGED lock
  /\ UNCHANGED <<job, made, row, written, silent, late, refuses, draft, faults>>

\* One UPDATE asks the same again.  A resumed job a day old is failed instead.
Claimable(j) == NeedsWorker(j)
Take(c) ==
  LET j == cycle[c].job IN
  /\ cycle[c].at = "claim"
  /\ IF Claimable(j)
     THEN /\ job' = [job EXCEPT ![j].status = "processing"]
          /\ silent' = silent \ {j}
          /\ Goes(c, IF cycle[c].resumed /\ j \in late THEN "abort" ELSE "read")
     ELSE CycleEnds(c) /\ UNCHANGED <<job, silent>>
  /\ UNCHANGED <<made, row, written, late, refuses, draft, faults>>

-----------------------------------------------------------------------------
(* Draining it *)

PendingOf(j) == {p \in Everyone : row[j][p] = "pending"}

\* Rows of one insert have one created_at: which come first is Postgres's.
\* A cycle that finds nobody pending is done.
BatchesUnordered(P) == SUBSET P
Batches(P) == kSubset(IF BatchSize < Cardinality(P) THEN BatchSize ELSE Cardinality(P), P)
ReadBatch(c) ==
  LET P == PendingOf(cycle[c].job) IN
  /\ cycle[c].at = "read"
  /\ \E b \in Batches(P) :
       cycle' = [cycle EXCEPT ![c] = [@ EXCEPT
                   !.at = IF b = {} THEN "finish" ELSE "next",
                   !.batch = b, !.skip = b \cap refuses]]
  /\ UNCHANGED <<job, made, row, written, silent, late, refuses, lock, draft, faults>>

\* The next person of the batch: left out if it was seen then that they must be.
Turn(c) ==
  /\ cycle[c].at = "next"
  /\ IF cycle[c].batch = {} THEN cycle' = [cycle EXCEPT ![c].at = "read"]
     ELSE \E p \in cycle[c].batch :
            cycle' = [cycle EXCEPT ![c] = [cycle[c] EXCEPT !.batch = @ \ {p}, !.who = p,
                        !.at = IF p \in cycle[c].skip THEN "mark" ELSE "write",
                        !.mark = IF p \in cycle[c].skip THEN "skipped" ELSE "sent"]]
  /\ UNCHANGED <<job, made, row, written, silent, late, refuses, lock, draft, faults>>

\* A resumed cycle looks for the words the stopped one may have written.  It
\* finds the organiser's; the template is built from names that may have changed.
CopyIgnored(c, p) == {FALSE}
CopyFound(c, p) ==
  LET j == cycle[c].job IN
  IF ~cycle[c].resumed \/ written[j][p] = 0 THEN {FALSE}
  ELSE IF job[j].kind = "own" THEN {TRUE} ELSE BOOLEAN

ToMark(c, mark) ==
  /\ cycle' = [cycle EXCEPT ![c] = [@ EXCEPT !.at = "mark", !.mark = mark]]
  /\ UNCHANGED lock

\* sendBroadcastMessage asks for blocks again, then writes.
Write(c) ==
  LET p == cycle[c].who IN
  /\ cycle[c].at = "write"
  /\ \E found \in CopyFound(c, p) :
       IF ~found /\ p \in refuses
       THEN ToMark(c, "skipped") /\ UNCHANGED written
       ELSE /\ written' = IF found THEN written
                          ELSE [written EXCEPT ![cycle[c].job][p] = @ + 1]
            /\ ToMark(c, "sent")
  /\ UNCHANGED <<job, made, row, silent, late, refuses, draft, faults>>

\* markSent, markSkipped and the catch: the row by its id, whatever it says...
Mark(c) ==
  LET k == cycle[c] IN
  /\ k.at = "mark"
  /\ row' = [row EXCEPT ![k.job][k.who] = k.mark]
  /\ silent' = IF k.mark = "sent" THEN silent \ {k.job} ELSE silent
  /\ Goes(c, "count")
  /\ UNCHANGED <<job, made, written, late, refuses, draft, faults>>

\* ... then the count of the job.  A person left out is not one of the total.
Counted(k, mark) ==
  CASE mark = "sent" -> [k EXCEPT !.sent = @ + 1]
    [] mark = "failed" -> [k EXCEPT !.failed = @ + 1]
    [] mark = "skipped" -> [k EXCEPT !.total = @ - 1]
Count(c) ==
  LET k == cycle[c] IN
  /\ k.at = "count"
  /\ job' = [job EXCEPT ![k.job] = Counted(@, k.mark)]
  /\ Goes(c, "next")
  /\ UNCHANGED <<made, row, written, silent, late, refuses, draft, faults>>

\* Nobody is pending any more: the job ends, whatever it says by now.
Finish(c) ==
  LET j == cycle[c].job IN
  /\ cycle[c].at = "finish"
  /\ job' = [job EXCEPT ![j].status =
               IF job[j].failed > 0 THEN "completed_with_errors" ELSE "completed"]
  /\ CycleEnds(c)
  /\ UNCHANGED <<made, row, written, silent, late, refuses, draft, faults>>

\* failJob
Abort(c) ==
  /\ cycle[c].at = "abort"
  /\ job' = [job EXCEPT ![cycle[c].job].status = "failed"]
  /\ CycleEnds(c)
  /\ UNCHANGED <<made, row, written, silent, late, refuses, draft, faults>>

-----------------------------------------------------------------------------
(* What can go wrong, and time *)

\* The catch writes already: 'failed', or 'skipped' of one whose block landed
\* after the batch was read.
Caught(k) == k.mark = "failed" \/ (k.mark = "skipped" /\ k.who \notin k.skip)
\* A statement fails.  For a person, the catch marks the row 'failed'; a
\* failure in the catch, of a read or of the end aborts the job; before the
\* job is drained, and in failJob itself, the cycle just ends.
Throws(c) ==
  LET k == cycle[c] IN
  /\ k.at \notin {"idle", "next"}
  /\ faults < MaxFaults
  /\ faults' = faults + 1
  /\ CASE k.at \in {"pick", "claim", "abort"} -> CycleEnds(c)
       [] k.at = "write" \/ (k.at \in {"mark", "count"} /\ ~Caught(k))
            -> ToMark(c, "failed")
       [] OTHER -> Goes(c, "abort")
  /\ UNCHANGED <<job, made, row, written, silent, late, refuses, draft>>

\* The server stops: the key stays until it expires.
Stops(c) ==
  /\ cycle[c].at # "idle"
  /\ faults < MaxFaults
  /\ faults' = faults + 1
  /\ cycle' = [cycle EXCEPT ![c] = Idle]
  /\ UNCHANGED <<job, made, row, written, silent, late, refuses, lock, draft>>

\* Five minutes pass on a job: nobody drains it, or who does stands still.
GoesSilent(j) ==
  /\ job[j].status = "processing" /\ j \notin silent
  /\ Stalls \/ \A c \in Cycles : cycle[c].job # j
  /\ silent' = silent \cup {j}
  /\ UNCHANGED <<job, made, row, written, late, refuses, lock, draft, cycle, faults>>

\* A day passes since it was made.
GoesLate(j) ==
  /\ job[j].status = "processing" /\ j \in silent \ late
  /\ late' = late \cup {j}
  /\ UNCHANGED <<job, made, row, written, silent, refuses, lock, draft, cycle, faults>>

\* A block, or a closed account.
Refuse(p) ==
  /\ Cardinality(refuses) < MaxRefusals
  /\ refuses' = refuses \cup {p}
  /\ UNCHANGED <<job, made, row, written, silent, late, lock, draft, cycle, faults>>

-----------------------------------------------------------------------------

SendInit ==
  /\ job = [j \in Jobs |-> NoJob]
  /\ made = 0
  /\ row = [j \in Jobs |-> [p \in Everyone |-> "none"]]
  /\ written = [j \in Jobs |-> [p \in Everyone |-> 0]]
  /\ silent = {} /\ late = {} /\ refuses = {}
  /\ lock = FALSE
  /\ draft = [o \in Organisers |-> NoDraft]
  /\ cycle = [c \in Cycles |-> Idle]
  /\ faults = 0

Works(c) ==
  Wake(c) \/ Pick(c) \/ Take(c) \/ ReadBatch(c) \/ Turn(c) \/ Write(c) \/ Mark(c)
  \/ Count(c) \/ Finish(c) \/ Abort(c)

SendNext ==
  \/ \E o \in Organisers : Plan(o) \/ Insert(o)
  \/ \E c \in Cycles : Works(c) \/ Throws(c) \/ Stops(c)
  \/ \E j \in Jobs : GoesSilent(j) \/ GoesLate(j)
  \/ \E p \in Everyone : Refuse(p)
  \/ LockExpires

SendSpec == SendInit /\ [][SendNext]_sendVars

\* The interval ticks for ever, statements return, time passes.
SendFairness ==
  /\ \A c \in Cycles : WF_sendVars(Works(c))
  /\ \A j \in Jobs : WF_sendVars(GoesSilent(j))
  /\ WF_sendVars(LockExpires)

FairSendSpec == SendSpec /\ SendFairness

-----------------------------------------------------------------------------
(* What it promises *)

\* Nobody gets the organiser's words of one send twice, however often the
\* servers that send it stop and others carry on (post-event-message.worker.ts).
NobodyWrittenTwice ==
  \A j \in Jobs, p \in Everyone : job[j].kind = "own" => written[j][p] <= 1

\* Every send ends: no stop of a server leaves the event's one active job behind.
EverySendEnds ==
  \A j \in Jobs : job[j].status = "pending" ~> job[j].status \in Ended

\* A job that completed left nobody waiting: each row says sent, skipped or failed.
CompletedMissedNobody ==
  \A j \in Jobs :
    job[j].status \in {"completed", "completed_with_errors"} => PendingOf(j) = {}

-----------------------------------------------------------------------------
(* What a comment says and the code does not keep: no run checks it *)

\* The template reaches a person once for an event, over all sends of it.
TemplateOnce ==
  \A p \in Everyone, i, j \in Jobs :
    job[i].kind = "template" /\ job[j].kind = "template" /\ i < j
      => row[i][p] # "sent" \/ row[j][p] # "sent"
=============================================================================
