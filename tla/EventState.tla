----------------------------- MODULE EventState -----------------------------
(***************************************************************************)
(* The state of one live event of the server and the helpers its handlers  *)
(* share: the in-memory ActiveSession, its row and its match rows in       *)
(* Postgres, the persisted copies, the holder of withSessionGuard and the  *)
(* callbacks queued behind it, and the tasks that run outside the guard.   *)
(*                                                                         *)
(* A guarded handler is a sequence of labels of task.pc, one per await     *)
(* whose order against the unguarded tasks matters.  Participants are      *)
(* abstracted to what the lifecycle reads of them: which match rows exist  *)
(* and their status.  A row is a slot of Rooms; a slot whose row is gone   *)
(* or 'cancelled' can hold a newly generated row.                          *)
(***************************************************************************)
EXTENDS Integers, Sequences

CONSTANTS
  MaxRound,       \* bound: rounds the host may start
  PlannedRounds,  \* sessions.config.numberOfRounds when the event is created
  Rooms,          \* match slots of a round
  Env,            \* the actors and the faults present in the instance
  MaxWaiting,     \* bound: callbacks queued on the guard
  MaxFaults,      \* bound: awaits that fail, rooms that cannot be created
  MaxRestarts     \* bound: process restarts

EnvKinds ==
  {"startRound", "startAfterLast", "preview", "reopen", "rematch", "cancel",
   "exclude", "end", "restEnd", "pause", "pauseAtExpiry", "restPause", "extend",
   "ratings", "skips", "leave", "noShow", "other", "roomFail", "throw", "crash"}

ASSUME RoundAssumption ==
  /\ MaxRound \in Nat \ {0}
  /\ PlannedRounds \in 1..MaxRound
ASSUME EnvAssumption == Env \subseteq EnvKinds
ASSUME BudgetAssumption == MaxWaiting \in Nat /\ MaxFaults \in Nat /\ MaxRestarts \in Nat

Rounds == 1..MaxRound

SessionStatus ==
  {"scheduled", "lobby_open", "round_active", "round_rating",
   "round_transition", "closing_lobby", "completed"}
LiveStatuses == SessionStatus \ {"scheduled", "completed"}
MatchStatus == {"none", "scheduled", "active", "completed", "cancelled", "no_show"}

\* The timer callbacks: endRatingWindow is armed twice, as the 90 s backstop
\* and as the 3 s grace after everyone rated.
Callbacks == {"transitionToRound", "endRound", "endRatingWindow", "completeSession"}
Timers == Callbacks \cup {"none", "cleared", "grace"}
QueuedKinds == Callbacks \cup {"autoEnd", "confirm"}

Labels ==
  QueuedKinds \cup
  {"idle", "other", "statusRead", "statusWrite", "goLive", "plan",
   "startRound", "createRooms", "activate", "flip", "roundSave", "roundArm",
   "rateFlip", "rateSave", "rateArm", "finalize", "closeSave",
   "claim", "wipe", "drop"}
Ops == {"none", "timer", "host", "start", "restStart", "closeThenStart",
        "startRound", "confirm"}
GenLabels == {"idle", "confirm", "reopenRead", "reopenWrite", "choose",
              "preview", "generate", "rematch", "replan"}

VARIABLES
  mem,      \* the ActiveSession; live: it is in the activeSessions map
  db,       \* the sessions row, and the number of recap mailings sent
  rows,     \* the matches rows: round -> slot -> status
  saved,    \* the persisted copies: Redis, sessions.active_state
  task,     \* the holder of withSessionGuard
  waiting,  \* what is queued on the guard, in order
  side,     \* tasks that do not hold the guard
  budget    \* failures and restarts spent

vars == <<mem, db, rows, saved, task, waiting, side, budget>>

Snapshots ==
  [status : SessionStatus, round : 0..MaxRound, total : Rounds, endsAt : BOOLEAN,
   paused : BOOLEAN, leftover : BOOLEAN, pending : 0..MaxRound]

Sessions ==
  [live : BOOLEAN, status : SessionStatus, round : 0..MaxRound, total : Rounds,
   timer : Timers, timerRound : 0..MaxRound, endsAt : BOOLEAN, paused : BOOLEAN,
   leftover : BOOLEAN, pending : 0..MaxRound, endRequested : BOOLEAN]
MatchRows == [Rounds -> [Rooms -> MatchStatus]]
Copies == [redis : SUBSET Snapshots, dbState : SUBSET Snapshots, flushDue : BOOLEAN]
Tasks ==
  [pc : Labels, op : Ops, arg : 0..MaxRound, batch : SUBSET Rooms, target : SessionStatus]
Queued == [kind : QueuedKinds, round : 0..MaxRound]
Sides ==
  [completer : {"idle", "claim", "wipe", "drop"}, gen : GenLabels,
   genRound : 0..MaxRound, check : 0..MaxRound,
   noShowDue : 0..MaxRound, nsRound : 0..MaxRound, nsSet : SUBSET Rooms]

SessionOK == mem \in Sessions
DbOK == db \in [status : SessionStatus, round : 0..MaxRound, total : Rounds, recaps : Nat]
RowsOK == rows \in MatchRows
SavedOK == saved \in Copies
TaskOK == task \in Tasks
WaitingOK == waiting \in Seq(Queued)
SideOK == side \in Sides
BudgetOK == budget \in [faults : 0..MaxFaults, restarts : 0..MaxRestarts]

\* Every variable has its type.
TypeOK ==
  /\ SessionOK /\ DbOK /\ RowsOK /\ SavedOK
  /\ TaskOK /\ WaitingOK /\ SideOK /\ BudgetOK

-----------------------------------------------------------------------------
(* Helpers *)

\* The operators whose names end in a slip (Unchecked, Forgotten, ...) are
\* mutated forms of the one after them, for the runs to tell apart.

\* SESSION_LEGAL_TRANSITIONS, the two columns the handlers ask for.
CanTransitionWithoutRating(from, to) ==
  to = "round_active" /\ from \in {"lobby_open", "round_transition"}
CanTransition(from, to) ==
  \/ to = "round_active" /\ from \in {"lobby_open", "round_transition"}
  \/ to = "round_rating" /\ from = "round_active"

NextRound(m) == IF m.status = "lobby_open" THEN 1 ELSE m.round + 1

Free == [pc |-> "idle", op |-> "none", arg |-> 0, batch |-> {}, target |-> "scheduled"]
Idle == task.pc = "idle"
At(label) == task.pc = label
Goto(label) == task' = [task EXCEPT !.pc = label]
Begin(label, op, r) == task' = [Free EXCEPT !.pc = label, !.op = op, !.arg = r]

\* updateSessionStatus is a procedure: its caller leaves the new status in
\* task.target and continues at AfterUpdate.
UpdateStatus(status) == task' = [task EXCEPT !.pc = "statusRead", !.target = status]
AfterUpdate(status) ==
  CASE status = "lobby_open"   -> "goLive"
    [] status = "round_active" -> "roundSave"
    [] status = "round_rating" -> "rateSave"
    [] OTHER                   -> "closeSave"

\* The end of a guarded handler.  The host's Start Round from the rating
\* window goes on; a confirmation also gives the generation lock back.
Released(s) == IF task.op = "confirm" THEN [s EXCEPT !.gen = "idle"] ELSE s
ReturnTask ==
  task' = IF task.op = "closeThenStart"
          THEN [task EXCEPT !.pc = "startRound", !.op = "startRound"] ELSE Free
Return == ReturnTask /\ side' = Released(side)

\* A guard-wrapped callback or a confirmation starts at once when the guard
\* is free and nothing waits for it.  The other requests of people wait on
\* the guard too, but they hold and read nothing before they get it, so they
\* need no place in the queue: one that runs while callbacks wait is one that
\* came before them.
OpOf(kind) == IF kind = "confirm" THEN "confirm" ELSE "timer"
Request(kind, r) ==
  \/ Idle /\ waiting = <<>> /\ Begin(kind, OpOf(kind), r) /\ UNCHANGED waiting
  \/ /\ ~(Idle /\ waiting = <<>>) /\ Len(waiting) < MaxWaiting
     /\ waiting' = Append(waiting, [kind |-> kind, round |-> r])
     /\ UNCHANGED task

\* persistSessionState serialises active_state at the call; the Redis entry
\* is serialised after that query (Flush).  Recorded when it can be read.
Snapshot(m) ==
  [status |-> m.status, round |-> m.round, total |-> m.total, endsAt |-> m.endsAt,
   paused |-> m.paused, leftover |-> m.leftover, pending |-> m.pending]
Persisted(m) ==
  IF "crash" \in Env THEN [saved EXCEPT !.dbState = {Snapshot(m)}, !.flushDue = TRUE] ELSE saved

Armed(m, kind, r) == [m EXCEPT !.timer = kind, !.timerRound = r, !.endsAt = TRUE]
ClearedForgotten(m) == m
Cleared(m) == [m EXCEPT !.timer = "none"]

\* startSegmentTimer with getTimerCallbackForState: the round is read when
\* the timer fires (0), but for the lobby, which names round 1.
ArmedByStatus(m) ==
  CASE m.status = "lobby_open"       -> Armed(m, "transitionToRound", 1)
    [] m.status = "round_active"     -> Armed(m, "endRound", 0)
    [] m.status = "round_rating"     -> Armed(m, "endRatingWindow", 0)
    [] m.status = "round_transition" -> Armed(m, "transitionToRound", 0)
    [] m.status = "closing_lobby"    -> Armed(m, "completeSession", 0)
    [] OTHER                         -> Armed(m, "none", 0)

\* Rows of round r and slots S set to status; a row replaced or deleted is
\* no longer one of the rows a handler loaded before.
SetRows(rs, r, S, status) ==
  [rs EXCEPT ![r] = [m \in Rooms |-> IF m \in S THEN status ELSE rs[r][m]]]
RowsIn(r, statuses) == {m \in Rooms : rows[r][m] \in statuses}
FreeSlots(r) == RowsIn(r, {"none", "cancelled"})
TaskLosing(r, S) == [task EXCEPT !.batch = IF task.arg = r THEN @ \ S ELSE @]
SideLosing(s, r, S) == [s EXCEPT !.nsSet = IF s.nsRound = r THEN @ \ S ELSE @]

\* repairFutureRounds from round r on, on the rows rs: scheduled rows are
\* deleted and each planned round is generated anew (the slots G).
Replanned(rs, r, G) ==
  [q \in Rounds |-> [m \in Rooms |->
     IF q < r \/ r > db.total \/ rs[q][m] \notin {"none", "cancelled", "scheduled"}
     THEN rs[q][m]
     ELSE IF q <= db.total /\ m \in G THEN "scheduled"
     ELSE IF rs[q][m] = "scheduled" THEN "none" ELSE rs[q][m]]]
=============================================================================
