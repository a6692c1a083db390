-------------------------- MODULE ProcessFailures --------------------------
(***************************************************************************)
(* What can go wrong under the handlers: an await of the guard's holder    *)
(* that throws, the write-behind of the Redis copy, a restart of the       *)
(* process with recoverActiveSessions, and the recovery of a join.         *)
(***************************************************************************)
EXTENDS EventState

\* A query or a LiveKit call throws: the handler's catch logs it and the
\* guard is released; completeSession's finally still runs.
Throw ==
  /\ "throw" \in Env /\ budget.faults < MaxFaults
  /\ task.pc \notin {"idle", "other", "drop"}
  /\ budget' = [budget EXCEPT !.faults = @ + 1]
  /\ IF At("wipe") THEN Goto("drop") /\ UNCHANGED side ELSE Return
  /\ UNCHANGED <<mem, db, rows, saved, waiting>>

\* persistToRedis: the state of now, some time after the persist was asked.
Flush ==
  /\ saved.flushDue
  /\ saved' = [saved EXCEPT !.redis = {Snapshot(mem)}, !.flushDue = FALSE]
  /\ UNCHANGED <<mem, db, rows, task, waiting, side, budget>>

NoSide == [completer |-> "idle", gen |-> "idle", genRound |-> 0, check |-> 0,
           noShowDue |-> 0, nsRound |-> 0, nsSet |-> {}]

\* The process dies: every task and timer with it.
Die ==
  /\ "crash" \in Env /\ budget.restarts < MaxRestarts
  /\ budget' = [budget EXCEPT !.restarts = @ + 1]
  /\ task' = Free /\ waiting' = <<>> /\ side' = NoSide
  /\ saved' = [saved EXCEPT !.flushDue = FALSE]
  /\ UNCHANGED <<db, rows>>

Recovered(s) ==
  [live |-> TRUE, status |-> s.status, round |-> s.round, total |-> s.total,
   timer |-> "none", timerRound |-> 0, endsAt |-> s.endsAt, paused |-> s.paused,
   leftover |-> s.leftover, pending |-> s.pending, endRequested |-> FALSE]

\* The timer is armed again when timerEndsAt is set and still ahead; only
\* the Redis path looks at the pause.
Rearmed(m, looksAtPause) ==
  {m} \cup IF m.endsAt /\ ~(looksAtPause /\ m.paused) THEN {ArmedByStatus(m)} ELSE {}

RestartFromRedis ==
  /\ \E s \in saved.redis : mem' \in Rearmed(Recovered(s), TRUE)
  /\ Die

\* Redis gave nothing: the rows still live with an active_state.
RestartFromDb ==
  /\ db.status \in LiveStatuses
  /\ \E s \in saved.dbState :
       mem' \in Rearmed(Recovered([s EXCEPT !.status = db.status, !.total = db.total,
                                            !.round = IF @ # 0 THEN @ ELSE db.round,
                                            !.pending = 0]), FALSE)
  /\ Die

\* Neither path restores this event.
RestartWithout ==
  /\ mem' = [mem EXCEPT !.live = FALSE, !.timer = "none", !.timerRound = 0]
  /\ Die

\* handleJoinSession rebuilds a missing ActiveSession from the row.  Bound:
\* only when no task still holds the object that left the map.
JoinRecover ==
  /\ ~mem.live /\ mem.timer = "none" /\ db.status \in LiveStatuses
  /\ Idle /\ waiting = <<>> /\ side = NoSide
  /\ mem' = Recovered([status |-> db.status, round |-> db.round, total |-> db.total,
                       endsAt |-> FALSE, paused |-> FALSE, leftover |-> FALSE,
                       pending |-> 0])
  /\ UNCHANGED <<db, rows, saved, task, waiting, side, budget>>
=============================================================================
