--------------------------- MODULE RoundLifecycle ---------------------------
(***************************************************************************)
(* The handlers that hold withSessionGuard, from Go Live to the recap, the *)
(* segment timer that calls four of them, and the three unguarded tasks    *)
(* that touch the same state: completeSession called from REST or by the   *)
(* reaper, the all-rated check of a skip, and the no-show detection.       *)
(***************************************************************************)
EXTENDS EventState

-----------------------------------------------------------------------------
(* Go Live *)

\* handleHostStart and the REST startSession, up to the read of
\* updateSessionStatus.
HostStart ==
  /\ Idle /\ db.status = "scheduled"
  /\ \E op \in {"start", "restStart"} :
       task' = [Free EXCEPT !.pc = "statusRead", !.op = op, !.target = "lobby_open"]
  /\ UNCHANGED <<mem, db, rows, saved, waiting, side, budget>>

\* The SELECT of updateSessionStatus: a completed event is left alone.
StatusReadUnchecked ==
  /\ At("statusRead")
  /\ Goto("statusWrite")
  /\ UNCHANGED <<mem, db, rows, saved, waiting, side, budget>>
StatusRead ==
  /\ At("statusRead")
  /\ Goto(IF db.status = "completed" THEN AfterUpdate(task.target) ELSE "statusWrite")
  /\ UNCHANGED <<mem, db, rows, saved, waiting, side, budget>>

\* Its UPDATE, which no longer looks at the row.
StatusWrite ==
  /\ At("statusWrite")
  /\ db' = [db EXCEPT !.status = task.target]
  /\ Goto(AfterUpdate(task.target))
  /\ UNCHANGED <<mem, rows, saved, waiting, side, budget>>

\* The new ActiveSession; only the socket start persists it and plans.
NewSession ==
  [live |-> TRUE, status |-> "lobby_open", round |-> 0, total |-> db.total,
   timer |-> "none", timerRound |-> 0, endsAt |-> FALSE, paused |-> FALSE,
   leftover |-> FALSE, pending |-> 0, endRequested |-> FALSE]
GoLive ==
  /\ At("goLive")
  /\ mem' = NewSession
  /\ \/ task.op = "start" /\ saved' = Persisted(NewSession) /\ Goto("plan") /\ UNCHANGED side
     \/ task.op = "restStart" /\ Return /\ UNCHANGED saved
  /\ UNCHANGED <<db, rows, waiting, budget>>

\* generateSessionSchedule; it may fail or find no pairs (G = {}).
Plan ==
  /\ At("plan")
  /\ \E G \in SUBSET Rooms : rows' = Replanned(rows, 1, G)
  /\ Return
  /\ UNCHANGED <<mem, db, saved, waiting, budget>>

-----------------------------------------------------------------------------
(* Starting a round *)

\* handleHostStartRound; startAfterLast is the host who presses it when the
\* planned rounds are over.  Bound: MaxRound rounds.
AfterLast ==
  \/ mem.status = "closing_lobby"
  \/ mem.status = "round_rating" /\ mem.round >= mem.total
HostStartRound ==
  /\ "startRound" \in Env /\ (AfterLast => "startAfterLast" \in Env)
  /\ Idle /\ mem.live /\ mem.round < MaxRound
  /\ \/ mem.status = "round_rating" /\ Begin("endRatingWindow", "closeThenStart", mem.round)
     \/ /\ mem.status \in {"lobby_open", "round_transition", "closing_lobby"}
        /\ Begin("startRound", "startRound", 0)
  /\ UNCHANGED <<mem, db, rows, saved, waiting, side, budget>>

\* Its second half refuses a status it cannot start from, or too few people.
StartRoundRefused ==
  /\ At("startRound")
  /\ Return
  /\ UNCHANGED <<mem, db, rows, saved, waiting, budget>>

StartRound ==
  /\ At("startRound")
  /\ mem.status \in {"lobby_open", "round_transition", "closing_lobby"}
  /\ mem.round < MaxRound
  /\ LET next == NextRound(mem) IN
       /\ mem' = [Cleared(mem) EXCEPT !.total = IF next > @ THEN next ELSE @]
       /\ task' = [task EXCEPT !.pc = "transitionToRound", !.arg = next]
  /\ UNCHANGED <<db, rows, saved, waiting, side, budget>>

\* handleHostConfirmRound: the generation lock, then a place in the guard's
\* queue; under both, the pending round is started, if there is one.
HostConfirmRoundUnlocked ==
  /\ "preview" \in Env
  /\ side' = [side EXCEPT !.gen = "confirm"]
  /\ Request("confirm", 0)
  /\ UNCHANGED <<mem, db, rows, saved, budget>>
HostConfirmRound ==
  /\ "preview" \in Env /\ side.gen = "idle"
  /\ side' = [side EXCEPT !.gen = "confirm"]
  /\ Request("confirm", 0)
  /\ UNCHANGED <<mem, db, rows, saved, budget>>

ConfirmRound ==
  /\ At("confirm")
  /\ LET pending == mem.live /\ mem.pending # 0 IN
     \/ ~pending /\ Return /\ UNCHANGED mem
     \/ /\ pending
        /\ mem' = Cleared(mem)
        /\ task' = [task EXCEPT !.pc = "transitionToRound", !.arg = mem.pending]
        /\ UNCHANGED side
  /\ UNCHANGED <<db, rows, saved, waiting, budget>>

\* A confirmation that counts as started drops the preview and persists.
Confirmed(m) == [m EXCEPT !.pending = 0]

\* transitionToRound refused by the session FSM; "started" all the same
\* when this very round is the active one.
RoundRefused ==
  /\ At("transitionToRound")
  /\ ~(mem.live /\ CanTransition(mem.status, "round_active"))
  /\ IF task.op = "confirm" /\ mem.live /\ mem.status = "round_active" /\ mem.round = task.arg
     THEN mem' = Confirmed(mem) /\ saved' = Persisted(Confirmed(mem))
     ELSE UNCHANGED <<mem, saved>>
  /\ Return
  /\ UNCHANGED <<db, rows, waiting, budget>>

\* The startable rows, or rows generated on the fly; none aborts the start.
LoadRound ==
  /\ At("transitionToRound")
  /\ mem.live /\ CanTransition(mem.status, "round_active")
  /\ LET startable == RowsIn(task.arg, {"scheduled", "active"}) IN
     \/ /\ startable # {}
        /\ task' = [task EXCEPT !.pc = "createRooms", !.batch = startable]
        /\ UNCHANGED <<rows, side>>
     \/ /\ startable = {}
        /\ \E G \in SUBSET FreeSlots(task.arg) :
             /\ rows' = SetRows(rows, task.arg, G, "scheduled")
             /\ \/ G = {} /\ Return
                \/ /\ G # {}
                   /\ task' = [task EXCEPT !.pc = "createRooms", !.batch = G]
                   /\ UNCHANGED side
  /\ UNCHANGED <<mem, db, saved, waiting, budget>>

\* createRoomWithRetry for every row; the rows F whose room cannot be
\* created are cancelled, and the start is aborted when all of them are.
CreateRoomsNeverAborts ==
  /\ At("createRooms")
  /\ \E F \in SUBSET task.batch :
       /\ F # {} => "roomFail" \in Env /\ budget.faults < MaxFaults
       /\ rows' = SetRows(rows, task.arg, F, "cancelled")
       /\ task' = [task EXCEPT !.pc = "activate", !.batch = @ \ F]
       /\ budget' = [budget EXCEPT !.faults = IF F = {} THEN @ ELSE @ + 1]
  /\ UNCHANGED <<mem, db, saved, waiting, side>>
CreateRooms ==
  /\ At("createRooms")
  /\ \E F \in SUBSET task.batch :
       /\ F # {} => "roomFail" \in Env /\ budget.faults < MaxFaults
       /\ rows' = SetRows(rows, task.arg, F, "cancelled")
       /\ budget' = [budget EXCEPT !.faults = IF F = {} THEN @ ELSE @ + 1]
       /\ IF F # {} /\ F = task.batch THEN Return ELSE Goto("activate") /\ UNCHANGED side
  /\ UNCHANGED <<mem, db, saved, waiting>>

\* Step 3: every loaded row that still exists becomes active.
Activate ==
  /\ At("activate")
  /\ rows' = SetRows(rows, task.arg, task.batch, "active")
  /\ Goto("flip")
  /\ UNCHANGED <<mem, db, saved, waiting, side, budget>>

\* The bonus-round bump, and the flip that rides with it.
Flip ==
  /\ At("flip")
  /\ mem' = [mem EXCEPT !.status = "round_active", !.round = task.arg,
                        !.total = IF task.arg > @ THEN task.arg ELSE @]
  /\ db' = [db EXCEPT !.total = IF task.arg > mem.total THEN task.arg ELSE @]
  /\ UpdateStatus("round_active")
  /\ UNCHANGED <<rows, saved, waiting, side, budget>>

\* current_round is written and the state persisted before the timer is armed.
RoundSaveWithoutRound ==
  /\ At("roundSave")
  /\ saved' = Persisted(mem)
  /\ Goto("roundArm")
  /\ UNCHANGED <<mem, db, rows, waiting, side, budget>>
RoundSave ==
  /\ At("roundSave")
  /\ db' = [db EXCEPT !.round = task.arg]
  /\ saved' = Persisted(mem)
  /\ Goto("roundArm")
  /\ UNCHANGED <<mem, rows, waiting, side, budget>>

\* The round timer, the no-show detection (bound: the latest one is kept),
\* and the return to a confirmation.
RoundArm ==
  /\ At("roundArm")
  /\ LET armed == IF mem.live THEN Armed(mem, "endRound", task.arg) ELSE mem IN
     IF task.op = "confirm"
     THEN mem' = Confirmed(armed) /\ saved' = Persisted(Confirmed(armed))
     ELSE mem' = armed /\ UNCHANGED saved
  /\ side' = Released([side EXCEPT !.noShowDue = IF "noShow" \in Env THEN task.arg ELSE 0])
  /\ ReturnTask
  /\ UNCHANGED <<db, rows, waiting, budget>>

-----------------------------------------------------------------------------
(* Ending a round *)

\* endRound: the status is checked, the round it was called for is not.
EndRoundLeavesMatches ==
  /\ At("endRound")
  /\ \/ /\ ~(mem.live /\ CanTransition(mem.status, "round_rating"))
        /\ Return
     \/ /\ mem.live /\ CanTransition(mem.status, "round_rating")
        /\ Goto("rateFlip") /\ UNCHANGED side
  /\ UNCHANGED <<mem, db, rows, saved, waiting, budget>>
EndRound ==
  /\ At("endRound")
  /\ \/ /\ ~(mem.live /\ CanTransition(mem.status, "round_rating"))
        /\ Return /\ UNCHANGED rows
     \/ /\ mem.live /\ CanTransition(mem.status, "round_rating")
        /\ rows' = SetRows(rows, task.arg, RowsIn(task.arg, {"active"}), "completed")
        /\ Goto("rateFlip") /\ UNCHANGED side
  /\ UNCHANGED <<mem, db, saved, waiting, budget>>

\* The check repeated after the awaits, and the flip.
RateFlip ==
  /\ At("rateFlip")
  /\ \/ /\ ~CanTransition(mem.status, "round_rating")
        /\ Return /\ UNCHANGED mem
     \/ /\ CanTransition(mem.status, "round_rating")
        /\ mem' = [mem EXCEPT !.status = "round_rating"]
        /\ UpdateStatus("round_rating") /\ UNCHANGED side
  /\ UNCHANGED <<db, rows, saved, waiting, budget>>

RateSave ==
  /\ At("rateSave")
  /\ saved' = Persisted(mem)
  /\ Goto("rateArm")
  /\ UNCHANGED <<mem, db, rows, waiting, side, budget>>

\* The 90 s backstop is armed last, and never persisted.
RateArmNextRound ==
  /\ At("rateArm")
  /\ mem' = Armed(mem, "endRatingWindow", task.arg + 1)
  /\ Return
  /\ UNCHANGED <<db, rows, saved, waiting, budget>>
RateArmForgotten ==
  /\ At("rateArm")
  /\ Return
  /\ UNCHANGED <<mem, db, rows, saved, waiting, budget>>
RateArm ==
  /\ At("rateArm")
  /\ mem' = Armed(mem, "endRatingWindow", task.arg)
  /\ Return
  /\ UNCHANGED <<db, rows, saved, waiting, budget>>

\* endRatingWindow: status and round are checked, then the timers cleared.
EndRatingWindow ==
  /\ At("endRatingWindow")
  /\ LET current == mem.live /\ mem.status = "round_rating" /\ mem.round = task.arg IN
     \/ ~current /\ Return /\ UNCHANGED mem
     \/ current /\ mem' = Cleared(mem) /\ Goto("finalize") /\ UNCHANGED side
  /\ UNCHANGED <<db, rows, saved, waiting, budget>>

\* After finalizeRoundRatings: complete the event, or go to the next phase.
NextPhaseOneMore(m, r) == IF r <= m.total THEN "round_transition" ELSE "closing_lobby"
NextPhase(m, r) == IF r < m.total THEN "round_transition" ELSE "closing_lobby"
CloseDecide ==
  /\ At("finalize")
  /\ \/ mem.endRequested /\ Goto("completeSession") /\ UNCHANGED <<mem, side>>
     \/ /\ ~mem.endRequested /\ mem.status # "round_rating"
        /\ Return /\ UNCHANGED mem
     \/ /\ ~mem.endRequested /\ mem.status = "round_rating"
        /\ LET next == NextPhase(mem, task.arg) IN
             mem' = [mem EXCEPT !.status = next] /\ UpdateStatus(next)
        /\ UNCHANGED side
  /\ UNCHANGED <<db, rows, saved, waiting, budget>>

\* Persisted, then the closing lobby's 10 min timer; the transition has none.
WithPhaseTimerForgotten(m, phase) == m
WithPhaseTimer(m, phase) ==
  IF phase = "closing_lobby" /\ m.live THEN Armed(m, "completeSession", 0) ELSE m
CloseSave ==
  /\ At("closeSave")
  /\ saved' = Persisted(mem)
  /\ mem' = WithPhaseTimer(mem, task.target)
  /\ Return
  /\ UNCHANGED <<db, rows, waiting, budget>>

-----------------------------------------------------------------------------
(* completeSession, called under the guard or outside it (side.completer) *)

AlreadyCompleted == mem.live /\ mem.status = "completed"
MemCompleting == [mem EXCEPT !.status = IF mem.live THEN "completed" ELSE @]
ClaimLostNever == FALSE
ClaimLost == db.status = "completed"
MemClaimed == [mem EXCEPT !.live = IF ClaimLost THEN FALSE ELSE @,
                          !.timer = IF ClaimLost \/ ~mem.live THEN @ ELSE "none"]
DbClaimed == [db EXCEPT !.status = "completed"]
DbWiped == [db EXCEPT !.status = "completed", !.recaps = @ + 1]
RowsWiped == [r \in Rounds |-> [m \in Rooms |->
  IF rows[r][m] = "active" THEN "completed" ELSE rows[r][m]]]
MemDropped == [mem EXCEPT !.live = FALSE]
SavedDropped == [saved EXCEPT !.redis = {}, !.dbState = {}]

CompleteSession ==
  /\ At("completeSession")
  /\ \/ AlreadyCompleted /\ Return /\ UNCHANGED mem
     \/ ~AlreadyCompleted /\ mem' = MemCompleting /\ Goto("claim") /\ UNCHANGED side
  /\ UNCHANGED <<db, rows, saved, waiting, budget>>

Claim ==
  /\ At("claim")
  /\ mem' = MemClaimed /\ db' = DbClaimed
  /\ IF ClaimLost THEN Return ELSE Goto("wipe") /\ UNCHANGED side
  /\ UNCHANGED <<rows, saved, waiting, budget>>

Wipe ==
  /\ At("wipe")
  /\ db' = DbWiped /\ rows' = RowsWiped
  /\ Goto("drop")
  /\ UNCHANGED <<mem, saved, waiting, side, budget>>

Drop ==
  /\ At("drop")
  /\ mem' = MemDropped /\ saved' = SavedDropped
  /\ Return
  /\ UNCHANGED <<db, rows, waiting, budget>>

\* The REST endSession and the abandoned-event reaper: no guard.
RestEnd ==
  /\ "restEnd" \in Env
  /\ side.completer = "idle" /\ ~AlreadyCompleted
  /\ mem' = MemCompleting
  /\ side' = [side EXCEPT !.completer = "claim"]
  /\ UNCHANGED <<db, rows, saved, task, waiting, budget>>

RestClaim ==
  /\ side.completer = "claim"
  /\ mem' = MemClaimed /\ db' = DbClaimed
  /\ side' = [side EXCEPT !.completer = IF ClaimLost THEN "idle" ELSE "wipe"]
  /\ UNCHANGED <<rows, saved, task, waiting, budget>>

RestWipe ==
  /\ side.completer = "wipe"
  /\ db' = DbWiped /\ rows' = RowsWiped
  /\ side' = [side EXCEPT !.completer = "drop"]
  /\ UNCHANGED <<mem, saved, task, waiting, budget>>

RestDrop ==
  /\ side.completer = "drop"
  /\ mem' = MemDropped /\ saved' = SavedDropped
  /\ side' = [side EXCEPT !.completer = "idle"]
  /\ UNCHANGED <<db, rows, task, waiting, budget>>

-----------------------------------------------------------------------------
(* Timers and the queue of guard-wrapped callbacks *)

Due == mem.timer \in Callbacks \cup {"grace"}
FiredKind == IF mem.timer = "grace" THEN "endRatingWindow" ELSE mem.timer
FiredRound ==
  CASE mem.timerRound # 0              -> mem.timerRound
    [] mem.timer = "transitionToRound" -> mem.round + 1
    [] OTHER                           -> mem.round

\* The timeout fires; the 3 s grace leaves timerEndsAt alone.  Bound: the
\* round it names is at most MaxRound.
TimerFire ==
  /\ Due /\ FiredRound \in 0..MaxRound
  /\ mem' = [mem EXCEPT !.timer = "none", !.timerRound = 0,
                        !.endsAt = IF mem.timer = "grace" THEN @ ELSE FALSE]
  /\ Request(FiredKind, FiredRound)
  /\ UNCHANGED <<db, rows, saved, side, budget>>

\* The guard is handed to the one that has waited longest.
DispatchLastFirst ==
  /\ Idle /\ waiting # <<>>
  /\ LET w == waiting[Len(waiting)] IN Begin(w.kind, OpOf(w.kind), w.round)
  /\ waiting' = SubSeq(waiting, 1, Len(waiting) - 1)
  /\ UNCHANGED <<mem, db, rows, saved, side, budget>>
Dispatch ==
  /\ Idle /\ waiting # <<>>
  /\ LET w == Head(waiting) IN Begin(w.kind, OpOf(w.kind), w.round)
  /\ waiting' = Tail(waiting)
  /\ UNCHANGED <<mem, db, rows, saved, side, budget>>

\* maybeAutoEndEmptyRound, inside its guard.
AutoEnd ==
  /\ At("autoEnd")
  /\ IF /\ mem.live /\ mem.status = "round_active" /\ mem.round # 0
        /\ RowsIn(mem.round, {"active"}) = {}
     THEN Begin("endRound", "timer", mem.round) /\ UNCHANGED side
     ELSE Return
  /\ UNCHANGED <<mem, db, rows, saved, waiting, budget>>

-----------------------------------------------------------------------------
(* Guarded requests of the host and of participants *)

\* handleHostEnd (event: the End Event button).  Ending an active round
\* cancels its timeout without forgetting the handle.
HostEnd ==
  /\ "end" \in Env /\ Idle
  /\ \E event \in BOOLEAN :
     \/ /\ mem.live /\ mem.status = "round_active"
        /\ mem' = [mem EXCEPT !.timer = IF @ = "none" THEN @ ELSE "cleared",
                              !.endRequested = @ \/ event]
        /\ Begin("endRound", "host", mem.round)
     \/ /\ mem.live /\ mem.status = "round_rating"
        /\ mem' = [mem EXCEPT !.endRequested = @ \/ event]
        /\ Begin("endRatingWindow", "host", mem.round)
     \/ /\ event
        /\ ~(mem.live /\ mem.status \in {"round_active", "round_rating"})
        /\ mem' = [mem EXCEPT !.timer =
             IF mem.live /\ mem.status = "closing_lobby" THEN "none" ELSE @]
        /\ Begin("completeSession", "host", 0)
  /\ UNCHANGED <<db, rows, saved, waiting, side, budget>>

\* handleHostForceCloseRating.
HostForceCloseRating ==
  /\ "end" \in Env
  /\ Idle /\ mem.live /\ mem.status = "round_rating"
  /\ Begin("endRatingWindow", "host", mem.round)
  /\ UNCHANGED <<mem, db, rows, saved, waiting, side, budget>>

\* handleHostPause and the REST pauseSession, which needs no guard, keeps
\* timerEndsAt and does not persist.  A timer already due leaves 0 ms.
Pausable == mem.timer # "none" /\ mem.endsAt
PausedSession(rest) ==
  {[mem EXCEPT !.paused = TRUE,
               !.timer = IF Pausable THEN "none" ELSE @,
               !.leftover = IF Pausable THEN left ELSE @,
               !.endsAt = IF Pausable /\ ~rest THEN FALSE ELSE @] :
     left \in {TRUE, "pauseAtExpiry" \notin Env}}
HostPause ==
  /\ "pause" \in Env
  /\ Idle /\ mem.live /\ ~mem.paused
  /\ mem' \in PausedSession(FALSE)
  /\ saved' = Persisted(mem')
  /\ UNCHANGED <<db, rows, task, waiting, side, budget>>
RestPause ==
  /\ "restPause" \in Env
  /\ mem.live /\ ~mem.paused
  /\ mem' \in PausedSession(TRUE)
  /\ UNCHANGED <<db, rows, saved, task, waiting, side, budget>>

\* handleHostResume and the REST resumeSession: time left means a timer
\* chosen by the status of now.
ResumedSessionUnarmed == [mem EXCEPT !.paused = FALSE, !.leftover = FALSE]
ResumedSession ==
  IF mem.leftover THEN ArmedByStatus([mem EXCEPT !.paused = FALSE, !.leftover = FALSE])
                  ELSE [mem EXCEPT !.paused = FALSE]
HostResume ==
  /\ "pause" \in Env
  /\ Idle /\ mem.live /\ mem.paused
  /\ mem' = ResumedSession
  /\ saved' = Persisted(ResumedSession)
  /\ UNCHANGED <<db, rows, task, waiting, side, budget>>
RestResume ==
  /\ "restPause" \in Env
  /\ mem.live /\ mem.paused
  /\ mem' = ResumedSession
  /\ UNCHANGED <<db, rows, saved, task, waiting, side, budget>>

\* handleHostExtendRound.
HostExtendRound ==
  /\ "extend" \in Env
  /\ Idle /\ mem.live /\ mem.endsAt /\ mem.status = "round_active"
  /\ mem' = Armed(mem, "endRound", 0)
  /\ saved' = Persisted(mem')
  /\ UNCHANGED <<db, rows, task, waiting, side, budget>>

\* A conversation ends early (leave, kick, removal, 15 s disconnected): its
\* row is completed, or cancelled when it hardly began, and the empty-round
\* check queues behind the guard.
LeaveConversation ==
  /\ "leave" \in Env
  /\ Idle /\ mem.live /\ mem.status # "completed" /\ Len(waiting) < MaxWaiting
  /\ \E r \in Rounds, m \in Rooms, ended \in {"completed", "cancelled"} :
       /\ rows[r][m] = "active"
       /\ rows' = SetRows(rows, r, {m}, ended)
  /\ waiting' = Append(waiting, [kind |-> "autoEnd", round |-> 0])
  /\ UNCHANGED <<mem, db, saved, task, side, budget>>

\* A join, a heartbeat or any other handler that holds the guard a while.
OtherHold ==
  /\ "other" \in Env /\ Idle
  /\ Begin("other", "host", 0)
  /\ UNCHANGED <<mem, db, rows, saved, waiting, side, budget>>
OtherDone ==
  /\ At("other")
  /\ Return
  /\ UNCHANGED <<mem, db, rows, saved, waiting, budget>>

\* checkAllRatingsCompleteByUserId: whatever timer is armed gives way to
\* the 3 s grace for round r.
InGrace(r) ==
  [mem EXCEPT !.timer = "grace", !.timerRound = r,
              !.endsAt = IF mem.timer = "none" THEN @ ELSE FALSE]
SomethingToRate == mem.round # 0 /\ RowsIn(mem.round, {"completed"}) # {}

\* Called by handleRatingSubmit, under the guard.
RatingsComplete ==
  /\ "ratings" \in Env
  /\ Idle /\ mem.live /\ mem.status = "round_rating" /\ SomethingToRate
  /\ mem' = InGrace(mem.round)
  /\ UNCHANGED <<db, rows, saved, task, waiting, side, budget>>

\* Called by a skip or by the REST rating route, outside it: the status and
\* the round are read, and the timer replaced some awaits later.
SkipCheck ==
  /\ "skips" \in Env
  /\ side.check = 0 /\ mem.live /\ mem.status = "round_rating" /\ SomethingToRate
  /\ side' = [side EXCEPT !.check = mem.round]
  /\ UNCHANGED <<mem, db, rows, saved, task, waiting, budget>>
SkipGrace ==
  /\ side.check # 0
  /\ mem' = InGrace(side.check)
  /\ side' = [side EXCEPT !.check = 0]
  /\ UNCHANGED <<db, rows, saved, task, waiting, budget>>

-----------------------------------------------------------------------------
(* detectNoShows: a bare setTimeout, no guard *)

\* The status is checked once; the rows of the absent are then marked one
\* await at a time, whatever they have become.
NoShowScan ==
  /\ side.noShowDue # 0 /\ side.nsRound = 0
  /\ \E S \in SUBSET RowsIn(side.noShowDue, {"active"}) :
       side' = IF mem.live /\ mem.status = "round_active" /\ S # {}
               THEN [side EXCEPT !.noShowDue = 0, !.nsRound = side.noShowDue, !.nsSet = S]
               ELSE [side EXCEPT !.noShowDue = 0]
  /\ UNCHANGED <<mem, db, rows, saved, task, waiting, budget>>
NoShowMark ==
  /\ side.nsRound # 0
  /\ \E m \in side.nsSet :
       /\ rows' = SetRows(rows, side.nsRound, {m}, "no_show")
       /\ side' = [side EXCEPT !.nsSet = @ \ {m}]
  /\ UNCHANGED <<mem, db, saved, task, waiting, budget>>
NoShowDone ==
  /\ side.nsRound # 0 /\ side.nsSet = {}
  /\ side' = [side EXCEPT !.nsRound = 0]
  /\ Request("autoEnd", 0)
  /\ UNCHANGED <<mem, db, rows, saved, budget>>
=============================================================================
