----------------------------- MODULE LiveEvent -----------------------------
(***************************************************************************)
(* The whole event: the guarded lifecycle, the preview and the failures    *)
(* composed over one state, the properties they must keep together, and    *)
(* the abstract event they implement.  Env says who is present.            *)
(***************************************************************************)
EXTENDS RoundLifecycle, MatchPreview, ProcessFailures

\* Before Go Live nothing is in memory and no match row exists.
Init ==
  /\ mem = [live |-> FALSE, status |-> "scheduled", round |-> 0, total |-> PlannedRounds,
            timer |-> "none", timerRound |-> 0, endsAt |-> FALSE, paused |-> FALSE,
            leftover |-> FALSE, pending |-> 0, endRequested |-> FALSE]
  /\ db = [status |-> "scheduled", round |-> 0, total |-> PlannedRounds, recaps |-> 0]
  /\ rows = [r \in Rounds |-> [m \in Rooms |-> "none"]]
  /\ saved = [redis |-> {}, dbState |-> {}, flushDue |-> FALSE]
  /\ task = Free
  /\ waiting = <<>>
  /\ side = NoSide
  /\ budget = [faults |-> 0, restarts |-> 0]

\* The steps of a handler that holds the guard.
GuardStep ==
  \/ StatusRead \/ StatusWrite \/ GoLive \/ Plan
  \/ StartRoundRefused \/ StartRound \/ ConfirmRound \/ RoundRefused \/ LoadRound
  \/ CreateRooms \/ Activate \/ Flip \/ RoundSave \/ RoundArm
  \/ EndRound \/ RateFlip \/ RateSave \/ RateArm
  \/ EndRatingWindow \/ CloseDecide \/ CloseSave
  \/ CompleteSession \/ Claim \/ Wipe \/ Drop \/ AutoEnd \/ OtherDone

\* The requests that take the guard.
GuardedRequest ==
  \/ HostStart \/ HostStartRound \/ HostConfirmRound \/ HostEnd
  \/ HostForceCloseRating \/ HostPause \/ HostResume \/ HostExtendRound
  \/ LeaveConversation \/ OtherHold \/ RatingsComplete

\* The tasks beside the guard.
Unguarded ==
  \/ RestEnd \/ RestClaim \/ RestWipe \/ RestDrop \/ RestPause \/ RestResume
  \/ SkipCheck \/ SkipGrace \/ NoShowScan \/ NoShowMark \/ NoShowDone
PreviewStep ==
  \/ HostGenerateMatches \/ ReopenRead \/ ReopenWrite \/ ChooseRound
  \/ SurfacePlan \/ DeletePlan \/ GeneratePlan \/ Replan
  \/ HostRegenerateMatches \/ RegenerateRound
  \/ HostCancelPreview \/ HostSwapMatch \/ HostExcludeFromRound
Failure ==
  \/ Throw \/ Flush \/ RestartFromRedis \/ RestartFromDb \/ RestartWithout
  \/ JoinRecover

Next ==
  \/ GuardStep \/ TimerFire \/ Dispatch
  \/ GuardedRequest \/ Unguarded \/ PreviewStep \/ Failure

Spec == Init /\ [][Next]_vars

\* The event loop runs every promise that is ready and every timeout that
\* is due, and the guard's queue is served in order.  No request of a
\* person is ever assumed.
Fairness ==
  /\ WF_vars(GuardStep)
  /\ WF_vars(TimerFire)
  /\ SF_vars(Dispatch)
FairSpec == Spec /\ Fairness

-----------------------------------------------------------------------------
(* Safety *)

Settled == Idle /\ waiting = <<>> /\ side.completer = "idle"

\* The recap of an event goes out at most once: of all the callers of
\* completeSession exactly one takes the row (round-lifecycle.ts, the claim).
OneRecap == db.recaps <= 1

\* "A completed/cancelled session never transitions again": no status write
\* that was under way when the event was completed lands on top of it.
TerminalIsFinal == [][db.status = "completed" => db'.status = "completed"]_vars

\* Where completeSession and updateSessionStatus run under the guard only,
\* what makes both hold: the status writer has seen the row of now, and the
\* recap belongs to the caller that took the row.
GuardsCompletion == "restEnd" \notin Env /\ "reopen" \notin Env
CompletionInv ==
  /\ side.completer = "idle" /\ side.gen \notin {"reopenRead", "reopenWrite"}
  /\ At("statusWrite") => db.status # "completed"
  /\ db.status # "completed" => db.recaps = 0
  /\ At("wipe") => db.recaps = 0
  /\ db.recaps <= 1

\* LCY-4: a round that is active has a conversation going on, or the check
\* that ends an empty round is on its way to run under the guard.
ActiveRoundHasRoom ==
  mem.live /\ mem.status = "round_active" =>
    \/ RowsIn(mem.round, {"active"}) # {}
    \/ task.pc \in {"autoEnd", "endRound", "rateFlip"}
    \/ side.nsRound # 0
    \/ \E i \in DOMAIN waiting : waiting[i].kind \in {"autoEnd", "endRound"}

\* A settled phase has the timer that ends it and no other: the round, the
\* rating window and the closing lobby end by themselves (or are paused with
\* their time left kept); the lobby and the transition wait for the host.
TimersOf(status) ==
  CASE status = "round_active"  -> {"endRound"}
    [] status = "round_rating"  -> {"endRatingWindow", "grace"}
    [] status = "closing_lobby" -> {"completeSession"}
    [] OTHER                    -> {"none"}
PhaseTimers ==
  mem.live /\ Settled =>
    \/ mem.timer \in TimersOf(mem.status)
    \/ mem.paused /\ mem.leftover /\ mem.timer = "none"

\* Whatever pauses, resumes, extends or follows a round, a settled round is
\* running on its own timer or paused with its time left kept.
RoundKeepsItsTime ==
  mem.live /\ Settled /\ mem.status = "round_active" =>
    mem.timer = "endRound" \/ (mem.paused /\ mem.leftover)

\* No conversation outlives its round: once things settle, a row is active
\* only in the round being played, and in none when the event is over.
NoStrayConversation ==
  Settled => \A r \in Rounds, m \in Rooms : rows[r][m] = "active" =>
    mem.live /\ mem.status = "round_active" /\ mem.round = r

\* A settled event is in the same phase and the same round in memory and in
\* its row, so that a restart or a join rebuilds what the room sees.
MemoryAgreesWithDb ==
  mem.live /\ Settled => mem.status = db.status /\ mem.round = db.round

\* Nobody's running conversation is deleted under them.
ActiveMatchNeverWiped ==
  [][\A r \in Rounds, m \in Rooms : rows[r][m] = "active" => rows'[r][m] # "none"]_vars

\* A step that ends a round ends the round it was asked to end.
EndsItsOwnRound ==
  [][mem.status = "round_active" /\ mem'.status = "round_rating" => task.arg = mem.round]_vars

-----------------------------------------------------------------------------
(* The abstract event *)

Abstract == INSTANCE EventLifecycle WITH
  phase <- mem.status, played <- mem.round, planned <- mem.total

\* The phases and rounds shown in memory are those of the abstract event.
ImplementsLifecycle == Abstract!Spec

-----------------------------------------------------------------------------
(* Liveness *)

Phase(status) == mem.live /\ mem.status = status

\* A round does not last for ever, unless it is paused.
RoundEnds == Phase("round_active") ~> ~Phase("round_active") \/ mem.paused

\* Nor does a rating window.
RatingEnds == Phase("round_rating") ~> ~Phase("round_rating") \/ mem.paused

\* The closing lobby completes the event by itself.
ClosingEnds == Phase("closing_lobby") ~> db.status = "completed"

-----------------------------------------------------------------------------
(* What comments say and the code does not keep: no run checks these *)

\* Nothing but the host starts a round: no timer that would is ever armed.
NoAutoStart == mem.timer # "transitionToRound"

\* A row that was cancelled is not brought back to life.
CancelledStaysCancelled ==
  [][\A r \in Rounds, m \in Rooms : rows[r][m] = "cancelled" => rows'[r][m] # "active"]_vars
=============================================================================
