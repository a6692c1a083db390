-------------------------- MODULE LiveEventProofs --------------------------
(***************************************************************************)
(* What holds of the live event for every number of rounds and rooms, part *)
(* by part; each part says in its hypothesis on Env who must stay away.    *)
(*   - type correctness: what each helper returns, then one case per       *)
(*     action, grouped as in Next                                          *)
(*   - the end of an event: one recap, and a row that stays completed      *)
(*   - a re-match deletes no running conversation                          *)
(*   - memory follows the row                                              *)
(*   - a round keeps its time                                              *)
(*   - an active round has a conversation                                  *)
(*   - the event refines EventLifecycle, by Start Round or by previews     *)
(*   - each phase has its timer, no conversation strays, and a round is    *)
(*     ended by what was asked to end it                                   *)
(***************************************************************************)
EXTENDS LiveEvent, TLAPS

\* No round yet is 0; the rounds are 1..MaxRound.
LEMMA Bounds == 0 \in 0..MaxRound /\ 1 \in Rounds /\ Rounds \subseteq 0..MaxRound
  BY RoundAssumption DEF Rounds

\* A free guard is a task.
LEMMA FreeType == Free \in Tasks
  BY Bounds DEF Free, Tasks, Labels, Ops, SessionStatus

\* A handler that goes to another of its awaits is still a task.
LEMMA GotoType ==
  ASSUME TaskOK, NEW label \in Labels, Goto(label)
  PROVE  TaskOK'
  BY DEF TaskOK, Tasks, Goto

\* A handler that takes the guard is a task.
LEMMA BeginType ==
  ASSUME NEW label \in Labels, NEW op \in Ops, NEW r \in 0..MaxRound, Begin(label, op, r)
  PROVE  TaskOK'
  BY FreeType DEF TaskOK, Tasks, Begin

\* So is one that calls updateSessionStatus.
LEMMA UpdateStatusType ==
  ASSUME TaskOK, NEW status \in SessionStatus, UpdateStatus(status)
  PROVE  TaskOK'
  BY DEF TaskOK, Tasks, UpdateStatus, Labels

\* A handler that returns leaves the guard free, or goes on with Start Round.
LEMMA ReturnTaskType == ASSUME TaskOK, ReturnTask PROVE TaskOK'
  BY FreeType DEF TaskOK, Tasks, ReturnTask, Labels, Ops

\* Giving the generation lock back keeps the unguarded tasks well typed.
LEMMA ReleasedType == ASSUME NEW s \in Sides PROVE Released(s) \in Sides
  BY DEF Sides, Released, GenLabels

\* A handler that returns leaves a task and well-typed unguarded tasks.
LEMMA ReturnType == ASSUME TaskOK, SideOK, Return PROVE TaskOK' /\ SideOK'
  BY ReturnTaskType, ReleasedType DEF Return, SideOK

\* A guard-wrapped callback takes the guard or is queued behind it.
LEMMA RequestType ==
  ASSUME TaskOK, WaitingOK, NEW kind \in QueuedKinds, NEW r \in 0..MaxRound, Request(kind, r)
  PROVE  TaskOK' /\ WaitingOK'
  <1>1. CASE Idle /\ waiting = <<>> /\ Begin(kind, OpOf(kind), r) /\ UNCHANGED waiting
    <2>1. kind \in Labels /\ OpOf(kind) \in Ops
      BY DEF Labels, Ops, OpOf
    <2> QED BY <1>1, <2>1, BeginType DEF WaitingOK
  <1>2. CASE /\ ~(Idle /\ waiting = <<>>) /\ Len(waiting) < MaxWaiting
             /\ waiting' = Append(waiting, [kind |-> kind, round |-> r])
             /\ UNCHANGED task
    <2>1. [kind |-> kind, round |-> r] \in Queued
      BY DEF Queued
    <2> QED BY <1>2, <2>1 DEF WaitingOK, TaskOK
  <1> QED BY <1>1, <1>2, Zenon DEF Request

\* Setting the status of some rows of a round leaves match rows.
LEMMA SetRowsType ==
  ASSUME NEW rs \in MatchRows, NEW r, NEW S, NEW status \in MatchStatus
  PROVE  SetRows(rs, r, S, status) \in MatchRows
  BY DEF SetRows, MatchRows

\* repairFutureRounds leaves match rows.
LEMMA ReplannedType ==
  ASSUME NEW rs \in MatchRows, NEW r, NEW G
  PROVE  Replanned(rs, r, G) \in MatchRows
  BY DEF Replanned, MatchRows, MatchStatus

\* What persistSessionState serialises of an ActiveSession is a snapshot.
LEMMA SnapshotType == ASSUME NEW m \in Sessions PROVE Snapshot(m) \in Snapshots
  BY DEF Snapshot, Snapshots, Sessions

\* persistSessionState leaves well-typed copies.
LEMMA PersistedType ==
  ASSUME SavedOK, NEW m \in Sessions
  PROVE  Persisted(m) \in Copies
  BY SnapshotType DEF SavedOK, Copies, Persisted

\* startSegmentTimer leaves an ActiveSession.
LEMMA ArmedType ==
  ASSUME NEW m \in Sessions, NEW kind \in Timers, NEW r \in 0..MaxRound
  PROVE  Armed(m, kind, r) \in Sessions
  BY DEF Armed, Sessions

\* So does clearSessionTimers.
LEMMA ClearedType == ASSUME NEW m \in Sessions PROVE Cleared(m) \in Sessions
  BY DEF Cleared, Sessions, Timers

\* So does the timer that getTimerCallbackForState chooses.
LEMMA ArmedByStatusType == ASSUME NEW m \in Sessions PROVE ArmedByStatus(m) \in Sessions
  BY ArmedType, Bounds DEF ArmedByStatus, Timers, Callbacks, Rounds

\* What recoverActiveSessions rebuilds from a copy is an ActiveSession.
LEMMA RecoveredType == ASSUME NEW s \in Snapshots PROVE Recovered(s) \in Sessions
  BY Bounds DEF Recovered, Snapshots, Sessions, Timers

\* And still is when its timer is armed again.
LEMMA RearmedType ==
  ASSUME NEW m \in Sessions, NEW b, NEW r \in Rearmed(m, b)
  PROVE  r \in Sessions
  BY ArmedByStatusType DEF Rearmed

\* The 3 s grace of the early close leaves an ActiveSession.
LEMMA InGraceType ==
  ASSUME SessionOK, NEW r \in 0..MaxRound
  PROVE  InGrace(r) \in Sessions
  BY DEF InGrace, SessionOK, Sessions, Timers

\* No unguarded task at all is well typed.
LEMMA NoSideType == NoSide \in Sides
  BY Bounds DEF NoSide, Sides, GenLabels

\* Rows taken from the no-show detection leave well-typed unguarded tasks.
LEMMA SideLosingType ==
  ASSUME NEW s \in Sides, NEW r, NEW S PROVE SideLosing(s, r, S) \in Sides
  BY DEF SideLosing, Sides

\* Rows taken from the handler that loaded them leave a task.
LEMMA TaskLosingType ==
  ASSUME TaskOK, NEW r, NEW S PROVE TaskLosing(r, S) \in Tasks
  BY DEF TaskLosing, TaskOK, Tasks

\* The round after one below the bound is a round.
LEMMA NextRoundType ==
  ASSUME NEW m \in Sessions, m.round < MaxRound PROVE NextRound(m) \in Rounds
  BY RoundAssumption DEF NextRound, Sessions, Rounds

\* The ActiveSession of Go Live is one.
LEMMA NewSessionType == ASSUME DbOK PROVE NewSession \in Sessions
  BY Bounds DEF NewSession, DbOK, Sessions, SessionStatus, Timers

\* Dropping the confirmed preview leaves an ActiveSession.
LEMMA ConfirmedType == ASSUME NEW m \in Sessions PROVE Confirmed(m) \in Sessions
  BY Bounds DEF Confirmed, Sessions

\* A timer that is due calls one of the callbacks the guard queues.
LEMMA FiredKindType == ASSUME SessionOK, Due PROVE FiredKind \in QueuedKinds
  BY DEF SessionOK, Sessions, Due, FiredKind, QueuedKinds, Callbacks

\* The guard goes to what heads the queue.
LEMMA DispatchType == ASSUME TypeOK, Dispatch PROVE TaskOK' /\ WaitingOK'
  <1>1. Head(waiting) \in Queued /\ Tail(waiting) \in Seq(Queued)
    BY DEF TypeOK, WaitingOK, Dispatch
  <1>2. TaskOK'
    <2>1. Head(waiting).kind \in Labels /\ OpOf(Head(waiting).kind) \in Ops
      BY <1>1 DEF Queued, Labels, Ops, OpOf
    <2> QED BY <1>1, <2>1, BeginType DEF Dispatch, Queued
  <1>3. WaitingOK'
    BY <1>1 DEF Dispatch, WaitingOK
  <1> QED BY <1>2, <1>3

\* A paused ActiveSession is one.
LEMMA PausedType ==
  ASSUME SessionOK, NEW rest \in BOOLEAN, NEW m \in PausedSession(rest)
  PROVE  m \in Sessions
  <1>1. PICK left \in BOOLEAN :
          m = [mem EXCEPT !.paused = TRUE,
                 !.timer = IF Pausable THEN "none" ELSE @,
                 !.leftover = IF Pausable THEN left ELSE @,
                 !.endsAt = IF Pausable /\ ~rest THEN FALSE ELSE @]
    BY Zenon DEF PausedSession
  <1> QED BY <1>1 DEF SessionOK, Sessions, Timers

\* A resumed ActiveSession is one.
LEMMA ResumedType == ASSUME SessionOK PROVE ResumedSession \in Sessions
  <1>1. [mem EXCEPT !.paused = FALSE, !.leftover = FALSE] \in Sessions
    BY DEF SessionOK, Sessions
  <1> QED BY <1>1, ArmedByStatusType DEF ResumedSession, SessionOK, Sessions

\* The holder of the generation lock moves on within the preview.
LEMMA GenGotoType ==
  ASSUME SideOK, NEW label \in GenLabels, GenGoto(label)
  PROVE  SideOK'
  BY DEF SideOK, Sides, GenGoto

\* And may replace rows that others had loaded.
LEMMA GenReplacesType ==
  ASSUME SideOK, TaskOK, NEW label \in GenLabels, NEW r, NEW S, GenReplaces(label, r, S)
  PROVE  SideOK' /\ TaskOK'
  BY SideLosingType, TaskLosingType DEF SideOK, Sides, TaskOK, GenReplaces

\* The re-plan after an edit leaves match rows and a task.
LEMMA ReplansAfterType ==
  ASSUME TaskOK, NEW rs \in MatchRows, NEW r, ReplansAfter(rs, r)
  PROVE  RowsOK' /\ TaskOK'
  <1>1. RowsOK'
    BY ReplannedType DEF ReplansAfter, RowsOK
  <1>2. \E S : task' = [task EXCEPT !.batch = S] /\ S \subseteq task.batch
    BY DEF ReplansAfter
  <1>3. TaskOK'
    BY <1>2 DEF TaskOK, Tasks
  <1> QED BY <1>1, <1>3

\* The death of the process leaves every other variable well typed.
LEMMA DieType ==
  ASSUME TypeOK, Die
  PROVE  TaskOK' /\ WaitingOK' /\ SideOK' /\ SavedOK' /\ BudgetOK' /\ DbOK' /\ RowsOK'
  <1>1. TaskOK' /\ WaitingOK' /\ SideOK'
    BY FreeType, NoSideType DEF Die, TaskOK, WaitingOK, SideOK
  <1>2. SavedOK'
    BY DEF Die, TypeOK, SavedOK, Copies
  <1>3. BudgetOK'
    BY BudgetAssumption DEF Die, TypeOK, BudgetOK
  <1>4. DbOK' /\ RowsOK'
    BY DEF Die, TypeOK, DbOK, RowsOK
  <1> QED BY <1>1, <1>2, <1>3, <1>4

\* completeSession closes the active rows and leaves match rows.
LEMMA RowsWipedType == ASSUME RowsOK PROVE RowsWiped \in MatchRows
  <1>1. \A r \in Rounds, m \in Rooms : rows[r][m] \in MatchStatus
    BY DEF RowsOK, MatchRows
  <1>2. "completed" \in MatchStatus
    BY DEF MatchStatus
  <1> QED BY <1>1, <1>2 DEF RowsWiped, MatchRows

\* A step of a handler that holds the guard keeps the types.
LEMMA GuardStepType == ASSUME TypeOK, GuardStep PROVE TypeOK'
  <1>1. CASE StatusRead
    <2>1. TaskOK'
      BY <1>1, GotoType
      DEF StatusRead, TypeOK, Labels, AfterUpdate
    <2> QED BY <1>1, <2>1 DEF StatusRead, TypeOK, SessionOK, DbOK, RowsOK, SavedOK, WaitingOK, SideOK, BudgetOK
  <1>2. CASE StatusWrite
    <2>1. TaskOK'
      BY <1>2, GotoType
      DEF StatusWrite, TypeOK, Labels, AfterUpdate
    <2>2. DbOK'
      BY <1>2
      DEF StatusWrite, TypeOK, DbOK, TaskOK, Tasks
    <2> QED BY <1>2, <2>1, <2>2 DEF StatusWrite, TypeOK, SessionOK, RowsOK, SavedOK, WaitingOK, SideOK, BudgetOK
  <1>3. CASE GoLive
    <2>1. SessionOK'
      BY <1>3, NewSessionType
      DEF GoLive, TypeOK, SessionOK
    <2>2. TaskOK' /\ SideOK'
      BY <1>3, GotoType, ReturnType
      DEF GoLive, TypeOK, Labels, SideOK
    <2>3. SavedOK'
      BY <1>3, NewSessionType, PersistedType
      DEF GoLive, TypeOK, SavedOK
    <2> QED BY <1>3, <2>1, <2>2, <2>3 DEF GoLive, TypeOK, DbOK, RowsOK, WaitingOK, BudgetOK
  <1>4. CASE Plan
    <2>1. TaskOK' /\ SideOK'
      BY <1>4, ReturnType
      DEF Plan, TypeOK
    <2>2. RowsOK'
      BY <1>4, ReplannedType
      DEF Plan, TypeOK, RowsOK
    <2> QED BY <1>4, <2>1, <2>2 DEF Plan, TypeOK, SessionOK, DbOK, SavedOK, WaitingOK, BudgetOK
  <1>5. CASE StartRoundRefused
    <2>1. TaskOK' /\ SideOK'
      BY <1>5, ReturnType
      DEF StartRoundRefused, TypeOK
    <2> QED BY <1>5, <2>1 DEF StartRoundRefused, TypeOK, SessionOK, DbOK, RowsOK, SavedOK, WaitingOK, BudgetOK
  <1>6. CASE StartRound
    <2>1. SessionOK'
      BY <1>6, ClearedType, NextRoundType
      DEF StartRound, TypeOK, SessionOK, Sessions
    <2>2. TaskOK'
      BY <1>6, Bounds, NextRoundType
      DEF StartRound, TypeOK, SessionOK, TaskOK, Tasks, Labels, QueuedKinds, Callbacks
    <2> QED BY <1>6, <2>1, <2>2 DEF StartRound, TypeOK, DbOK, RowsOK, SavedOK, WaitingOK, SideOK, BudgetOK
  <1>7. CASE ConfirmRound
    <2>1. SessionOK'
      BY <1>7, ClearedType
      DEF ConfirmRound, TypeOK, SessionOK
    <2>2. TaskOK' /\ SideOK'
      BY <1>7, ReturnType
      DEF ConfirmRound, TypeOK, SessionOK, Sessions, TaskOK, Tasks, SideOK, Labels, QueuedKinds, Callbacks
    <2> QED BY <1>7, <2>1, <2>2 DEF ConfirmRound, TypeOK, DbOK, RowsOK, SavedOK, WaitingOK, BudgetOK
  <1>8. CASE RoundRefused
    <2>1. TaskOK' /\ SideOK'
      BY <1>8, ReturnType
      DEF RoundRefused, TypeOK
    <2>2. SessionOK' /\ SavedOK'
      BY <1>8, ConfirmedType, PersistedType
      DEF RoundRefused, TypeOK, SessionOK, SavedOK
    <2> QED BY <1>8, <2>1, <2>2 DEF RoundRefused, TypeOK, DbOK, RowsOK, WaitingOK, BudgetOK
  <1>9. CASE LoadRound
    <2>1. RowsOK'
      BY <1>9, SetRowsType
      DEF LoadRound, TypeOK, RowsOK, MatchStatus
    <2>2. TaskOK' /\ SideOK'
      <3>1. CASE Return
        BY <3>1, ReturnType DEF TypeOK
      <3>2. CASE \E S \in SUBSET Rooms :
                   /\ task' = [task EXCEPT !.pc = "createRooms", !.batch = S]
                   /\ UNCHANGED side
        BY <3>2 DEF TypeOK, TaskOK, Tasks, SideOK, Labels
      <3>3. Return \/ \E S \in SUBSET Rooms :
                   /\ task' = [task EXCEPT !.pc = "createRooms", !.batch = S]
                   /\ UNCHANGED side
        <4>1. \A statuses : RowsIn(task.arg, statuses) \in SUBSET Rooms
          BY DEF RowsIn
        <4>2. \A G \in SUBSET FreeSlots(task.arg) : G \in SUBSET Rooms
          BY <4>1 DEF FreeSlots
        <4> QED BY <1>9, <4>1, <4>2, Zenon DEF LoadRound
      <3> QED BY <3>1, <3>2, <3>3
    <2> QED BY <1>9, <2>1, <2>2 DEF LoadRound, TypeOK, SessionOK, DbOK, SavedOK, WaitingOK, BudgetOK
  <1>10. CASE CreateRooms
    <2>1. RowsOK'
      BY <1>10, SetRowsType
      DEF CreateRooms, TypeOK, RowsOK, MatchStatus
    <2>2. TaskOK' /\ SideOK'
      BY <1>10, GotoType, ReturnType
      DEF CreateRooms, TypeOK, SideOK, Labels
    <2>3. BudgetOK'
      BY <1>10, BudgetAssumption
      DEF CreateRooms, TypeOK, BudgetOK
    <2> QED BY <1>10, <2>1, <2>2, <2>3 DEF CreateRooms, TypeOK, SessionOK, DbOK, SavedOK, WaitingOK
  <1>11. CASE Activate
    <2>1. RowsOK'
      BY <1>11, SetRowsType
      DEF Activate, TypeOK, RowsOK, MatchStatus
    <2>2. TaskOK'
      BY <1>11, GotoType
      DEF Activate, TypeOK, Labels
    <2> QED BY <1>11, <2>1, <2>2 DEF Activate, TypeOK, SessionOK, DbOK, SavedOK, WaitingOK, SideOK, BudgetOK
  <1>12. CASE Flip
    <2>1. SessionOK'
      <3> DEFINE total == IF task.arg > mem.total THEN task.arg ELSE mem.total
      <3>1. total \in Rounds /\ task.arg \in 0..MaxRound
        BY DEF TypeOK, SessionOK, Sessions, TaskOK, Tasks, Rounds
      <3>2. mem' = [mem EXCEPT !.status = "round_active", !.round = task.arg, !.total = total]
        BY <1>12 DEF Flip
      <3> HIDE DEF total
      <3> QED BY <3>1, <3>2 DEF TypeOK, SessionOK, Sessions, SessionStatus
    <2>2. DbOK'
      <3> DEFINE total == IF task.arg > mem.total THEN task.arg ELSE db.total
      <3>1. total \in Rounds
        BY DEF TypeOK, SessionOK, Sessions, DbOK, TaskOK, Tasks, Rounds
      <3>2. db' = [db EXCEPT !.total = total]
        BY <1>12 DEF Flip
      <3> HIDE DEF total
      <3> QED BY <3>1, <3>2 DEF TypeOK, DbOK
    <2>3. TaskOK'
      BY <1>12, UpdateStatusType
      DEF Flip, TypeOK, SessionStatus
    <2> QED BY <1>12, <2>1, <2>2, <2>3 DEF Flip, TypeOK, RowsOK, SavedOK, WaitingOK, SideOK, BudgetOK
  <1>13. CASE RoundSave
    <2>1. DbOK'
      BY <1>13
      DEF RoundSave, TypeOK, DbOK, TaskOK, Tasks
    <2>2. SavedOK'
      BY <1>13, PersistedType
      DEF RoundSave, TypeOK, SavedOK, SessionOK
    <2>3. TaskOK'
      BY <1>13, GotoType
      DEF RoundSave, TypeOK, Labels
    <2> QED BY <1>13, <2>1, <2>2, <2>3 DEF RoundSave, TypeOK, SessionOK, RowsOK, WaitingOK, SideOK, BudgetOK
  <1>14. CASE RoundArm
    <2>1. SessionOK' /\ SavedOK'
      BY <1>14, ArmedType, ConfirmedType, PersistedType
      DEF RoundArm, TypeOK, SessionOK, SavedOK, TaskOK, Tasks, Timers, Callbacks
    <2>2. TaskOK'
      BY <1>14, ReturnTaskType
      DEF RoundArm, TypeOK
    <2>3. SideOK'
      BY <1>14, ReleasedType, Bounds
      DEF RoundArm, TypeOK, SideOK, Sides, TaskOK, Tasks
    <2> QED BY <1>14, <2>1, <2>2, <2>3 DEF RoundArm, TypeOK, DbOK, RowsOK, WaitingOK, BudgetOK
  <1>15. CASE EndRound
    <2>1. RowsOK'
      BY <1>15, SetRowsType
      DEF EndRound, TypeOK, RowsOK, MatchStatus
    <2>2. TaskOK' /\ SideOK'
      BY <1>15, GotoType, ReturnType
      DEF EndRound, TypeOK, SideOK, Labels
    <2> QED BY <1>15, <2>1, <2>2 DEF EndRound, TypeOK, SessionOK, DbOK, SavedOK, WaitingOK, BudgetOK
  <1>16. CASE RateFlip
    <2>1. SessionOK'
      BY <1>16
      DEF RateFlip, TypeOK, SessionOK, Sessions, SessionStatus
    <2>2. TaskOK' /\ SideOK'
      BY <1>16, UpdateStatusType, ReturnType
      DEF RateFlip, TypeOK, SideOK, SessionStatus
    <2> QED BY <1>16, <2>1, <2>2 DEF RateFlip, TypeOK, DbOK, RowsOK, SavedOK, WaitingOK, BudgetOK
  <1>17. CASE RateSave
    <2>1. SavedOK'
      BY <1>17, PersistedType
      DEF RateSave, TypeOK, SavedOK, SessionOK
    <2>2. TaskOK'
      BY <1>17, GotoType
      DEF RateSave, TypeOK, Labels
    <2> QED BY <1>17, <2>1, <2>2 DEF RateSave, TypeOK, SessionOK, DbOK, RowsOK, WaitingOK, SideOK, BudgetOK
  <1>18. CASE RateArm
    <2>1. SessionOK'
      BY <1>18, ArmedType
      DEF RateArm, TypeOK, SessionOK, TaskOK, Tasks, Timers, Callbacks
    <2>2. TaskOK' /\ SideOK'
      BY <1>18, ReturnType
      DEF RateArm, TypeOK
    <2> QED BY <1>18, <2>1, <2>2 DEF RateArm, TypeOK, DbOK, RowsOK, SavedOK, WaitingOK, BudgetOK
  <1>19. CASE EndRatingWindow
    <2>1. SessionOK'
      BY <1>19, ClearedType
      DEF EndRatingWindow, TypeOK, SessionOK
    <2>2. TaskOK' /\ SideOK'
      BY <1>19, GotoType, ReturnType
      DEF EndRatingWindow, TypeOK, SideOK, Labels
    <2> QED BY <1>19, <2>1, <2>2 DEF EndRatingWindow, TypeOK, DbOK, RowsOK, SavedOK, WaitingOK, BudgetOK
  <1>20. CASE CloseDecide
    <2>1. SessionOK'
      BY <1>20
      DEF CloseDecide, NextPhase, TypeOK, SessionOK, Sessions, SessionStatus
    <2>2. TaskOK' /\ SideOK'
      BY <1>20, GotoType, UpdateStatusType, ReturnType
      DEF CloseDecide, NextPhase, TypeOK, SideOK, Labels, QueuedKinds, Callbacks, SessionStatus
    <2> QED BY <1>20, <2>1, <2>2 DEF CloseDecide, TypeOK, DbOK, RowsOK, SavedOK, WaitingOK, BudgetOK
  <1>21. CASE CloseSave
    <2>1. SavedOK'
      BY <1>21, PersistedType
      DEF CloseSave, TypeOK, SavedOK, SessionOK
    <2>2. SessionOK'
      BY <1>21, ArmedType, Bounds
      DEF CloseSave, WithPhaseTimer, TypeOK, SessionOK, Timers, Callbacks
    <2>3. TaskOK' /\ SideOK'
      BY <1>21, ReturnType
      DEF CloseSave, TypeOK
    <2> QED BY <1>21, <2>1, <2>2, <2>3 DEF CloseSave, TypeOK, DbOK, RowsOK, WaitingOK, BudgetOK
  <1>22. CASE CompleteSession
    <2>1. SessionOK'
      BY <1>22
      DEF CompleteSession, TypeOK, SessionOK, Sessions, SessionStatus, MemCompleting
    <2>2. TaskOK' /\ SideOK'
      BY <1>22, GotoType, ReturnType
      DEF CompleteSession, TypeOK, SideOK, Labels
    <2> QED BY <1>22, <2>1, <2>2 DEF CompleteSession, TypeOK, DbOK, RowsOK, SavedOK, WaitingOK, BudgetOK
  <1>23. CASE Claim
    <2>1. SessionOK'
      BY <1>23
      DEF Claim, TypeOK, SessionOK, Sessions, Timers, MemClaimed
    <2>2. DbOK'
      BY <1>23
      DEF Claim, TypeOK, DbOK, DbClaimed, SessionStatus
    <2>3. TaskOK' /\ SideOK'
      BY <1>23, GotoType, ReturnType
      DEF Claim, TypeOK, SideOK, Labels
    <2> QED BY <1>23, <2>1, <2>2, <2>3 DEF Claim, TypeOK, RowsOK, SavedOK, WaitingOK, BudgetOK
  <1>24. CASE Wipe
    <2>1. DbOK'
      <3>1. db.recaps + 1 \in Nat
        BY DEF TypeOK, DbOK
      <3> QED BY <1>24, <3>1 DEF Wipe, TypeOK, DbOK, DbWiped, SessionStatus
    <2>2. RowsOK'
      BY <1>24, RowsWipedType DEF Wipe, TypeOK, RowsOK
    <2>3. TaskOK'
      BY <1>24, GotoType
      DEF Wipe, TypeOK, Labels
    <2> QED BY <1>24, <2>1, <2>2, <2>3 DEF Wipe, TypeOK, SessionOK, SavedOK, WaitingOK, SideOK, BudgetOK
  <1>25. CASE Drop
    <2>1. SessionOK'
      BY <1>25
      DEF Drop, TypeOK, SessionOK, Sessions, MemDropped
    <2>2. SavedOK'
      BY <1>25
      DEF Drop, TypeOK, SavedOK, Copies, SavedDropped
    <2>3. TaskOK' /\ SideOK'
      BY <1>25, ReturnType
      DEF Drop, TypeOK
    <2> QED BY <1>25, <2>1, <2>2, <2>3 DEF Drop, TypeOK, DbOK, RowsOK, WaitingOK, BudgetOK
  <1>26. CASE AutoEnd
    <2>1. TaskOK' /\ SideOK'
      BY <1>26, BeginType, ReturnType
      DEF AutoEnd, TypeOK, SideOK, SessionOK, Sessions, Labels, QueuedKinds, Callbacks, Ops
    <2> QED BY <1>26, <2>1 DEF AutoEnd, TypeOK, SessionOK, DbOK, RowsOK, SavedOK, WaitingOK, BudgetOK
  <1>27. CASE OtherDone
    <2>1. TaskOK' /\ SideOK'
      BY <1>27, ReturnType
      DEF OtherDone, TypeOK
    <2> QED BY <1>27, <2>1 DEF OtherDone, TypeOK, SessionOK, DbOK, RowsOK, SavedOK, WaitingOK, BudgetOK
  <1> QED BY <1>1, <1>2, <1>3, <1>4, <1>5, <1>6, <1>7, <1>8, <1>9, <1>10, <1>11, <1>12, <1>13, <1>14, <1>15, <1>16, <1>17, <1>18, <1>19, <1>20, <1>21, <1>22, <1>23, <1>24, <1>25, <1>26, <1>27 DEF GuardStep

\* The timer and the queue keeps the types.
LEMMA SchedulingType == ASSUME TypeOK, TimerFire \/ Dispatch PROVE TypeOK'
  <1>1. CASE TimerFire
    <2>1. SessionOK'
      BY <1>1, Bounds
      DEF TimerFire, TypeOK, SessionOK, Sessions, Timers
    <2>2. TaskOK' /\ WaitingOK'
      BY <1>1, RequestType, FiredKindType
      DEF TimerFire, TypeOK
    <2> QED BY <1>1, <2>1, <2>2 DEF TimerFire, TypeOK, DbOK, RowsOK, SavedOK, SideOK, BudgetOK
  <1>2. CASE Dispatch
    <2>1. TaskOK' /\ WaitingOK'
      BY <1>2, DispatchType
      DEF Dispatch, TypeOK
    <2> QED BY <1>2, <2>1 DEF Dispatch, TypeOK, SessionOK, DbOK, RowsOK, SavedOK, SideOK, BudgetOK
  <1> QED BY <1>1, <1>2

\* A request that takes the guard keeps the types.
LEMMA GuardedRequestType == ASSUME TypeOK, GuardedRequest PROVE TypeOK'
  <1>1. CASE HostStart
    <2>1. TaskOK'
      BY <1>1, FreeType
      DEF HostStart, TypeOK, TaskOK, Tasks, Labels, Ops, SessionStatus
    <2> QED BY <1>1, <2>1 DEF HostStart, TypeOK, SessionOK, DbOK, RowsOK, SavedOK, WaitingOK, SideOK, BudgetOK
  <1>2. CASE HostStartRound
    <2>1. TaskOK'
      BY <1>2, BeginType, Bounds
      DEF HostStartRound, TypeOK, SessionOK, Sessions, Labels, QueuedKinds, Callbacks, Ops
    <2> QED BY <1>2, <2>1 DEF HostStartRound, TypeOK, SessionOK, DbOK, RowsOK, SavedOK, WaitingOK, SideOK, BudgetOK
  <1>3. CASE HostConfirmRound
    <2>1. TaskOK' /\ WaitingOK'
      BY <1>3, RequestType, Bounds
      DEF HostConfirmRound, TypeOK, QueuedKinds
    <2>2. SideOK'
      BY <1>3
      DEF HostConfirmRound, TypeOK, SideOK, Sides, GenLabels
    <2> QED BY <1>3, <2>1, <2>2 DEF HostConfirmRound, TypeOK, SessionOK, DbOK, RowsOK, SavedOK, BudgetOK
  <1>4. CASE HostEnd
    <2>1. SessionOK'
      BY <1>4
      DEF HostEnd, TypeOK, SessionOK, Sessions, Timers
    <2>2. TaskOK'
      BY <1>4, BeginType, Bounds
      DEF HostEnd, TypeOK, SessionOK, Sessions, Labels, QueuedKinds, Callbacks, Ops
    <2> QED BY <1>4, <2>1, <2>2 DEF HostEnd, TypeOK, DbOK, RowsOK, SavedOK, WaitingOK, SideOK, BudgetOK
  <1>5. CASE HostForceCloseRating
    <2>1. TaskOK'
      BY <1>5, BeginType
      DEF HostForceCloseRating, TypeOK, SessionOK, Sessions, Labels, QueuedKinds, Callbacks, Ops
    <2> QED BY <1>5, <2>1 DEF HostForceCloseRating, TypeOK, SessionOK, DbOK, RowsOK, SavedOK, WaitingOK, SideOK, BudgetOK
  <1>6. CASE HostPause
    <2>1. SessionOK'
      BY <1>6, PausedType
      DEF HostPause, TypeOK, SessionOK
    <2>2. SavedOK'
      BY <1>6, PausedType, PersistedType
      DEF HostPause, TypeOK, SavedOK
    <2> QED BY <1>6, <2>1, <2>2 DEF HostPause, TypeOK, DbOK, RowsOK, TaskOK, WaitingOK, SideOK, BudgetOK
  <1>7. CASE HostResume
    <2>1. SessionOK'
      BY <1>7, ResumedType
      DEF HostResume, TypeOK, SessionOK
    <2>2. SavedOK'
      BY <1>7, ResumedType, PersistedType
      DEF HostResume, TypeOK, SavedOK
    <2> QED BY <1>7, <2>1, <2>2 DEF HostResume, TypeOK, DbOK, RowsOK, TaskOK, WaitingOK, SideOK, BudgetOK
  <1>8. CASE HostExtendRound
    <2>1. SessionOK'
      BY <1>8, ArmedType, Bounds
      DEF HostExtendRound, TypeOK, SessionOK, Timers, Callbacks
    <2>2. SavedOK'
      BY <1>8, ArmedType, PersistedType, Bounds
      DEF HostExtendRound, TypeOK, SavedOK, SessionOK, Timers, Callbacks
    <2> QED BY <1>8, <2>1, <2>2 DEF HostExtendRound, TypeOK, DbOK, RowsOK, TaskOK, WaitingOK, SideOK, BudgetOK
  <1>9. CASE LeaveConversation
    <2>1. RowsOK'
      BY <1>9, SetRowsType
      DEF LeaveConversation, TypeOK, RowsOK, MatchStatus
    <2>2. WaitingOK'
      BY <1>9, Bounds
      DEF LeaveConversation, TypeOK, WaitingOK, Queued, QueuedKinds
    <2> QED BY <1>9, <2>1, <2>2 DEF LeaveConversation, TypeOK, SessionOK, DbOK, SavedOK, TaskOK, SideOK, BudgetOK
  <1>10. CASE OtherHold
    <2>1. TaskOK'
      BY <1>10, BeginType, Bounds
      DEF OtherHold, TypeOK, Labels, Ops
    <2> QED BY <1>10, <2>1 DEF OtherHold, TypeOK, SessionOK, DbOK, RowsOK, SavedOK, WaitingOK, SideOK, BudgetOK
  <1>11. CASE RatingsComplete
    <2>1. SessionOK'
      BY <1>11, InGraceType
      DEF RatingsComplete, TypeOK, SessionOK, Sessions
    <2> QED BY <1>11, <2>1 DEF RatingsComplete, TypeOK, DbOK, RowsOK, SavedOK, TaskOK, WaitingOK, SideOK, BudgetOK
  <1> QED BY <1>1, <1>2, <1>3, <1>4, <1>5, <1>6, <1>7, <1>8, <1>9, <1>10, <1>11 DEF GuardedRequest

\* A task beside the guard keeps the types.
LEMMA UnguardedType == ASSUME TypeOK, Unguarded PROVE TypeOK'
  <1>1. CASE RestEnd
    <2>1. SessionOK'
      BY <1>1
      DEF RestEnd, TypeOK, SessionOK, Sessions, SessionStatus, MemCompleting
    <2>2. SideOK'
      BY <1>1
      DEF RestEnd, TypeOK, SideOK, Sides
    <2> QED BY <1>1, <2>1, <2>2 DEF RestEnd, TypeOK, DbOK, RowsOK, SavedOK, TaskOK, WaitingOK, BudgetOK
  <1>2. CASE RestClaim
    <2>1. SessionOK'
      BY <1>2
      DEF RestClaim, TypeOK, SessionOK, Sessions, Timers, MemClaimed
    <2>2. DbOK'
      BY <1>2
      DEF RestClaim, TypeOK, DbOK, DbClaimed, SessionStatus
    <2>3. SideOK'
      BY <1>2
      DEF RestClaim, TypeOK, SideOK, Sides
    <2> QED BY <1>2, <2>1, <2>2, <2>3 DEF RestClaim, TypeOK, RowsOK, SavedOK, TaskOK, WaitingOK, BudgetOK
  <1>3. CASE RestWipe
    <2>1. DbOK'
      <3>1. db.recaps + 1 \in Nat
        BY DEF TypeOK, DbOK
      <3> QED BY <1>3, <3>1 DEF RestWipe, TypeOK, DbOK, DbWiped, SessionStatus
    <2>2. RowsOK'
      BY <1>3, RowsWipedType DEF RestWipe, TypeOK, RowsOK
    <2>3. SideOK'
      BY <1>3
      DEF RestWipe, TypeOK, SideOK, Sides
    <2> QED BY <1>3, <2>1, <2>2, <2>3 DEF RestWipe, TypeOK, SessionOK, SavedOK, TaskOK, WaitingOK, BudgetOK
  <1>4. CASE RestDrop
    <2>1. SessionOK'
      BY <1>4
      DEF RestDrop, TypeOK, SessionOK, Sessions, MemDropped
    <2>2. SavedOK'
      BY <1>4
      DEF RestDrop, TypeOK, SavedOK, Copies, SavedDropped
    <2>3. SideOK'
      BY <1>4
      DEF RestDrop, TypeOK, SideOK, Sides
    <2> QED BY <1>4, <2>1, <2>2, <2>3 DEF RestDrop, TypeOK, DbOK, RowsOK, TaskOK, WaitingOK, BudgetOK
  <1>5. CASE RestPause
    <2>1. SessionOK'
      BY <1>5, PausedType
      DEF RestPause, TypeOK, SessionOK
    <2> QED BY <1>5, <2>1 DEF RestPause, TypeOK, DbOK, RowsOK, SavedOK, TaskOK, WaitingOK, SideOK, BudgetOK
  <1>6. CASE RestResume
    <2>1. SessionOK'
      BY <1>6, ResumedType
      DEF RestResume, TypeOK, SessionOK
    <2> QED BY <1>6, <2>1 DEF RestResume, TypeOK, DbOK, RowsOK, SavedOK, TaskOK, WaitingOK, SideOK, BudgetOK
  <1>7. CASE SkipCheck
    <2>1. SideOK'
      BY <1>7
      DEF SkipCheck, TypeOK, SideOK, Sides, SessionOK, Sessions
    <2> QED BY <1>7, <2>1 DEF SkipCheck, TypeOK, SessionOK, DbOK, RowsOK, SavedOK, TaskOK, WaitingOK, BudgetOK
  <1>8. CASE SkipGrace
    <2>1. SessionOK'
      BY <1>8, InGraceType
      DEF SkipGrace, TypeOK, SessionOK, SideOK, Sides
    <2>2. SideOK'
      BY <1>8, Bounds
      DEF SkipGrace, TypeOK, SideOK, Sides
    <2> QED BY <1>8, <2>1, <2>2 DEF SkipGrace, TypeOK, DbOK, RowsOK, SavedOK, TaskOK, WaitingOK, BudgetOK
  <1>9. CASE NoShowScan
    <2>1. SideOK'
      <3>1. PICK S \in SUBSET Rooms :
              \/ side' = [side EXCEPT !.noShowDue = 0, !.nsRound = side.noShowDue, !.nsSet = S]
              \/ side' = [side EXCEPT !.noShowDue = 0]
        BY <1>9, Zenon DEF NoShowScan, RowsIn
      <3> QED BY <3>1, Bounds DEF TypeOK, SideOK, Sides
    <2> QED BY <1>9, <2>1 DEF NoShowScan, TypeOK, SessionOK, DbOK, RowsOK, SavedOK, TaskOK, WaitingOK, BudgetOK
  <1>10. CASE NoShowMark
    <2>1. RowsOK'
      BY <1>10, SetRowsType
      DEF NoShowMark, TypeOK, RowsOK, MatchStatus
    <2>2. SideOK'
      BY <1>10
      DEF NoShowMark, TypeOK, SideOK, Sides
    <2> QED BY <1>10, <2>1, <2>2 DEF NoShowMark, TypeOK, SessionOK, DbOK, SavedOK, TaskOK, WaitingOK, BudgetOK
  <1>11. CASE NoShowDone
    <2>1. SideOK'
      BY <1>11, Bounds
      DEF NoShowDone, TypeOK, SideOK, Sides
    <2>2. TaskOK' /\ WaitingOK'
      BY <1>11, RequestType, Bounds
      DEF NoShowDone, TypeOK, QueuedKinds
    <2> QED BY <1>11, <2>1, <2>2 DEF NoShowDone, TypeOK, SessionOK, DbOK, RowsOK, SavedOK, BudgetOK
  <1> QED BY <1>1, <1>2, <1>3, <1>4, <1>5, <1>6, <1>7, <1>8, <1>9, <1>10, <1>11 DEF Unguarded

\* A step of the preview keeps the types.
LEMMA PreviewStepType == ASSUME TypeOK, PreviewStep PROVE TypeOK'
  <1>1. CASE HostGenerateMatches
    <2>1. SessionOK'
      BY <1>1, ClearedType
      DEF HostGenerateMatches, TypeOK, SessionOK, Sessions, SessionStatus
    <2>2. SideOK'
      BY <1>1, GenGotoType
      DEF HostGenerateMatches, TypeOK, GenLabels
    <2> QED BY <1>1, <2>1, <2>2 DEF HostGenerateMatches, TypeOK, DbOK, RowsOK, SavedOK, TaskOK, WaitingOK, BudgetOK
  <1>2. CASE ReopenRead
    <2>1. SideOK'
      BY <1>2, GenGotoType
      DEF ReopenRead, TypeOK, GenLabels
    <2> QED BY <1>2, <2>1 DEF ReopenRead, TypeOK, SessionOK, DbOK, RowsOK, SavedOK, TaskOK, WaitingOK, BudgetOK
  <1>3. CASE ReopenWrite
    <2>1. DbOK'
      BY <1>3
      DEF ReopenWrite, TypeOK, DbOK, SessionStatus
    <2>2. SideOK'
      BY <1>3, GenGotoType
      DEF ReopenWrite, TypeOK, GenLabels
    <2> QED BY <1>3, <2>1, <2>2 DEF ReopenWrite, TypeOK, SessionOK, RowsOK, SavedOK, TaskOK, WaitingOK, BudgetOK
  <1>4. CASE ChooseRound
    <2>1. SideOK'
      BY <1>4, GenGotoType, Bounds
      DEF ChooseRound, TypeOK, GenLabels, SideOK, Sides
    <2> QED BY <1>4, <2>1 DEF ChooseRound, TypeOK, SessionOK, DbOK, RowsOK, SavedOK, TaskOK, WaitingOK, BudgetOK
  <1>5. CASE SurfacePlan
    <2>1. SessionOK'
      BY <1>5
      DEF SurfacePlan, TypeOK, SessionOK, Sessions, SideOK, Sides
    <2>2. SideOK'
      BY <1>5, GenGotoType
      DEF SurfacePlan, TypeOK, GenLabels
    <2> QED BY <1>5, <2>1, <2>2 DEF SurfacePlan, TypeOK, DbOK, RowsOK, SavedOK, TaskOK, WaitingOK, BudgetOK
  <1>6. CASE DeletePlan
    <2>1. RowsOK'
      BY <1>6, SetRowsType
      DEF DeletePlan, TypeOK, RowsOK, MatchStatus
    <2>2. SideOK' /\ TaskOK'
      BY <1>6, GenReplacesType
      DEF DeletePlan, TypeOK, GenLabels
    <2> QED BY <1>6, <2>1, <2>2 DEF DeletePlan, TypeOK, SessionOK, DbOK, SavedOK, WaitingOK, BudgetOK
  <1>7. CASE GeneratePlan
    <2>1. RowsOK'
      BY <1>7, SetRowsType
      DEF GeneratePlan, TypeOK, RowsOK, MatchStatus
    <2>2. SessionOK'
      BY <1>7
      DEF GeneratePlan, TypeOK, SessionOK, Sessions, SideOK, Sides
    <2>3. SideOK' /\ TaskOK'
      BY <1>7, GenReplacesType
      DEF GeneratePlan, TypeOK, GenLabels
    <2> QED BY <1>7, <2>1, <2>2, <2>3 DEF GeneratePlan, TypeOK, DbOK, SavedOK, WaitingOK, BudgetOK
  <1>8. CASE Replan
    <2>1. RowsOK' /\ TaskOK'
      BY <1>8, ReplansAfterType
      DEF Replan, TypeOK, RowsOK
    <2>2. SideOK'
      BY <1>8, GenGotoType
      DEF Replan, TypeOK, GenLabels
    <2> QED BY <1>8, <2>1, <2>2 DEF Replan, TypeOK, SessionOK, DbOK, SavedOK, WaitingOK, BudgetOK
  <1>9. CASE HostRegenerateMatches
    <2>1. SessionOK'
      BY <1>9, Bounds
      DEF HostRegenerateMatches, TypeOK, SessionOK, Sessions
    <2>2. SideOK'
      BY <1>9, Bounds
      DEF HostRegenerateMatches, TypeOK, SideOK, Sides, GenLabels
    <2> QED BY <1>9, <2>1, <2>2 DEF HostRegenerateMatches, TypeOK, DbOK, RowsOK, SavedOK, TaskOK, WaitingOK, BudgetOK
  <1>10. CASE RegenerateRound
    <2>1. RowsOK'
      <3>1. PICK G \in SUBSET Rooms :
              rows' = [rows EXCEPT ![side.genRound] =
                         [m \in Rooms |-> IF m \in G THEN "scheduled" ELSE "none"]]
        BY <1>10, Zenon DEF RegenerateRound
      <3>2. [m \in Rooms |-> IF m \in G THEN "scheduled" ELSE "none"] \in [Rooms -> MatchStatus]
        BY DEF MatchStatus
      <3> QED BY <3>1, <3>2 DEF TypeOK, RowsOK, MatchRows
    <2>2. SideOK' /\ TaskOK'
      BY <1>10, GenReplacesType
      DEF RegenerateRound, TypeOK, GenLabels
    <2> QED BY <1>10, <2>1, <2>2 DEF RegenerateRound, TypeOK, SessionOK, DbOK, SavedOK, WaitingOK, BudgetOK
  <1>11. CASE HostCancelPreview
    <2>1. SessionOK'
      BY <1>11, Bounds
      DEF HostCancelPreview, TypeOK, SessionOK, Sessions
    <2>2. RowsOK'
      BY <1>11, SetRowsType
      DEF HostCancelPreview, TypeOK, RowsOK, MatchStatus
    <2> QED BY <1>11, <2>1, <2>2 DEF HostCancelPreview, TypeOK, DbOK, SavedOK, TaskOK, WaitingOK, SideOK, BudgetOK
  <1>12. CASE HostSwapMatch
    <2>1. SessionOK'
      BY <1>12, Bounds
      DEF HostSwapMatch, TypeOK, SessionOK, Sessions
    <2>2. RowsOK' /\ TaskOK'
      BY <1>12, ReplansAfterType
      DEF HostSwapMatch, TypeOK, RowsOK, TaskOK
    <2> QED BY <1>12, <2>1, <2>2 DEF HostSwapMatch, TypeOK, DbOK, SavedOK, WaitingOK, SideOK, BudgetOK
  <1>13. CASE HostExcludeFromRound
    <2>1. RowsOK' /\ TaskOK'
      BY <1>13, ReplansAfterType, SetRowsType
      DEF HostExcludeFromRound, TypeOK, RowsOK, MatchStatus
    <2>2. SideOK'
      BY <1>13, SideLosingType
      DEF HostExcludeFromRound, TypeOK, SideOK
    <2> QED BY <1>13, <2>1, <2>2 DEF HostExcludeFromRound, TypeOK, SessionOK, DbOK, SavedOK, WaitingOK, BudgetOK
  <1> QED BY <1>1, <1>2, <1>3, <1>4, <1>5, <1>6, <1>7, <1>8, <1>9, <1>10, <1>11, <1>12, <1>13 DEF PreviewStep

\* A failure keeps the types.
LEMMA FailureType == ASSUME TypeOK, Failure PROVE TypeOK'
  <1>1. CASE Throw
    <2>1. TaskOK' /\ SideOK'
      BY <1>1, GotoType, ReturnType
      DEF Throw, TypeOK, SideOK, Labels
    <2>2. BudgetOK'
      BY <1>1, BudgetAssumption
      DEF Throw, TypeOK, BudgetOK
    <2> QED BY <1>1, <2>1, <2>2 DEF Throw, TypeOK, SessionOK, DbOK, RowsOK, SavedOK, WaitingOK
  <1>2. CASE Flush
    <2>1. SavedOK'
      BY <1>2, SnapshotType
      DEF Flush, TypeOK, SavedOK, Copies, SessionOK
    <2> QED BY <1>2, <2>1 DEF Flush, TypeOK, SessionOK, DbOK, RowsOK, TaskOK, WaitingOK, SideOK, BudgetOK
  <1>3. CASE RestartFromRedis
    <2>1. SessionOK'
      BY <1>3, RecoveredType, RearmedType
      DEF RestartFromRedis, TypeOK, SessionOK, SavedOK, Copies
    <2>2. TaskOK' /\ WaitingOK' /\ SideOK' /\ SavedOK' /\ BudgetOK' /\ DbOK' /\ RowsOK'
      BY <1>3, DieType
      DEF RestartFromRedis, TypeOK
    <2> QED BY <1>3, <2>1, <2>2 DEF RestartFromRedis, TypeOK
  <1>4. CASE RestartFromDb
    <2>1. SessionOK'
      BY <1>4, RecoveredType, RearmedType, Bounds
      DEF RestartFromDb, TypeOK, SessionOK, SavedOK, Copies, DbOK, Snapshots
    <2>2. TaskOK' /\ WaitingOK' /\ SideOK' /\ SavedOK' /\ BudgetOK' /\ DbOK' /\ RowsOK'
      BY <1>4, DieType
      DEF RestartFromDb, TypeOK
    <2> QED BY <1>4, <2>1, <2>2 DEF RestartFromDb, TypeOK
  <1>5. CASE RestartWithout
    <2>1. SessionOK'
      BY <1>5, Bounds
      DEF RestartWithout, TypeOK, SessionOK, Sessions, Timers
    <2>2. TaskOK' /\ WaitingOK' /\ SideOK' /\ SavedOK' /\ BudgetOK' /\ DbOK' /\ RowsOK'
      BY <1>5, DieType
      DEF RestartWithout, TypeOK
    <2> QED BY <1>5, <2>1, <2>2 DEF RestartWithout, TypeOK
  <1>6. CASE JoinRecover
    <2>1. SessionOK'
      BY <1>6, RecoveredType, Bounds
      DEF JoinRecover, TypeOK, SessionOK, DbOK, Snapshots
    <2> QED BY <1>6, <2>1 DEF JoinRecover, TypeOK, DbOK, RowsOK, SavedOK, TaskOK, WaitingOK, SideOK, BudgetOK
  <1> QED BY <1>1, <1>2, <1>3, <1>4, <1>5, <1>6 DEF Failure

\* Every variable keeps its type for every size of the event.
THEOREM TypeCorrect == Spec => []TypeOK
  <1>1. Init => TypeOK
    BY FreeType, NoSideType, Bounds, RoundAssumption, BudgetAssumption
    DEF Init, TypeOK, SessionOK, Sessions, DbOK, RowsOK, MatchRows, SavedOK, Copies,
        TaskOK, WaitingOK, SideOK, BudgetOK, SessionStatus, MatchStatus, Timers, Rounds
  <1>2. TypeOK /\ [Next]_vars => TypeOK'
    <2> SUFFICES ASSUME TypeOK, [Next]_vars PROVE TypeOK'
      OBVIOUS
    <2>1. CASE UNCHANGED vars
      BY <2>1 DEF vars, TypeOK, SessionOK, DbOK, RowsOK, SavedOK, TaskOK, WaitingOK, SideOK, BudgetOK
    <2>2. CASE Next
      BY <2>2, GuardStepType, SchedulingType, GuardedRequestType, UnguardedType, PreviewStepType, FailureType
      DEF Next
    <2> QED BY <2>1, <2>2
  <1> QED BY <1>1, <1>2, PTL DEF Spec

-----------------------------------------------------------------------------
(* The end of an event: one recap, and a row that stays completed *)

\* A step that neither writes the row's status, nor mails, nor goes to one
\* of the two awaits the invariant is about.
Quiet ==
  /\ db'.status = db.status /\ db'.recaps = db.recaps
  /\ task'.pc \in {"statusWrite", "wipe"} => task'.pc = task.pc
  /\ side'.completer = side.completer
  /\ side'.gen \in {"reopenRead", "reopenWrite"} => side'.gen = side.gen

\* A quiet step preserves the invariant.
LEMMA QuietStep == ASSUME CompletionInv, Quiet PROVE CompletionInv'
  BY DEF CompletionInv, Quiet, At

\* A handler that returns leaves both awaits, and can only give the
\* generation lock back.
LEMMA ReturnQuiet ==
  ASSUME TypeOK, Return
  PROVE  /\ task'.pc \notin {"statusWrite", "wipe"}
         /\ side'.completer = side.completer
         /\ side'.gen \in {side.gen, "idle"}
  BY DEF Return, ReturnTask, Released, Free, TypeOK, TaskOK, Tasks, SideOK, Sides

\* A callback that asks for the guard does not go to either await.
LEMMA RequestQuiet ==
  ASSUME TypeOK, NEW kind \in QueuedKinds, NEW r, Request(kind, r)
  PROVE  task'.pc \in {"statusWrite", "wipe"} => task'.pc = task.pc
  BY DEF Request, Begin, Free, QueuedKinds, Callbacks

\* Neither does the one that heads the queue.
LEMMA DispatchQuiet ==
  ASSUME TypeOK, Dispatch
  PROVE  task'.pc \notin {"statusWrite", "wipe"}
  <1>1. Head(waiting) \in Queued
    BY DEF TypeOK, WaitingOK, Dispatch
  <1>2. Head(waiting).kind \in QueuedKinds
    BY <1>1 DEF Queued
  <1> QED BY <1>2 DEF Dispatch, Begin, Free, QueuedKinds, Callbacks

\* The handlers under the guard, but for the four steps that write the row
\* or read it.
LEMMA GuardQuiet ==
  ASSUME TypeOK, GuardStep, ~StatusRead, ~StatusWrite, ~Claim, ~Wipe
  PROVE  Quiet
  <1>1. CASE GoLive
    BY <1>1, ReturnQuiet
    DEF GoLive, Quiet, TypeOK, TaskOK, Tasks, SideOK, Sides, DbOK, Goto
  <1>2. CASE Plan
    BY <1>2, ReturnQuiet
    DEF Plan, Quiet, TypeOK, TaskOK, Tasks, SideOK, Sides, DbOK
  <1>3. CASE StartRoundRefused
    BY <1>3, ReturnQuiet
    DEF StartRoundRefused, Quiet, TypeOK, TaskOK, Tasks, SideOK, Sides, DbOK
  <1>4. CASE StartRound
    BY <1>4
    DEF StartRound, Quiet, TypeOK, TaskOK, Tasks, SideOK, Sides, DbOK
  <1>5. CASE ConfirmRound
    BY <1>5, ReturnQuiet
    DEF ConfirmRound, Quiet, TypeOK, TaskOK, Tasks, SideOK, Sides, DbOK
  <1>6. CASE RoundRefused
    BY <1>6, ReturnQuiet
    DEF RoundRefused, Quiet, TypeOK, TaskOK, Tasks, SideOK, Sides, DbOK
  <1>7. CASE LoadRound
    BY <1>7, ReturnQuiet
    DEF LoadRound, Quiet, TypeOK, TaskOK, Tasks, SideOK, Sides, DbOK
  <1>8. CASE CreateRooms
    BY <1>8, ReturnQuiet
    DEF CreateRooms, Quiet, TypeOK, TaskOK, Tasks, SideOK, Sides, DbOK, Goto
  <1>9. CASE Activate
    BY <1>9
    DEF Activate, Quiet, TypeOK, TaskOK, Tasks, SideOK, Sides, DbOK, Goto
  <1>10. CASE Flip
    BY <1>10
    DEF Flip, Quiet, TypeOK, TaskOK, Tasks, SideOK, Sides, DbOK, UpdateStatus
  <1>11. CASE RoundSave
    BY <1>11
    DEF RoundSave, Quiet, TypeOK, TaskOK, Tasks, SideOK, Sides, DbOK, Goto
  <1>12. CASE RoundArm
    BY <1>12, ReturnQuiet
    DEF RoundArm, Quiet, TypeOK, TaskOK, Tasks, SideOK, Sides, DbOK, Released, ReturnTask, Free
  <1>13. CASE EndRound
    BY <1>13, ReturnQuiet
    DEF EndRound, Quiet, TypeOK, TaskOK, Tasks, SideOK, Sides, DbOK, Goto
  <1>14. CASE RateFlip
    BY <1>14, ReturnQuiet
    DEF RateFlip, Quiet, TypeOK, TaskOK, Tasks, SideOK, Sides, DbOK, UpdateStatus
  <1>15. CASE RateSave
    BY <1>15
    DEF RateSave, Quiet, TypeOK, TaskOK, Tasks, SideOK, Sides, DbOK, Goto
  <1>16. CASE RateArm
    BY <1>16, ReturnQuiet
    DEF RateArm, Quiet, TypeOK, TaskOK, Tasks, SideOK, Sides, DbOK
  <1>17. CASE EndRatingWindow
    BY <1>17, ReturnQuiet
    DEF EndRatingWindow, Quiet, TypeOK, TaskOK, Tasks, SideOK, Sides, DbOK, Goto
  <1>18. CASE CloseDecide
    BY <1>18, ReturnQuiet
    DEF CloseDecide, Quiet, TypeOK, TaskOK, Tasks, SideOK, Sides, DbOK, Goto, UpdateStatus
  <1>19. CASE CloseSave
    BY <1>19, ReturnQuiet
    DEF CloseSave, Quiet, TypeOK, TaskOK, Tasks, SideOK, Sides, DbOK
  <1>20. CASE CompleteSession
    BY <1>20, ReturnQuiet
    DEF CompleteSession, Quiet, TypeOK, TaskOK, Tasks, SideOK, Sides, DbOK, Goto
  <1>21. CASE Drop
    BY <1>21, ReturnQuiet
    DEF Drop, Quiet, TypeOK, TaskOK, Tasks, SideOK, Sides, DbOK
  <1>22. CASE AutoEnd
    BY <1>22, ReturnQuiet
    DEF AutoEnd, Quiet, TypeOK, TaskOK, Tasks, SideOK, Sides, DbOK, Begin, Free
  <1>23. CASE OtherDone
    BY <1>23, ReturnQuiet
    DEF OtherDone, Quiet, TypeOK, TaskOK, Tasks, SideOK, Sides, DbOK
  <1> QED BY <1>1, <1>2, <1>3, <1>4, <1>5, <1>6, <1>7, <1>8, <1>9, <1>10, <1>11, <1>12, <1>13, <1>14,
             <1>15, <1>16, <1>17, <1>18, <1>19, <1>20, <1>21, <1>22, <1>23 DEF GuardStep

\* The timer and the queue.
LEMMA SchedulingQuiet ==
  ASSUME TypeOK, TimerFire \/ Dispatch
  PROVE  Quiet
  <1>1. CASE TimerFire
    BY <1>1, RequestQuiet, FiredKindType
    DEF TimerFire, Quiet, TypeOK, TaskOK, Tasks, SideOK, Sides, DbOK, SessionOK
  <1>2. CASE Dispatch
    BY <1>2, DispatchQuiet
    DEF Dispatch, Quiet, TypeOK, TaskOK, Tasks, SideOK, Sides, DbOK
  <1> QED BY <1>1, <1>2

\* The requests that take the guard.
LEMMA RequestsQuiet ==
  ASSUME TypeOK, GuardedRequest
  PROVE  Quiet
  <1>1. CASE HostStart
    BY <1>1
    DEF HostStart, Quiet, TypeOK, TaskOK, Tasks, SideOK, Sides, DbOK, Free
  <1>2. CASE HostStartRound
    BY <1>2
    DEF HostStartRound, Quiet, TypeOK, TaskOK, Tasks, SideOK, Sides, DbOK, Begin, Free
  <1>3. CASE HostConfirmRound
    BY <1>3, RequestQuiet
    DEF HostConfirmRound, Quiet, TypeOK, TaskOK, Tasks, SideOK, Sides, DbOK, QueuedKinds
  <1>4. CASE HostEnd
    BY <1>4
    DEF HostEnd, Quiet, TypeOK, TaskOK, Tasks, SideOK, Sides, DbOK, Begin, Free
  <1>5. CASE HostForceCloseRating
    BY <1>5
    DEF HostForceCloseRating, Quiet, TypeOK, TaskOK, Tasks, SideOK, Sides, DbOK, Begin, Free
  <1>6. CASE HostPause
    BY <1>6
    DEF HostPause, Quiet, TypeOK, TaskOK, Tasks, SideOK, Sides, DbOK
  <1>7. CASE HostResume
    BY <1>7
    DEF HostResume, Quiet, TypeOK, TaskOK, Tasks, SideOK, Sides, DbOK
  <1>8. CASE HostExtendRound
    BY <1>8
    DEF HostExtendRound, Quiet, TypeOK, TaskOK, Tasks, SideOK, Sides, DbOK
  <1>9. CASE LeaveConversation
    BY <1>9
    DEF LeaveConversation, Quiet, TypeOK, TaskOK, Tasks, SideOK, Sides, DbOK
  <1>10. CASE OtherHold
    BY <1>10
    DEF OtherHold, Quiet, TypeOK, TaskOK, Tasks, SideOK, Sides, DbOK, Begin, Free
  <1>11. CASE RatingsComplete
    BY <1>11
    DEF RatingsComplete, Quiet, TypeOK, TaskOK, Tasks, SideOK, Sides, DbOK
  <1> QED BY <1>1, <1>2, <1>3, <1>4, <1>5, <1>6, <1>7, <1>8, <1>9, <1>10, <1>11 DEF GuardedRequest

\* Without endSession, what runs beside the guard completes nothing.
LEMMA UnguardedQuiet ==
  ASSUME TypeOK, CompletionInv, GuardsCompletion, Unguarded
  PROVE  Quiet
  <1>1. CASE RestEnd
    BY <1>1
    DEF RestEnd, Quiet, TypeOK, TaskOK, Tasks, SideOK, Sides, DbOK, GuardsCompletion
  <1>2. CASE RestClaim
    BY <1>2
    DEF RestClaim, Quiet, TypeOK, TaskOK, Tasks, SideOK, Sides, DbOK, CompletionInv
  <1>3. CASE RestWipe
    BY <1>3
    DEF RestWipe, Quiet, TypeOK, TaskOK, Tasks, SideOK, Sides, DbOK, CompletionInv
  <1>4. CASE RestDrop
    BY <1>4
    DEF RestDrop, Quiet, TypeOK, TaskOK, Tasks, SideOK, Sides, DbOK, CompletionInv
  <1>5. CASE RestPause
    BY <1>5
    DEF RestPause, Quiet, TypeOK, TaskOK, Tasks, SideOK, Sides, DbOK
  <1>6. CASE RestResume
    BY <1>6
    DEF RestResume, Quiet, TypeOK, TaskOK, Tasks, SideOK, Sides, DbOK
  <1>7. CASE SkipCheck
    BY <1>7
    DEF SkipCheck, Quiet, TypeOK, TaskOK, Tasks, SideOK, Sides, DbOK
  <1>8. CASE SkipGrace
    BY <1>8
    DEF SkipGrace, Quiet, TypeOK, TaskOK, Tasks, SideOK, Sides, DbOK
  <1>9. CASE NoShowScan
    BY <1>9
    DEF NoShowScan, Quiet, TypeOK, TaskOK, Tasks, SideOK, Sides, DbOK
  <1>10. CASE NoShowMark
    BY <1>10
    DEF NoShowMark, Quiet, TypeOK, TaskOK, Tasks, SideOK, Sides, DbOK
  <1>11. CASE NoShowDone
    BY <1>11, RequestQuiet
    DEF NoShowDone, Quiet, TypeOK, TaskOK, Tasks, SideOK, Sides, DbOK, QueuedKinds
  <1> QED BY <1>1, <1>2, <1>3, <1>4, <1>5, <1>6, <1>7, <1>8, <1>9, <1>10, <1>11 DEF Unguarded

\* Without Another Round, the preview writes no status.
LEMMA PreviewQuiet ==
  ASSUME TypeOK, CompletionInv, GuardsCompletion, PreviewStep
  PROVE  Quiet
  <1>1. CASE HostGenerateMatches
    BY <1>1
    DEF HostGenerateMatches, Quiet, TypeOK, TaskOK, Tasks, SideOK, Sides, DbOK, GuardsCompletion, GenGoto
  <1>2. CASE ReopenRead
    BY <1>2
    DEF ReopenRead, Quiet, TypeOK, TaskOK, Tasks, SideOK, Sides, DbOK, CompletionInv
  <1>3. CASE ReopenWrite
    BY <1>3
    DEF ReopenWrite, Quiet, TypeOK, TaskOK, Tasks, SideOK, Sides, DbOK, CompletionInv
  <1>4. CASE ChooseRound
    BY <1>4
    DEF ChooseRound, Quiet, TypeOK, TaskOK, Tasks, SideOK, Sides, DbOK, GenGoto
  <1>5. CASE SurfacePlan
    BY <1>5
    DEF SurfacePlan, Quiet, TypeOK, TaskOK, Tasks, SideOK, Sides, DbOK, GenGoto
  <1>6. CASE DeletePlan
    BY <1>6
    DEF DeletePlan, Quiet, TypeOK, TaskOK, Tasks, SideOK, Sides, DbOK, GenReplaces, SideLosing, TaskLosing
  <1>7. CASE GeneratePlan
    BY <1>7
    DEF GeneratePlan, Quiet, TypeOK, TaskOK, Tasks, SideOK, Sides, DbOK, GenReplaces, SideLosing,
        TaskLosing
  <1>8. CASE Replan
    BY <1>8
    DEF Replan, Quiet, TypeOK, TaskOK, Tasks, SideOK, Sides, DbOK, GenGoto, ReplansAfter
  <1>9. CASE HostRegenerateMatches
    BY <1>9
    DEF HostRegenerateMatches, Quiet, TypeOK, TaskOK, Tasks, SideOK, Sides, DbOK
  <1>10. CASE RegenerateRound
    BY <1>10
    DEF RegenerateRound, Quiet, TypeOK, TaskOK, Tasks, SideOK, Sides, DbOK, GenReplaces, SideLosing,
        TaskLosing
  <1>11. CASE HostCancelPreview
    BY <1>11
    DEF HostCancelPreview, Quiet, TypeOK, TaskOK, Tasks, SideOK, Sides, DbOK
  <1>12. CASE HostSwapMatch
    BY <1>12
    DEF HostSwapMatch, Quiet, TypeOK, TaskOK, Tasks, SideOK, Sides, DbOK, ReplansAfter
  <1>13. CASE HostExcludeFromRound
    BY <1>13
    DEF HostExcludeFromRound, Quiet, TypeOK, TaskOK, Tasks, SideOK, Sides, DbOK, ReplansAfter, SideLosing
  <1> QED BY <1>1, <1>2, <1>3, <1>4, <1>5, <1>6, <1>7, <1>8, <1>9, <1>10, <1>11, <1>12,
             <1>13 DEF PreviewStep

\* An await that fails, or a restart.
LEMMA FailureQuiet ==
  ASSUME TypeOK, CompletionInv, Failure
  PROVE  Quiet
  <1>1. CASE Throw
    BY <1>1, ReturnQuiet
    DEF Throw, Quiet, TypeOK, TaskOK, Tasks, SideOK, Sides, DbOK, Goto
  <1>2. CASE Flush
    BY <1>2
    DEF Flush, Quiet, TypeOK, TaskOK, Tasks, SideOK, Sides, DbOK
  <1>3. CASE RestartFromRedis
    BY <1>3
    DEF RestartFromRedis, Quiet, TypeOK, TaskOK, Tasks, SideOK, Sides, DbOK, Die, Free, NoSide,
        CompletionInv
  <1>4. CASE RestartFromDb
    BY <1>4
    DEF RestartFromDb, Quiet, TypeOK, TaskOK, Tasks, SideOK, Sides, DbOK, Die, Free, NoSide, CompletionInv
  <1>5. CASE RestartWithout
    BY <1>5
    DEF RestartWithout, Quiet, TypeOK, TaskOK, Tasks, SideOK, Sides, DbOK, Die, Free, NoSide,
        CompletionInv
  <1>6. CASE JoinRecover
    BY <1>6
    DEF JoinRecover, Quiet, TypeOK, TaskOK, Tasks, SideOK, Sides, DbOK
  <1> QED BY <1>1, <1>2, <1>3, <1>4, <1>5, <1>6 DEF Failure

\* The four steps: the status is written when the row was just read and not
\* completed, and the recap follows a claim that took the row.
LEMMA WritersKeep ==
  ASSUME TypeOK, CompletionInv, StatusRead \/ StatusWrite \/ Claim \/ Wipe
  PROVE  CompletionInv'
  <1>1. CASE StatusRead
    BY <1>1 DEF StatusRead, CompletionInv, At, Goto, AfterUpdate, TypeOK, TaskOK, Tasks
  <1>2. CASE StatusWrite
    BY <1>2 DEF StatusWrite, CompletionInv, At, Goto, AfterUpdate, TypeOK, TaskOK, Tasks, DbOK
  <1>3. CASE Claim
    <2>1. CASE ClaimLost
      <3>1. Return /\ db' = DbClaimed
        BY <1>3, <2>1 DEF Claim
      <3> QED BY <3>1, <2>1, ReturnQuiet
              DEF ClaimLost, DbClaimed, CompletionInv, At, TypeOK, DbOK
    <2>2. CASE ~ClaimLost
      <3>1. task' = [task EXCEPT !.pc = "wipe"] /\ side' = side /\ db' = DbClaimed
        BY <1>3, <2>2 DEF Claim, Goto
      <3> QED BY <3>1, <2>2
              DEF ClaimLost, DbClaimed, CompletionInv, At, TypeOK, TaskOK, Tasks, DbOK
    <2> QED BY <2>1, <2>2
  <1>4. CASE Wipe
    BY <1>4 DEF Wipe, DbWiped, CompletionInv, At, Goto, TypeOK, TaskOK, Tasks, DbOK
  <1> QED BY <1>1, <1>2, <1>3, <1>4

\* The invariant holds at first and every step keeps it.
LEMMA CompletionInductive ==
  /\ Init => CompletionInv
  /\ TypeOK /\ CompletionInv /\ GuardsCompletion /\ [Next]_vars => CompletionInv'
  <1>1. Init => CompletionInv
    BY DEF Init, CompletionInv, NoSide, Free, At
  <1>2. ASSUME TypeOK, CompletionInv, GuardsCompletion, [Next]_vars PROVE CompletionInv'
    <2>1. CASE UNCHANGED vars
      BY <1>2, <2>1 DEF vars, CompletionInv, At
    <2>2. CASE StatusRead \/ StatusWrite \/ Claim \/ Wipe
      BY <1>2, <2>2, WritersKeep
    <2>3. CASE Next /\ ~(StatusRead \/ StatusWrite \/ Claim \/ Wipe)
      BY <1>2, <2>3, QuietStep, GuardQuiet, SchedulingQuiet, RequestsQuiet,
         UnguardedQuiet, PreviewQuiet, FailureQuiet
      DEF Next
    <2> QED BY <1>2, <2>1, <2>2, <2>3
  <1> QED BY <1>1, <1>2

\* The invariant holds throughout.
THEOREM CompletionCorrect == GuardsCompletion /\ Spec => []CompletionInv
  <1> SUFFICES ASSUME GuardsCompletion PROVE Spec => []CompletionInv
    OBVIOUS
  <1>1. Init => CompletionInv
    BY CompletionInductive
  <1>2. TypeOK /\ CompletionInv /\ [Next]_vars => CompletionInv'
    BY CompletionInductive
  <1> QED BY <1>1, <1>2, TypeCorrect, PTL DEF Spec

\* No event mails its recap twice, whatever throws, crashes, pauses or is
\* played, when completeSession runs under the guard only.
THEOREM RecapSentOnce == GuardsCompletion /\ Spec => []OneRecap
  <1>1. CompletionInv => OneRecap
    BY DEF CompletionInv, OneRecap
  <1> QED BY <1>1, CompletionCorrect, PTL

\* And no later status write lands on the row of a completed event.
THEOREM CompletedForGood == GuardsCompletion /\ Spec => TerminalIsFinal
  <1> SUFFICES ASSUME GuardsCompletion PROVE Spec => TerminalIsFinal
    OBVIOUS
  <1>1. TypeOK /\ CompletionInv /\ [Next]_vars =>
          [db.status = "completed" => db'.status = "completed"]_vars
    <2> SUFFICES ASSUME TypeOK, CompletionInv, Next, db.status = "completed"
                 PROVE  db'.status = "completed"
      BY DEF vars
    <2>1. CASE StatusRead
      BY <2>1 DEF StatusRead
    <2>2. CASE StatusWrite
      BY <2>2 DEF StatusWrite, CompletionInv
    <2>3. CASE Claim
      BY <2>3 DEF Claim, DbClaimed, TypeOK, DbOK
    <2>4. CASE Wipe
      BY <2>4 DEF Wipe, DbWiped, TypeOK, DbOK
    <2>5. CASE Next /\ ~(StatusRead \/ StatusWrite \/ Claim \/ Wipe)
      BY <2>5, GuardQuiet, SchedulingQuiet, RequestsQuiet, UnguardedQuiet,
         PreviewQuiet, FailureQuiet
      DEF Next, Quiet
    <2> QED BY <2>1, <2>2, <2>3, <2>4, <2>5
  <1> QED BY <1>1, TypeCorrect, CompletionCorrect, PTL DEF Spec, TerminalIsFinal

-----------------------------------------------------------------------------
(* Under the generation lock: a re-match deletes no running conversation *)

\* Where every round is started by a confirmation: nobody presses Start Round,
\* and no timer does, for nothing is paused in a transition; a round being set
\* up then has the generation lock, which a re-match needs.  Whatever else the
\* host and the participants do stays; a restart, which forgets the lock, does not.
LockedStarts == Env \cap {"startRound", "pause", "restPause", "crash"} = {}

\* The labels of a round being set up, before its rows are active and it is shown.
StartPcs == {"transitionToRound", "createRooms", "activate", "flip"}

\* The guard's holder sets up a round only for a confirmation, which has the lock.
LockTask ==
  /\ ~mem.leftover /\ mem.timer # "transitionToRound"
  /\ task.op \notin {"startRound", "closeThenStart"} /\ task.pc # "startRound"
  /\ task.pc \in StartPcs \cup {"confirm"} => task.op = "confirm"
  /\ task.op = "confirm" => side.gen = "confirm"

\* So does the one confirmation that waits, and no timer waits to start a round.
LockQueue ==
  /\ \A i \in DOMAIN waiting :
       /\ waiting[i].kind # "transitionToRound"
       /\ waiting[i].kind = "confirm" => side.gen = "confirm" /\ task.op # "confirm"
  /\ \A i, j \in DOMAIN waiting : waiting[i].kind = "confirm" /\ waiting[j].kind = "confirm" => i = j

\* A re-match that is about to delete its round found nobody talking in it.
LockRows ==
  side.gen = "rematch" => side.genRound \in Rounds /\ RowsIn(side.genRound, {"active"}) = {}

\* A handler that returns frees the guard: no second half of Start Round follows.
LEMMA ReturnFrees ==
  ASSUME LockTask, Return
  PROVE  /\ task' = Free
         /\ side' = IF task.op = "confirm" THEN [side EXCEPT !.gen = "idle"] ELSE side
  BY DEF LockTask, Return, ReturnTask, Released

\* A handler that returns keeps the lock's account.
LEMMA ReturnLock ==
  ASSUME TypeOK, LockTask, LockQueue, Return, waiting' = waiting,
         ~mem'.leftover, mem'.timer # "transitionToRound"
  PROVE  LockTask' /\ LockQueue'
  BY ReturnFrees DEF Free, LockTask, LockQueue, StartPcs, TypeOK, TaskOK, Tasks, SideOK, Sides

\* A handler that goes on with its own request.
LEMMA GoOnLock ==
  ASSUME LockTask, LockQueue, waiting' = waiting, side'.gen = side.gen, task'.op = task.op,
         task'.pc \notin {"startRound", "confirm"},
         task'.pc \in StartPcs => task.op = "confirm",
         ~mem'.leftover, mem'.timer # "transitionToRound"
  PROVE  LockTask' /\ LockQueue'
  BY DEF LockTask, LockQueue, StartPcs

\* Every step of the guard's holder keeps it.
LEMMA GuardStepLock ==
  ASSUME TypeOK, LockedStarts, LockTask, LockQueue, GuardStep
  PROVE  LockTask' /\ LockQueue'
  <1>1. CASE ConfirmRound
    <2>1. task.pc = "confirm" /\ waiting' = waiting /\ task.op = "confirm"
      BY <1>1 DEF ConfirmRound, At, LockTask
    <2>2. ~mem'.leftover /\ mem'.timer # "transitionToRound"
      BY <1>1 DEF ConfirmRound, Cleared, LockTask, TypeOK, SessionOK, Sessions
    <2>3. CASE Return
      BY <2>1, <2>2, <2>3, ReturnLock
    <2>4. CASE ~Return
      <3>1. side' = side /\ task'.pc = "transitionToRound" /\ task'.op = task.op
        BY <1>1, <2>4 DEF ConfirmRound, TypeOK, TaskOK, Tasks
      <3> QED BY <2>1, <2>2, <3>1, GoOnLock
    <2> QED BY <2>3, <2>4
  <1>2. CASE RoundArm
    <2>1. ~mem'.leftover /\ mem'.timer # "transitionToRound" /\ waiting' = waiting
      BY <1>2 DEF RoundArm, Armed, Confirmed, LockTask, TypeOK, SessionOK, Sessions
    <2>2. task' = Free
      BY <1>2 DEF RoundArm, ReturnTask, LockTask
    <2>3. side'.gen = IF task.op = "confirm" THEN "idle" ELSE side.gen
      <3>1. PICK s : s = [side EXCEPT !.noShowDue = IF "noShow" \in Env THEN task.arg ELSE 0]
        OBVIOUS
      <3>3. side' = IF task.op = "confirm" THEN [s EXCEPT !.gen = "idle"] ELSE s
        BY <1>2, <3>1 DEF RoundArm, Released
      <3> QED BY <3>1, <3>3 DEF TypeOK, SideOK, Sides
    <2> QED BY <2>1, <2>2, <2>3 DEF LockTask, LockQueue, StartPcs, Free
  <1>3. CASE EndRound
    <2>1. CASE Return
      BY <1>3, <2>1, ReturnLock DEF EndRound, LockTask
    <2>2. CASE ~Return
      <3>1. Goto("rateFlip") /\ UNCHANGED <<mem, waiting, side>>
        BY <1>3, <2>2 DEF EndRound
      <3> QED BY <3>1, GoOnLock DEF Goto, LockTask, StartPcs, TypeOK, TaskOK, Tasks
    <2> QED BY <2>1, <2>2
  <1>4. CASE RateFlip
    <2>1. CASE Return
      BY <1>4, <2>1, ReturnLock DEF RateFlip, LockTask, TypeOK, SessionOK, Sessions
    <2>2. CASE ~Return
      <3>1. /\ mem' = [mem EXCEPT !.status = "round_rating"] /\ UpdateStatus("round_rating")
            /\ UNCHANGED <<waiting, side>>
        BY <1>4, <2>2 DEF RateFlip
      <3>2. task'.op = task.op /\ task'.pc = "statusRead"
        BY <3>1 DEF UpdateStatus, TypeOK, TaskOK, Tasks
      <3>3. ~mem'.leftover /\ mem'.timer # "transitionToRound"
        BY <3>1 DEF LockTask, TypeOK, SessionOK, Sessions
      <3> QED BY <3>1, <3>2, <3>3, GoOnLock DEF StartPcs
    <2> QED BY <2>1, <2>2
  <1>5. CASE CloseDecide
    <2>1. ~mem'.leftover /\ mem'.timer # "transitionToRound" /\ waiting' = waiting
      BY <1>5 DEF CloseDecide, LockTask, TypeOK, SessionOK, Sessions
    <2>2. CASE Return
      BY <2>1, <2>2, ReturnLock
    <2>3. CASE ~Return
      <3>1. side' = side /\ (Goto("completeSession") \/ \E s : UpdateStatus(s))
        BY <1>5, <2>3 DEF CloseDecide
      <3>2. task'.op = task.op /\ task'.pc \in {"completeSession", "statusRead"}
        BY <3>1 DEF Goto, UpdateStatus, TypeOK, TaskOK, Tasks
      <3> QED BY <2>1, <3>1, <3>2, GoOnLock DEF StartPcs
    <2> QED BY <2>2, <2>3
  <1>6. CASE AutoEnd
    <2>1. CASE Return
      BY <1>6, <2>1, ReturnLock DEF AutoEnd, LockTask
    <2>2. CASE ~Return
      <3>1. Begin("endRound", "timer", mem.round) /\ UNCHANGED <<mem, waiting, side>>
        BY <1>6, <2>2 DEF AutoEnd
      <3>2. task'.op = "timer" /\ task'.pc = "endRound"
        BY <3>1 DEF Begin, Free
      <3> QED BY <3>1, <3>2 DEF LockTask, LockQueue, StartPcs
    <2> QED BY <2>1, <2>2
  <1> USE DEF Free, At, Idle, LockTask, LockQueue, StartPcs, TypeOK, SessionOK, Sessions, TaskOK,
              Tasks, SideOK, Sides
  <1>7. CASE StatusRead
    BY <1>7, ReturnLock, GoOnLock DEF StatusRead, Goto, AfterUpdate
  <1>8. CASE StatusWrite
    BY <1>8, ReturnLock, GoOnLock DEF StatusWrite, Goto, AfterUpdate
  <1>9. CASE GoLive
    BY <1>9, ReturnLock, GoOnLock DEF GoLive, Goto, NewSession
  <1>10. CASE Plan
    BY <1>10, ReturnLock, GoOnLock DEF Plan
  <1>11. CASE StartRoundRefused
    BY <1>11, ReturnLock, GoOnLock DEF StartRoundRefused
  <1>12. CASE StartRound
    BY <1>12, ReturnLock, GoOnLock DEF StartRound, Cleared
  <1>13. CASE RoundRefused
    BY <1>13, ReturnLock, GoOnLock DEF RoundRefused, Confirmed
  <1>14. CASE LoadRound
    BY <1>14, ReturnLock, GoOnLock DEF LoadRound
  <1>15. CASE CreateRooms
    BY <1>15, ReturnLock, GoOnLock DEF CreateRooms, Goto
  <1>16. CASE Activate
    BY <1>16, ReturnLock, GoOnLock DEF Activate, Goto
  <1>17. CASE Flip
    BY <1>17, ReturnLock, GoOnLock DEF Flip, UpdateStatus
  <1>18. CASE RoundSave
    BY <1>18, ReturnLock, GoOnLock DEF RoundSave, Goto
  <1>19. CASE RateSave
    BY <1>19, ReturnLock, GoOnLock DEF RateSave, Goto
  <1>20. CASE RateArm
    BY <1>20, ReturnLock, GoOnLock DEF RateArm, Armed
  <1>21. CASE EndRatingWindow
    BY <1>21, ReturnLock, GoOnLock DEF EndRatingWindow, Goto, Cleared
  <1>22. CASE CloseSave
    BY <1>22, ReturnLock, GoOnLock DEF CloseSave, WithPhaseTimer, Armed
  <1>23. CASE CompleteSession
    BY <1>23, ReturnLock, GoOnLock DEF CompleteSession, Goto, MemCompleting
  <1>24. CASE Claim
    BY <1>24, ReturnLock, GoOnLock DEF Claim, Goto, MemClaimed
  <1>25. CASE Wipe
    BY <1>25, ReturnLock, GoOnLock DEF Wipe, Goto
  <1>26. CASE Drop
    BY <1>26, ReturnLock, GoOnLock DEF Drop, MemDropped
  <1>27. CASE OtherDone
    BY <1>27, ReturnLock, GoOnLock DEF OtherDone
  <1> QED BY <1>1, <1>2, <1>3, <1>4, <1>5, <1>6, <1>7, <1>8, <1>9, <1>10, <1>11, <1>12, <1>13,
            <1>14, <1>15, <1>16, <1>17, <1>18, <1>19, <1>20, <1>21, <1>22, <1>23, <1>24, <1>25,
            <1>26, <1>27 DEF GuardStep

\* A free guard that takes a request which is no confirmation.
LEMMA TakenLock ==
  ASSUME TypeOK, LockTask, LockQueue, Idle, waiting' = waiting, side'.gen = side.gen,
         task'.op \in {"start", "restStart", "host", "timer"},
         task'.pc \notin StartPcs \cup {"startRound", "confirm"},
         ~mem'.leftover, mem'.timer # "transitionToRound"
  PROVE  LockTask' /\ LockQueue'
  BY DEF LockTask, LockQueue, StartPcs

\* A callback that asks for the guard.
LEMMA RequestLock ==
  ASSUME TypeOK, LockTask, LockQueue, side'.gen = side.gen,
         NEW kind \in QueuedKinds \ {"transitionToRound", "confirm"}, NEW r, Request(kind, r),
         ~mem'.leftover, mem'.timer # "transitionToRound"
  PROVE  LockTask' /\ LockQueue'
  <1>1. CASE Idle /\ waiting = <<>> /\ Begin(kind, OpOf(kind), r) /\ UNCHANGED waiting
    <2>1. task'.op = "timer" /\ task'.pc = kind
      BY <1>1 DEF Begin, Free, OpOf
    <2> QED BY <1>1, <2>1, TakenLock DEF QueuedKinds, Callbacks, StartPcs
  <1>2. CASE waiting' = Append(waiting, [kind |-> kind, round |-> r]) /\ task' = task
    <2>1. /\ DOMAIN waiting' = 1..(Len(waiting) + 1) /\ DOMAIN waiting = 1..Len(waiting)
          /\ \A i \in DOMAIN waiting : waiting'[i] = waiting[i]
          /\ waiting'[Len(waiting) + 1].kind = kind /\ Len(waiting) \in Nat
      BY <1>2 DEF TypeOK, WaitingOK
    <2>2. \A i \in DOMAIN waiting' : i \in DOMAIN waiting \/ i = Len(waiting) + 1
      BY <2>1
    <2> QED BY <1>2, <2>1, <2>2 DEF LockTask, LockQueue
  <1> QED BY <1>1, <1>2 DEF Request

\* The queue after its first has gone.
LEMMA HeadOfQueue ==
  ASSUME WaitingOK, waiting # <<>>
  PROVE  /\ DOMAIN waiting = 1..Len(waiting) /\ Len(waiting) \in Nat \ {0}
         /\ Head(waiting) = waiting[1] /\ Head(waiting) \in Queued
         /\ DOMAIN Tail(waiting) = 1..(Len(waiting) - 1)
         /\ \A i \in DOMAIN Tail(waiting) : Tail(waiting)[i] = waiting[i + 1] /\ i + 1 \in DOMAIN waiting
  BY DEF WaitingOK

\* The timer and the queue keep it.
LEMMA SchedulingLock ==
  ASSUME TypeOK, LockedStarts, LockTask, LockQueue, TimerFire \/ Dispatch
  PROVE  LockTask' /\ LockQueue'
  <1>1. CASE TimerFire
    <2>1. FiredKind \in QueuedKinds \ {"transitionToRound", "confirm"}
      BY <1>1 DEF TimerFire, Due, FiredKind, LockTask, QueuedKinds, Callbacks
    <2>2. ~mem'.leftover /\ mem'.timer # "transitionToRound"
      BY <1>1 DEF TimerFire, LockTask, TypeOK, SessionOK, Sessions
    <2>3. Request(FiredKind, FiredRound) /\ side' = side
      BY <1>1 DEF TimerFire
    <2> QED BY <2>1, <2>2, <2>3, RequestLock
  <1>2. CASE Dispatch
    <2>1. /\ Idle /\ waiting # <<>> /\ waiting' = Tail(waiting) /\ UNCHANGED <<mem, side>>
          /\ Begin(Head(waiting).kind, OpOf(Head(waiting).kind), Head(waiting).round)
      BY <1>2 DEF Dispatch
    <2>2. /\ task'.pc = waiting[1].kind /\ task'.op = OpOf(waiting[1].kind)
          /\ waiting[1].kind \in QueuedKinds /\ 1 \in DOMAIN waiting
      BY <2>1, HeadOfQueue DEF TypeOK, Begin, Free, Queued
    <2>3. LockTask'
      BY <2>1, <2>2 DEF LockTask, LockQueue, OpOf, QueuedKinds, Callbacks, StartPcs
    <2>4. /\ \A i \in DOMAIN waiting' : waiting'[i] = waiting[i + 1] /\ i + 1 \in DOMAIN waiting /\ i + 1 # 1
          /\ \A i, j \in DOMAIN waiting' : i + 1 = j + 1 => i = j
      BY <2>1, HeadOfQueue DEF TypeOK
    <2>5. task'.op = "confirm" => waiting[1].kind = "confirm"
      BY <2>2 DEF OpOf
    <2> QED BY <2>1, <2>2, <2>3, <2>4, <2>5 DEF LockQueue
  <1> QED BY <1>1, <1>2

\* A request that takes the guard keeps it.
LEMMA GuardedRequestLock ==
  ASSUME TypeOK, LockedStarts, LockTask, LockQueue, GuardedRequest
  PROVE  LockTask' /\ LockQueue'
  <1>1. CASE HostConfirmRound
    <2>1. /\ side.gen = "idle" /\ side'.gen = "confirm" /\ mem' = mem /\ Request("confirm", 0)
      BY <1>1 DEF HostConfirmRound, TypeOK, SideOK, Sides
    <2>2. /\ task.op # "confirm"
          /\ \A i \in DOMAIN waiting : waiting[i].kind \notin {"confirm", "transitionToRound"}
      BY <2>1 DEF LockTask, LockQueue
    <2>3. CASE Idle /\ waiting = <<>> /\ Begin("confirm", OpOf("confirm"), 0) /\ UNCHANGED waiting
      <3>1. task'.pc = "confirm" /\ task'.op = "confirm"
        BY <2>3 DEF Begin, Free, OpOf
      <3>2. \A i \in DOMAIN waiting' : FALSE
        BY <2>3
      <3> QED BY <2>1, <3>1, <3>2 DEF LockTask, LockQueue, StartPcs
    <2>4. CASE waiting' = Append(waiting, [kind |-> "confirm", round |-> 0]) /\ task' = task
      <3>1. /\ DOMAIN waiting' = 1..(Len(waiting) + 1) /\ DOMAIN waiting = 1..Len(waiting)
            /\ \A i \in DOMAIN waiting : waiting'[i] = waiting[i]
            /\ waiting'[Len(waiting) + 1].kind = "confirm" /\ Len(waiting) \in Nat
        BY <2>4 DEF TypeOK, WaitingOK
      <3>2. \A i \in DOMAIN waiting' : i \in DOMAIN waiting \/ i = Len(waiting) + 1
        BY <3>1
      <3> QED BY <2>1, <2>2, <2>4, <3>1, <3>2 DEF LockTask, LockQueue
    <2> QED BY <2>1, <2>3, <2>4 DEF Request
  <1>2. CASE HostEnd
    <2>1. Idle /\ waiting' = waiting /\ side' = side
      BY <1>2 DEF HostEnd
    <2>2. ~mem'.leftover /\ mem'.timer # "transitionToRound"
      BY <1>2 DEF HostEnd, LockTask, TypeOK, SessionOK, Sessions
    <2>3. \E kind \in {"endRound", "endRatingWindow", "completeSession"} : \E r : Begin(kind, "host", r)
      BY <1>2 DEF HostEnd
    <2>4. task'.op = "host" /\ task'.pc \in {"endRound", "endRatingWindow", "completeSession"}
      BY <2>3 DEF Begin, Free
    <2> QED BY <2>1, <2>2, <2>4, TakenLock DEF StartPcs
  <1>3. CASE LeaveConversation
    <2>1. /\ waiting' = Append(waiting, [kind |-> "autoEnd", round |-> 0])
          /\ UNCHANGED <<mem, task, side>>
      BY <1>3 DEF LeaveConversation
    <2>2. /\ DOMAIN waiting' = 1..(Len(waiting) + 1) /\ DOMAIN waiting = 1..Len(waiting)
          /\ \A i \in DOMAIN waiting : waiting'[i] = waiting[i]
          /\ waiting'[Len(waiting) + 1].kind = "autoEnd" /\ Len(waiting) \in Nat
      BY <2>1 DEF TypeOK, WaitingOK
    <2>3. \A i \in DOMAIN waiting' : i \in DOMAIN waiting \/ i = Len(waiting) + 1
      BY <2>2
    <2> QED BY <2>1, <2>2, <2>3 DEF LockTask, LockQueue
  <1> USE DEF Idle, LockTask, LockQueue, StartPcs, TypeOK, SessionOK, Sessions, TaskOK, Tasks,
              SideOK, Sides
  <1>4. CASE HostStart
    BY <1>4 DEF HostStart, Free
  <1>5. CASE HostStartRound
    BY <1>5 DEF HostStartRound, LockedStarts
  <1>6. CASE HostForceCloseRating
    BY <1>6 DEF HostForceCloseRating, Begin, Free
  <1>7. CASE HostPause
    BY <1>7 DEF HostPause, LockedStarts
  <1>8. CASE HostResume
    BY <1>8 DEF HostResume, LockedStarts
  <1>9. CASE HostExtendRound
    BY <1>9 DEF HostExtendRound, Armed
  <1>10. CASE OtherHold
    BY <1>10 DEF OtherHold, Begin, Free
  <1>11. CASE RatingsComplete
    BY <1>11 DEF RatingsComplete, InGrace
  <1> QED BY <1>1, <1>2, <1>3, <1>4, <1>5, <1>6, <1>7, <1>8, <1>9, <1>10, <1>11 DEF GuardedRequest

\* The tasks beside the guard keep it: none of them has the generation lock.
LEMMA UnguardedLock ==
  ASSUME TypeOK, LockedStarts, LockTask, LockQueue, Unguarded
  PROVE  LockTask' /\ LockQueue'
  <1>1. CASE NoShowScan
    <2>1. side'.gen = side.gen /\ UNCHANGED <<mem, task, waiting>>
      BY <1>1 DEF NoShowScan, TypeOK, SideOK, Sides
    <2> QED BY <2>1 DEF LockTask, LockQueue
  <1>2. CASE NoShowDone
    <2>1. side'.gen = side.gen /\ mem' = mem /\ Request("autoEnd", 0)
      BY <1>2 DEF NoShowDone, TypeOK, SideOK, Sides
    <2>2. "autoEnd" \in QueuedKinds \ {"transitionToRound", "confirm"}
      BY DEF QueuedKinds
    <2> QED BY <2>1, <2>2, RequestLock DEF LockTask
  <1> USE DEF LockTask, LockQueue, StartPcs, TypeOK, SessionOK, Sessions, TaskOK, Tasks, SideOK,
              Sides
  <1>3. CASE RestEnd
    BY <1>3 DEF RestEnd, MemCompleting
  <1>4. CASE RestClaim
    BY <1>4 DEF RestClaim, MemClaimed
  <1>5. CASE RestWipe
    BY <1>5 DEF RestWipe
  <1>6. CASE RestDrop
    BY <1>6 DEF RestDrop, MemDropped
  <1>7. CASE RestPause
    BY <1>7 DEF RestPause, LockedStarts
  <1>8. CASE RestResume
    BY <1>8 DEF RestResume, LockedStarts
  <1>9. CASE SkipCheck
    BY <1>9 DEF SkipCheck
  <1>10. CASE SkipGrace
    BY <1>10 DEF SkipGrace, InGrace
  <1>11. CASE NoShowMark
    BY <1>11 DEF NoShowMark
  <1> QED BY <1>1, <1>2, <1>3, <1>4, <1>5, <1>6, <1>7, <1>8, <1>9, <1>10, <1>11 DEF Unguarded

\* The preview holds the generation lock, or leaves its holder alone.
PreviewGen ==
  /\ waiting' = waiting /\ task'.op = task.op /\ task'.pc = task.pc
  /\ ~mem'.leftover /\ mem'.timer # "transitionToRound"
  /\ side'.gen = side.gen \/ side.gen # "confirm"

\* A preview's step keeps it.
LEMMA PreviewGenLock ==
  ASSUME LockTask, LockQueue, PreviewGen
  PROVE  LockTask' /\ LockQueue'
  BY DEF LockTask, LockQueue, PreviewGen

\* Each of the preview's steps is of that kind.
LEMMA PreviewStepLock ==
  ASSUME TypeOK, LockedStarts, LockTask, LockQueue, PreviewStep
  PROVE  LockTask' /\ LockQueue'
  <1> USE DEF PreviewGen, LockTask, TypeOK, SessionOK, Sessions, TaskOK, Tasks, SideOK, Sides
  <1>1. CASE HostGenerateMatches
    BY <1>1, PreviewGenLock DEF HostGenerateMatches, GenGoto, Cleared
  <1>2. CASE ReopenRead
    BY <1>2, PreviewGenLock DEF ReopenRead, GenGoto
  <1>3. CASE ReopenWrite
    BY <1>3, PreviewGenLock DEF ReopenWrite, GenGoto
  <1>4. CASE ChooseRound
    BY <1>4, PreviewGenLock DEF ChooseRound, GenGoto
  <1>5. CASE SurfacePlan
    BY <1>5, PreviewGenLock DEF SurfacePlan, GenGoto
  <1>6. CASE DeletePlan
    BY <1>6, PreviewGenLock DEF DeletePlan, GenReplaces, TaskLosing, SideLosing
  <1>7. CASE GeneratePlan
    BY <1>7, PreviewGenLock DEF GeneratePlan, GenReplaces, TaskLosing, SideLosing
  <1>8. CASE Replan
    BY <1>8, PreviewGenLock DEF Replan, GenGoto, ReplansAfter
  <1>9. CASE HostRegenerateMatches
    BY <1>9, PreviewGenLock DEF HostRegenerateMatches
  <1>10. CASE RegenerateRound
    BY <1>10, PreviewGenLock DEF RegenerateRound, GenReplaces, TaskLosing, SideLosing
  <1>11. CASE HostCancelPreview
    BY <1>11, PreviewGenLock DEF HostCancelPreview
  <1>12. CASE HostSwapMatch
    BY <1>12, PreviewGenLock DEF HostSwapMatch, ReplansAfter
  <1>13. CASE HostExcludeFromRound
    BY <1>13, PreviewGenLock DEF HostExcludeFromRound, ReplansAfter, SideLosing
  <1> QED BY <1>1, <1>2, <1>3, <1>4, <1>5, <1>6, <1>7, <1>8, <1>9, <1>10, <1>11, <1>12,
             <1>13 DEF PreviewStep

\* A throw gives back what was held; no restart is among the failures.
LEMMA FailureLock ==
  ASSUME TypeOK, LockedStarts, LockTask, LockQueue, Failure
  PROVE  LockTask' /\ LockQueue'
  <1>1. CASE Throw
    <2>1. UNCHANGED <<mem, waiting>> /\ (Return \/ (Goto("drop") /\ side' = side))
      BY <1>1 DEF Throw
    <2>2. CASE Return
      BY <2>1, <2>2, ReturnLock DEF LockTask
    <2>3. CASE Goto("drop") /\ side' = side
      BY <2>1, <2>3, GoOnLock DEF Goto, LockTask, StartPcs, TypeOK, TaskOK, Tasks
    <2> QED BY <2>1, <2>2, <2>3
  <1>2. CASE Flush
    BY <1>2 DEF Flush, LockTask, LockQueue
  <1>3. CASE RestartFromRedis \/ RestartFromDb \/ RestartWithout
    BY <1>3 DEF RestartFromRedis, RestartFromDb, RestartWithout, Die, LockedStarts
  <1>4. CASE JoinRecover
    BY <1>4 DEF JoinRecover, Recovered, LockTask, LockQueue
  <1> QED BY <1>1, <1>2, <1>3, <1>4 DEF Failure

\* A step that starts no conversation, deletes none that is going on, and
\* does not begin a re-match.
RowsCalm ==
  /\ \A r \in Rounds, m \in Rooms :
       /\ rows[r][m] = "active" => rows'[r][m] # "none"
       /\ rows'[r][m] = "active" => rows[r][m] = "active"
  /\ side'.gen = "rematch" => side.gen = "rematch" /\ side'.genRound = side.genRound

\* A calm step leaves a re-match what it found.
LEMMA CalmLock == ASSUME LockRows, SideOK, RowsCalm PROVE LockRows'
  BY DEF LockRows, RowsCalm, RowsIn, SideOK, Sides

\* Rows set to a status that is neither active nor none.
LEMMA SetRowsCalm ==
  ASSUME RowsOK, NEW r, NEW S, NEW status, status \notin {"active", "none"},
         rows' = SetRows(rows, r, S, status)
  PROVE  \A q \in Rounds, m \in Rooms :
           /\ rows[q][m] = "active" => rows'[q][m] # "none"
           /\ rows'[q][m] = "active" => rows[q][m] = "active"
  BY DEF SetRows, RowsOK, MatchRows

\* A replan leaves the rows of running conversations alone.
LEMMA ReplannedCalm ==
  ASSUME RowsOK, NEW r, NEW G, rows' = Replanned(rows, r, G)
  PROVE  \A q \in Rounds, m \in Rooms :
           /\ rows[q][m] = "active" => rows'[q][m] # "none"
           /\ rows'[q][m] = "active" => rows[q][m] = "active"
  BY DEF Replanned, RowsOK, MatchRows

\* A return begins no re-match.
LEMMA ReturnCalm ==
  ASSUME TypeOK, Return
  PROVE  side'.gen \in {side.gen, "idle"} /\ side'.genRound = side.genRound
  BY DEF Return, Released, TypeOK, SideOK, Sides

\* All that the guard's holder does is calm, but for activating the rows.
LEMMA GuardStepCalm ==
  ASSUME TypeOK, LockedStarts, GuardStep, ~Activate
  PROVE  RowsCalm
  <1>1. CASE LoadRound
    <2>1. /\ side'.gen \in {side.gen, "idle"} /\ side'.genRound = side.genRound
      BY <1>1, ReturnCalm DEF LoadRound
    <2>2. PICK G \in SUBSET Rooms : rows' = rows \/ rows' = SetRows(rows, task.arg, G, "scheduled")
      BY <1>1 DEF LoadRound, FreeSlots, RowsIn
    <2>3. CASE rows' = SetRows(rows, task.arg, G, "scheduled")
      BY <2>1, <2>3, SetRowsCalm DEF RowsCalm, TypeOK
    <2>4. CASE rows' = rows
      BY <2>1, <2>4 DEF RowsCalm
    <2> QED BY <2>2, <2>3, <2>4
  <1> USE DEF RowsCalm, TypeOK, SideOK, Sides
  <1>2. CASE StatusRead
    BY <1>2, ReturnCalm DEF StatusRead
  <1>3. CASE StatusWrite
    BY <1>3, ReturnCalm DEF StatusWrite
  <1>4. CASE GoLive
    BY <1>4, ReturnCalm DEF GoLive
  <1>5. CASE Plan
    BY <1>5, ReplannedCalm, ReturnCalm DEF Plan
  <1>6. CASE StartRoundRefused
    BY <1>6, ReturnCalm DEF StartRoundRefused
  <1>7. CASE StartRound
    BY <1>7, ReturnCalm DEF StartRound
  <1>8. CASE ConfirmRound
    BY <1>8, ReturnCalm DEF ConfirmRound
  <1>9. CASE RoundRefused
    BY <1>9, ReturnCalm DEF RoundRefused
  <1>10. CASE CreateRooms
    BY <1>10, SetRowsCalm, ReturnCalm DEF CreateRooms
  <1>11. CASE Flip
    BY <1>11, ReturnCalm DEF Flip
  <1>12. CASE RoundSave
    BY <1>12, ReturnCalm DEF RoundSave
  <1>13. CASE RoundArm
    BY <1>13, ReturnCalm DEF RoundArm, Released
  <1>14. CASE EndRound
    BY <1>14, SetRowsCalm, ReturnCalm DEF EndRound
  <1>15. CASE RateFlip
    BY <1>15, ReturnCalm DEF RateFlip
  <1>16. CASE RateSave
    BY <1>16, ReturnCalm DEF RateSave
  <1>17. CASE RateArm
    BY <1>17, ReturnCalm DEF RateArm
  <1>18. CASE EndRatingWindow
    BY <1>18, ReturnCalm DEF EndRatingWindow
  <1>19. CASE CloseDecide
    BY <1>19, ReturnCalm DEF CloseDecide
  <1>20. CASE CloseSave
    BY <1>20, ReturnCalm DEF CloseSave
  <1>21. CASE CompleteSession
    BY <1>21, ReturnCalm DEF CompleteSession
  <1>22. CASE Claim
    BY <1>22, ReturnCalm DEF Claim
  <1>23. CASE Wipe
    BY <1>23, ReturnCalm DEF Wipe, RowsWiped, RowsOK, MatchRows
  <1>24. CASE Drop
    BY <1>24, ReturnCalm DEF Drop
  <1>25. CASE AutoEnd
    BY <1>25, ReturnCalm DEF AutoEnd
  <1>26. CASE OtherDone
    BY <1>26, ReturnCalm DEF OtherDone
  <1> QED BY <1>1, <1>2, <1>3, <1>4, <1>5, <1>6, <1>7, <1>8, <1>9, <1>10, <1>11, <1>12, <1>13,
            <1>14, <1>15, <1>16, <1>17, <1>18, <1>19, <1>20, <1>21, <1>22, <1>23, <1>24, <1>25,
            <1>26 DEF GuardStep

\* So is every request that takes the guard,
LEMMA GuardedRequestCalm ==
  ASSUME TypeOK, LockedStarts, GuardedRequest
  PROVE  RowsCalm
  <1> USE DEF RowsCalm, TypeOK, SideOK, Sides
  <1>1. CASE HostStart
    BY <1>1, ReturnCalm DEF HostStart
  <1>2. CASE HostStartRound
    BY <1>2, ReturnCalm DEF HostStartRound
  <1>3. CASE HostConfirmRound
    BY <1>3, ReturnCalm DEF HostConfirmRound
  <1>4. CASE HostEnd
    BY <1>4, ReturnCalm DEF HostEnd
  <1>5. CASE HostForceCloseRating
    BY <1>5, ReturnCalm DEF HostForceCloseRating
  <1>6. CASE HostPause
    BY <1>6, ReturnCalm DEF HostPause
  <1>7. CASE HostResume
    BY <1>7, ReturnCalm DEF HostResume
  <1>8. CASE HostExtendRound
    BY <1>8, ReturnCalm DEF HostExtendRound
  <1>9. CASE LeaveConversation
    BY <1>9, SetRowsCalm, ReturnCalm DEF LeaveConversation
  <1>10. CASE OtherHold
    BY <1>10, ReturnCalm DEF OtherHold
  <1>11. CASE RatingsComplete
    BY <1>11, ReturnCalm DEF RatingsComplete
  <1> QED BY <1>1, <1>2, <1>3, <1>4, <1>5, <1>6, <1>7, <1>8, <1>9, <1>10, <1>11 DEF GuardedRequest

\* every task beside it,
LEMMA UnguardedCalm ==
  ASSUME TypeOK, LockedStarts, Unguarded
  PROVE  RowsCalm
  <1>1. CASE NoShowMark
    <2>1. /\ side'.gen = side.gen /\ side'.genRound = side.genRound
      BY <1>1 DEF NoShowMark, TypeOK, SideOK, Sides
    <2>2. PICK S : rows' = SetRows(rows, side.nsRound, S, "no_show")
      BY <1>1 DEF NoShowMark
    <2>3. \A q \in Rounds, m \in Rooms :
            /\ rows[q][m] = "active" => rows'[q][m] # "none"
            /\ rows'[q][m] = "active" => rows[q][m] = "active"
      BY <2>2, SetRowsCalm DEF TypeOK
    <2> QED BY <2>1, <2>3 DEF RowsCalm
  <1> USE DEF RowsCalm, TypeOK, SideOK, Sides
  <1>2. CASE RestEnd
    BY <1>2, ReturnCalm DEF RestEnd
  <1>3. CASE RestClaim
    BY <1>3, ReturnCalm DEF RestClaim
  <1>4. CASE RestWipe
    BY <1>4, ReturnCalm DEF RestWipe, RowsWiped, RowsOK, MatchRows
  <1>5. CASE RestDrop
    BY <1>5, ReturnCalm DEF RestDrop
  <1>6. CASE RestPause
    BY <1>6, ReturnCalm DEF RestPause
  <1>7. CASE RestResume
    BY <1>7, ReturnCalm DEF RestResume
  <1>8. CASE SkipCheck
    BY <1>8, ReturnCalm DEF SkipCheck
  <1>9. CASE SkipGrace
    BY <1>9, ReturnCalm DEF SkipGrace
  <1>10. CASE NoShowScan
    BY <1>10, ReturnCalm DEF NoShowScan
  <1>11. CASE NoShowDone
    BY <1>11, ReturnCalm DEF NoShowDone
  <1> QED BY <1>1, <1>2, <1>3, <1>4, <1>5, <1>6, <1>7, <1>8, <1>9, <1>10, <1>11 DEF Unguarded

\* every step of the preview but a re-match,
LEMMA PreviewStepCalm ==
  ASSUME TypeOK, LockedStarts, PreviewStep, ~HostRegenerateMatches, ~RegenerateRound, "exclude" \notin Env
  PROVE  RowsCalm
  <1> USE DEF RowsCalm, TypeOK, SideOK, Sides
  <1>1. CASE HostGenerateMatches
    BY <1>1, ReturnCalm DEF HostGenerateMatches, GenGoto
  <1>2. CASE ReopenRead
    BY <1>2, ReturnCalm DEF ReopenRead, GenGoto
  <1>3. CASE ReopenWrite
    BY <1>3, ReturnCalm DEF ReopenWrite, GenGoto
  <1>4. CASE ChooseRound
    BY <1>4, ReturnCalm DEF ChooseRound, GenGoto
  <1>5. CASE SurfacePlan
    BY <1>5, ReturnCalm DEF SurfacePlan, GenGoto
  <1>6. CASE DeletePlan
    BY <1>6, ReturnCalm DEF DeletePlan, GenReplaces, SideLosing, SetRows, RowsIn, RowsOK, MatchRows
  <1>7. CASE GeneratePlan
    BY <1>7, SetRowsCalm, ReturnCalm DEF GeneratePlan, GenReplaces, SideLosing
  <1>8. CASE Replan
    BY <1>8, ReplannedCalm, ReturnCalm DEF Replan, GenGoto, ReplansAfter
  <1>9. CASE HostCancelPreview
    BY <1>9, SetRowsCalm, ReturnCalm DEF HostCancelPreview
  <1>10. CASE HostSwapMatch
    BY <1>10, ReplannedCalm, ReturnCalm DEF HostSwapMatch, ReplansAfter
  <1>11. CASE HostExcludeFromRound
    BY <1>11, ReturnCalm DEF HostExcludeFromRound
  <1> QED BY <1>1, <1>2, <1>3, <1>4, <1>5, <1>6, <1>7, <1>8, <1>9, <1>10, <1>11 DEF PreviewStep

\* and every failure.
LEMMA FailureCalm ==
  ASSUME TypeOK, LockedStarts, Failure
  PROVE  RowsCalm
  <1> USE DEF RowsCalm, TypeOK, SideOK, Sides
  <1>1. CASE Throw
    BY <1>1, ReturnCalm DEF Throw
  <1>2. CASE Flush
    BY <1>2, ReturnCalm DEF Flush
  <1>3. CASE RestartFromRedis
    BY <1>3, ReturnCalm DEF RestartFromRedis, Die, NoSide
  <1>4. CASE RestartFromDb
    BY <1>4, ReturnCalm DEF RestartFromDb, Die, NoSide
  <1>5. CASE RestartWithout
    BY <1>5, ReturnCalm DEF RestartWithout, Die, NoSide
  <1>6. CASE JoinRecover
    BY <1>6, ReturnCalm DEF JoinRecover
  <1> QED BY <1>1, <1>2, <1>3, <1>4, <1>5, <1>6 DEF Failure

\* Activating rows needs a confirmation, which holds the generation lock.
LEMMA ActivateLock ==
  ASSUME TypeOK, LockTask, Activate
  PROVE  /\ side'.gen = "confirm"
         /\ \A r \in Rounds, m \in Rooms : rows[r][m] = "active" => rows'[r][m] # "none"
  <1>1. side'.gen = "confirm"
    BY DEF Activate, At, LockTask, StartPcs
  <1>2. \A r \in Rounds, m \in Rooms : rows[r][m] = "active" => rows'[r][m] # "none"
    BY DEF Activate, SetRows, TypeOK, RowsOK, MatchRows
  <1> QED BY <1>1, <1>2

\* A re-match looks at the rows when it takes its round; they are as idle when
\* it deletes them.
LEMMA RematchLock ==
  ASSUME TypeOK, LockRows, HostRegenerateMatches \/ RegenerateRound
  PROVE  /\ LockRows'
         /\ \A r \in Rounds, m \in Rooms : rows[r][m] = "active" => rows'[r][m] # "none"
  <1>1. CASE HostRegenerateMatches
    <2>1. rows' = rows
      BY <1>1 DEF HostRegenerateMatches
    <2>2. PICK r \in Rounds :
            side' = IF RowsIn(r, {"active", "completed"}) = {}
                    THEN [side EXCEPT !.gen = "rematch", !.genRound = r] ELSE side
      BY <1>1 DEF HostRegenerateMatches
    <2>3. CASE RowsIn(r, {"active", "completed"}) = {}
      <3>1. side'.genRound = r
        BY <2>2, <2>3 DEF TypeOK, SideOK, Sides
      <3>2. RowsIn(r, {"active"}) = {}
        BY <2>3 DEF RowsIn
      <3> QED BY <2>1, <3>1, <3>2 DEF LockRows, RowsIn
    <2>4. CASE RowsIn(r, {"active", "completed"}) # {}
      BY <2>1, <2>2, <2>4 DEF LockRows, RowsIn
    <2> QED BY <2>1, <2>3, <2>4
  <1>2. CASE RegenerateRound
    <2>1. side.gen = "rematch" /\ RowsIn(side.genRound, {"active"}) = {}
      BY <1>2 DEF RegenerateRound, LockRows
    <2>2. side'.gen = "replan"
      BY <1>2 DEF RegenerateRound, GenReplaces, SideLosing, TypeOK, SideOK, Sides
    <2>3. \A r \in Rounds : r # side.genRound => rows'[r] = rows[r]
      BY <1>2 DEF RegenerateRound, TypeOK, RowsOK, MatchRows
    <2> QED BY <2>1, <2>2, <2>3 DEF LockRows, RowsIn
  <1> QED BY <1>1, <1>2

\* The generation lock tells the setting up of a round and a re-match apart.
LockInv == LockTask /\ LockQueue /\ LockRows

\* Every step keeps it, and deletes no running conversation.
LEMMA LockStep ==
  ASSUME TypeOK, LockedStarts, LockInv, Next
  PROVE  /\ LockTask' /\ LockQueue'
         /\ "exclude" \notin Env =>
              /\ LockInv'
              /\ \A r \in Rounds, m \in Rooms : rows[r][m] = "active" => rows'[r][m] # "none"
  <1>1. LockTask' /\ LockQueue'
    BY GuardStepLock, SchedulingLock, GuardedRequestLock, UnguardedLock,
       PreviewStepLock, FailureLock
    DEF Next, LockInv
  <1>2. CASE Activate
    BY <1>1, <1>2, ActivateLock DEF LockInv, LockRows
  <1>3. CASE HostRegenerateMatches \/ RegenerateRound
    BY <1>1, <1>3, RematchLock DEF LockInv
  <1>4. CASE ~Activate /\ ~HostRegenerateMatches /\ ~RegenerateRound /\ "exclude" \notin Env
    <2>1. TimerFire \/ Dispatch => RowsCalm
      BY DEF TimerFire, Dispatch, RowsCalm
    <2>2. RowsCalm
      BY <1>4, <2>1, GuardStepCalm, GuardedRequestCalm, UnguardedCalm, PreviewStepCalm,
         FailureCalm DEF Next
    <2> QED BY <1>1, <2>2, CalmLock DEF LockInv, RowsCalm, TypeOK
  <1> QED BY <1>1, <1>2, <1>3, <1>4

\* Nobody's running conversation is deleted under them, whatever is previewed,
\* re-matched or edited while a round is being started, as long as every
\* round is started by a confirmation, which holds the generation lock.
THEOREM RunningMatchKept ==
  LockedStarts /\ "exclude" \notin Env /\ Spec => ActiveMatchNeverWiped
  <1> SUFFICES ASSUME LockedStarts, "exclude" \notin Env PROVE Spec => ActiveMatchNeverWiped
    OBVIOUS
  <1>1. Init => LockInv
    BY DEF Init, LockInv, LockTask, LockQueue, LockRows, StartPcs, Free, NoSide
  <1>2. TypeOK /\ LockInv /\ [Next]_vars => LockInv'
    <2>1. ASSUME LockInv, UNCHANGED vars PROVE LockInv'
      BY <2>1 DEF vars, LockInv, LockTask, LockQueue, LockRows, RowsIn
    <2> QED BY <2>1, LockStep
  <1>3. TypeOK /\ LockInv /\ [Next]_vars =>
          [\A r \in Rounds, m \in Rooms : rows[r][m] = "active" => rows'[r][m] # "none"]_vars
    BY LockStep
  <1> QED BY <1>1, <1>2, <1>3, TypeCorrect, PTL DEF Spec, ActiveMatchNeverWiped

-----------------------------------------------------------------------------
(* Undisturbed: memory and the row of the event agree *)

\* Nothing writes the status of the event beside the guard, nothing throws, and
\* the process lives: whatever is played, paused, previewed and left.
Undisturbed == Env \cap {"reopen", "restEnd", "throw", "crash"} = {}

\* After the rows of the round are loaded and before it is shown.
StartingPcs == {"createRooms", "activate", "flip"}

\* Inside updateSessionStatus.
WritingPcs == {"statusRead", "statusWrite"}

\* Inside completeSession, after the status is set in memory.
EndingPcs == {"claim", "wipe", "drop"}

\* What the ActiveSession may be, and what it is while the event is completed.
UMem ==
  /\ mem.live => mem.status # "scheduled"
  /\ ~mem.live => mem.status \in {"scheduled", "completed"}
  /\ mem.status = "scheduled" => mem.round = 0 /\ db.round = 0 /\ mem.total = db.total
  /\ mem.status = "round_active" => mem.round # 0
  /\ mem.status = "lobby_open" => mem.round = 0
  /\ mem.live /\ mem.status = "completed" => task.pc \in EndingPcs
  /\ task.pc \in EndingPcs /\ mem.live => mem.status = "completed"

\* A status write is for the status memory already shows, or for Go Live.
UWrite ==
  /\ task.pc \in WritingPcs =>
       \/ /\ task.target = "lobby_open" /\ task.op \in {"start", "restStart"}
          /\ ~mem.live /\ mem.status = "scheduled" /\ db.status = "scheduled"
       \/ /\ task.target \in {"round_active", "round_rating", "round_transition", "closing_lobby"}
          /\ mem.live /\ mem.status = task.target /\ db.status # "completed"
  /\ task.pc = "goLive" =>
       /\ ~mem.live /\ mem.status = "scheduled" /\ db.status = "lobby_open"
       /\ task.op \in {"start", "restStart"}

\* Memory and the row differ only while the handler that made them differ is
\* about to write, or to complete, the row.
UAgree ==
  /\ ~mem.live /\ task.pc # "goLive" =>
       db.status = "completed" \/ (mem.status = "scheduled" /\ db.status = "scheduled")
  /\ mem.live /\ db.status # mem.status => task.pc \in WritingPcs \cup {"claim"}
  /\ mem.live /\ db.round # mem.round =>
       task.pc \in WritingPcs \cup {"roundSave"} /\ task.target = "round_active"

\* A round being started: from which status, and which round.
UStart ==
  /\ task.pc \in StartingPcs => mem.live /\ CanTransition(mem.status, "round_active")
  /\ task.pc \in WritingPcs /\ task.target = "round_active" => mem.round = task.arg
  /\ task.pc \in {"roundSave", "roundArm"} =>
        /\ mem.live /\ mem.status = "round_active" /\ mem.round = task.arg
        /\ task.target = "round_active"
  /\ task.pc \in StartingPcs \cup {"transitionToRound"} => task.arg # 0

\* A round being ended, and the close of its rating window.
UEnd ==
  /\ task.pc = "rateFlip" => mem.live /\ mem.status = "round_active"
  /\ task.pc \in {"rateSave", "rateArm"} => mem.live /\ mem.status = "round_rating"
  /\ task.pc = "finalize" => mem.live /\ mem.status = "round_rating" /\ mem.round = task.arg
  /\ task.pc = "closeSave" => mem.live /\ mem.status = task.target
       /\ task.target \in {"round_transition", "closing_lobby"}

\* No timer starts round 0; nobody completes or reopens beside the guard.
UQueue ==
  /\ \A i \in DOMAIN waiting : waiting[i].kind = "transitionToRound" => waiting[i].round # 0
  /\ side.completer = "idle" /\ side.gen \notin {"reopenRead", "reopenWrite"}

\* The inductive invariant of an undisturbed event.
UndInv == UMem /\ UWrite /\ UAgree /\ UStart /\ UEnd /\ UQueue

\* Where a handler goes when it returns.
LEMMA ReturnUnd ==
  ASSUME TypeOK, Return
  PROVE  /\ task'.pc \in {"idle", "startRound"}
         /\ task'.pc = "idle" \/ task'.op = "startRound"
         /\ side'.completer = side.completer
         /\ side'.gen \in {side.gen, "idle"}
  BY DEF Return, ReturnTask, Released, Free, TypeOK, TaskOK, Tasks, SideOK, Sides

\* A step that leaves status, round and plan where they are.
CoreSame ==
  /\ mem'.live = mem.live /\ mem'.status = mem.status /\ mem'.round = mem.round
  /\ mem'.total = mem.total
  /\ db'.status = db.status /\ db'.round = db.round /\ db'.total = db.total

\* A handler that gives up without a change of them.
LEMMA BackUnd ==
  ASSUME UndInv, CoreSame, waiting' = waiting,
         task.pc \notin WritingPcs \cup EndingPcs \cup {"goLive", "roundSave"},
         task'.pc \in {"idle", "startRound"},
         side'.completer = side.completer, side'.gen \in {side.gen, "idle"}
  PROVE  UndInv'
  BY DEF CoreSame, UndInv, UMem, UWrite, UAgree, UStart, UEnd, UQueue, StartingPcs, WritingPcs,
         EndingPcs

\* Each step of the guard's holder keeps the invariant: one label's clauses make
\* the next one's.
LEMMA GuardStepUnd ==
  ASSUME TypeOK, Undisturbed, UndInv, GuardStep
  PROVE  UndInv'
  \* Handlers that may give up, one way out at a time.
  <1>1. CASE ConfirmRound
    <2>1. CASE Return
      <3>1. CoreSame /\ waiting' = waiting
        BY <1>1, <2>1 DEF ConfirmRound, CoreSame, Return, ReturnTask, Free, At, Goto, UpdateStatus,
           TypeOK, TaskOK, Tasks
      <3>2. task.pc \notin WritingPcs \cup EndingPcs \cup {"goLive", "roundSave"}
        BY <1>1 DEF ConfirmRound, At, WritingPcs, EndingPcs
      <3> QED BY <2>1, <3>1, <3>2, BackUnd, ReturnUnd
    <2>2. CASE ~Return
      <3>1. /\ mem.pending # 0 /\ mem' = Cleared(mem) /\ task.pc = "confirm"
            /\ task' = [task EXCEPT !.pc = "transitionToRound", !.arg = mem.pending]
            /\ UNCHANGED <<db, waiting, side>>
        BY <1>1, <2>2 DEF ConfirmRound, At
      <3> QED BY <3>1 DEF Cleared, UndInv, UMem, UWrite, UAgree, UStart, UEnd, UQueue, StartingPcs,
                 WritingPcs, EndingPcs,
          CanTransition, TypeOK, SessionOK, Sessions, DbOK, TaskOK, Tasks, SideOK, Sides
    <2> QED BY <2>1, <2>2
  <1>2. CASE LoadRound
    <2>1. CASE Return
      <3>1. CoreSame /\ waiting' = waiting
        BY <1>2, <2>1 DEF LoadRound, CoreSame, Return, ReturnTask, Free, At, Goto, UpdateStatus, TypeOK,
           TaskOK, Tasks
      <3>2. task.pc \notin WritingPcs \cup EndingPcs \cup {"goLive", "roundSave"}
        BY <1>2 DEF LoadRound, At, WritingPcs, EndingPcs
      <3> QED BY <2>1, <3>1, <3>2, BackUnd, ReturnUnd
    <2>2. CASE ~Return
      <3>1. /\ \E B \in SUBSET Rooms : task' = [task EXCEPT !.pc = "createRooms", !.batch = B]
            /\ task.pc = "transitionToRound" /\ UNCHANGED <<mem, db, waiting, side>>
            /\ mem.live /\ CanTransition(mem.status, "round_active")
        BY <1>2, <2>2 DEF LoadRound, At, RowsIn, FreeSlots
      <3>2. task'.pc = "createRooms" /\ task'.op = task.op /\ task'.arg = task.arg /\ task'.target = task.target
        BY <3>1 DEF TypeOK, TaskOK, Tasks
      <3> QED BY <3>1, <3>2 DEF UndInv, UMem, UWrite, UAgree, UStart, UEnd, UQueue, StartingPcs,
                 WritingPcs, EndingPcs,
          CanTransition, TypeOK, SessionOK, Sessions, DbOK, TaskOK, Tasks, SideOK, Sides
    <2> QED BY <2>1, <2>2
  <1>3. CASE RoundArm
    <2>1. CoreSame
      BY <1>3 DEF RoundArm, Armed, Confirmed, CoreSame, TypeOK, SessionOK, Sessions
    <2>2. /\ task.pc = "roundArm" /\ waiting' = waiting
          /\ task'.pc \in {"idle", "startRound"} /\ (task'.pc = "idle" \/ task'.op = "startRound")
      BY <1>3 DEF RoundArm, ReturnTask, Free, At, TypeOK, TaskOK, Tasks
    <2>3. /\ side'.completer = side.completer /\ side'.gen \in {side.gen, "idle"}
      <3>1. PICK s : s = [side EXCEPT !.noShowDue = IF "noShow" \in Env THEN task.arg ELSE 0]
        OBVIOUS
      <3>3. side' = IF task.op = "confirm" THEN [s EXCEPT !.gen = "idle"] ELSE s
        BY <1>3, <3>1 DEF RoundArm, Released
      <3> QED BY <3>1, <3>3 DEF TypeOK, SideOK, Sides
    <2> QED BY <2>1, <2>2, <2>3, BackUnd DEF WritingPcs, EndingPcs
  <1>4. CASE RateFlip
    <2>1. CASE Return
      <3>1. CoreSame /\ waiting' = waiting
        BY <1>4, <2>1 DEF RateFlip, CoreSame, Return, ReturnTask, Free, At, Goto, UpdateStatus, TypeOK,
           TaskOK, Tasks
      <3>2. task.pc \notin WritingPcs \cup EndingPcs \cup {"goLive", "roundSave"}
        BY <1>4 DEF RateFlip, At, WritingPcs, EndingPcs
      <3> QED BY <2>1, <3>1, <3>2, BackUnd, ReturnUnd
    <2>2. CASE ~Return
      <3>1. /\ mem' = [mem EXCEPT !.status = "round_rating"]
            /\ task' = [task EXCEPT !.pc = "statusRead", !.target = "round_rating"]
            /\ task.pc = "rateFlip" /\ UNCHANGED <<db, waiting, side>>
        BY <1>4, <2>2 DEF RateFlip, UpdateStatus, At
      <3> QED BY <3>1 DEF UndInv, UMem, UWrite, UAgree, UStart, UEnd, UQueue, StartingPcs, WritingPcs,
                 EndingPcs,
          CanTransition, TypeOK, SessionOK, Sessions, DbOK, TaskOK, Tasks, SideOK, Sides
    <2> QED BY <2>1, <2>2
  <1>5. CASE CloseDecide
    <2>1. CASE Return
      <3>1. CoreSame /\ waiting' = waiting
        BY <1>5, <2>1 DEF CloseDecide, CoreSame, Return, ReturnTask, Free, At, Goto, UpdateStatus,
           TypeOK, TaskOK, Tasks
      <3>2. task.pc \notin WritingPcs \cup EndingPcs \cup {"goLive", "roundSave"}
        BY <1>5 DEF CloseDecide, At, WritingPcs, EndingPcs
      <3> QED BY <2>1, <3>1, <3>2, BackUnd, ReturnUnd
    <2>2. CASE ~Return
      <3>1. CASE Goto("completeSession") /\ UNCHANGED <<mem, side>>
        <4>1. UNCHANGED <<db, waiting>> /\ task.pc = "finalize"
          BY <1>5 DEF CloseDecide, At
        <4> QED BY <3>1, <4>1 DEF Goto, UndInv, UMem, UWrite, UAgree, UStart, UEnd, UQueue, StartingPcs,
                   WritingPcs, EndingPcs,
          CanTransition, TypeOK, SessionOK, Sessions, DbOK, TaskOK, Tasks, SideOK, Sides
      <3>2. CASE ~(Goto("completeSession") /\ UNCHANGED <<mem, side>>)
        <4>1. /\ mem' = [mem EXCEPT !.status = NextPhase(mem, task.arg)]
              /\ UpdateStatus(NextPhase(mem, task.arg))
              /\ task.pc = "finalize" /\ UNCHANGED <<db, waiting, side>>
          BY <1>5, <2>2, <3>2 DEF CloseDecide, At
        <4>2. PICK next \in {"round_transition", "closing_lobby"} :
                mem' = [mem EXCEPT !.status = next] /\ UpdateStatus(next)
          BY <4>1 DEF NextPhase
        <4> QED BY <4>1, <4>2 DEF UpdateStatus, UndInv, UMem, UWrite, UAgree, UStart, UEnd, UQueue,
                   StartingPcs, WritingPcs, EndingPcs,
          CanTransition, TypeOK, SessionOK, Sessions, DbOK, TaskOK, Tasks, SideOK, Sides
      <3> QED BY <3>1, <3>2
    <2> QED BY <2>1, <2>2
  <1>6. CASE Claim
    <2>1. /\ db'.status = "completed" /\ db'.round = db.round /\ db'.total = db.total
          /\ waiting' = waiting /\ task.pc = "claim"
      BY <1>6 DEF Claim, DbClaimed, At, TypeOK, DbOK
    <2>2. /\ mem'.status = mem.status /\ mem'.round = mem.round /\ mem'.total = mem.total
          /\ mem'.live = (IF ClaimLost THEN FALSE ELSE mem.live)
      BY <1>6 DEF Claim, MemClaimed, TypeOK, SessionOK, Sessions
    <2>3. CASE ClaimLost
      <3>1. Return /\ mem'.live = FALSE
        BY <1>6, <2>2, <2>3 DEF Claim
      <3> QED BY <2>1, <2>2, <3>1, ReturnUnd DEF UndInv, UMem, UWrite, UAgree, UStart, UEnd, UQueue,
                 StartingPcs, WritingPcs, EndingPcs,
          CanTransition, TypeOK, SessionOK, Sessions, DbOK, TaskOK, Tasks, SideOK, Sides
    <2>4. CASE ~ClaimLost
      <3>1. mem'.live = mem.live /\ task' = [task EXCEPT !.pc = "wipe"] /\ side' = side
        BY <1>6, <2>2, <2>4 DEF Claim, Goto
      <3> QED BY <2>1, <2>2, <3>1 DEF UndInv, UMem, UWrite, UAgree, UStart, UEnd, UQueue, StartingPcs,
                 WritingPcs, EndingPcs,
          CanTransition, TypeOK, SessionOK, Sessions, DbOK, TaskOK, Tasks, SideOK, Sides
    <2> QED BY <2>3, <2>4
  <1>7. CASE Wipe
    <2>1. /\ db'.status = "completed" /\ db'.round = db.round /\ db'.total = db.total
          /\ task' = [task EXCEPT !.pc = "drop"]
          /\ UNCHANGED <<mem, waiting, side>> /\ task.pc = "wipe"
      BY <1>7 DEF Wipe, DbWiped, Goto, At, TypeOK, DbOK
    <2> QED BY <2>1 DEF UndInv, UMem, UWrite, UAgree, UStart, UEnd, UQueue, StartingPcs, WritingPcs,
               EndingPcs,
          CanTransition, TypeOK, SessionOK, Sessions, DbOK, TaskOK, Tasks, SideOK, Sides
  <1>8. CASE Drop
    <2>1. /\ Return /\ UNCHANGED <<db, waiting>> /\ task.pc = "drop"
          /\ ~mem'.live /\ mem'.status = mem.status /\ mem'.round = mem.round /\ mem'.total = mem.total
      BY <1>8 DEF Drop, MemDropped, At, TypeOK, SessionOK, Sessions
    <2> QED BY <2>1, ReturnUnd DEF UndInv, UMem, UWrite, UAgree, UStart, UEnd, UQueue, StartingPcs,
               WritingPcs, EndingPcs,
          CanTransition, TypeOK, SessionOK, Sessions, DbOK, TaskOK, Tasks, SideOK, Sides
  <1>9. CASE AutoEnd
    <2>1. CASE Return
      <3>1. CoreSame /\ waiting' = waiting
        BY <1>9, <2>1 DEF AutoEnd, CoreSame, Return, ReturnTask, Free, At, Goto, UpdateStatus, TypeOK,
           TaskOK, Tasks
      <3>2. task.pc \notin WritingPcs \cup EndingPcs \cup {"goLive", "roundSave"}
        BY <1>9 DEF AutoEnd, At, WritingPcs, EndingPcs
      <3> QED BY <2>1, <3>1, <3>2, BackUnd, ReturnUnd
    <2>2. CASE ~Return
      <3>1. Begin("endRound", "timer", mem.round) /\ UNCHANGED <<mem, db, waiting, side>> /\ task.pc = "autoEnd"
        BY <1>9, <2>2 DEF AutoEnd, At
      <3>2. task'.pc = "endRound"
        BY <3>1 DEF Begin, Free
      <3> QED BY <3>1, <3>2 DEF UndInv, UMem, UWrite, UAgree, UStart, UEnd, UQueue, StartingPcs,
                 WritingPcs, EndingPcs,
          CanTransition, TypeOK, SessionOK, Sessions, DbOK, TaskOK, Tasks, SideOK, Sides
    <2> QED BY <2>1, <2>2
  \* The others, one leaf each.
  <1> USE DEF UndInv, UMem, UWrite, UAgree, UStart, UEnd, UQueue, StartingPcs, WritingPcs, EndingPcs,
              CanTransition, TypeOK, SessionOK, Sessions, DbOK, TaskOK, Tasks, SideOK, Sides
  <1>10. CASE StatusRead
    BY <1>10, ReturnUnd DEF StatusRead, Goto, AfterUpdate, At
  <1>11. CASE StatusWrite
    BY <1>11, ReturnUnd DEF StatusWrite, Goto, AfterUpdate, At
  <1>12. CASE GoLive
    BY <1>12, ReturnUnd DEF GoLive, Goto, NewSession, At
  <1>13. CASE Plan
    BY <1>13, ReturnUnd DEF Plan, At
  <1>14. CASE StartRoundRefused
    BY <1>14, ReturnUnd DEF StartRoundRefused, At
  <1>15. CASE StartRound
    BY <1>15, ReturnUnd DEF StartRound, Cleared, At, NextRound
  <1>16. CASE RoundRefused
    BY <1>16, ReturnUnd DEF RoundRefused, Confirmed, At
  <1>17. CASE CreateRooms
    BY <1>17, ReturnUnd DEF CreateRooms, Goto, At
  <1>18. CASE Activate
    BY <1>18, ReturnUnd DEF Activate, Goto, At
  <1>19. CASE Flip
    BY <1>19, ReturnUnd DEF Flip, UpdateStatus, At
  <1>20. CASE RoundSave
    BY <1>20, ReturnUnd DEF RoundSave, Goto, At
  <1>21. CASE EndRound
    BY <1>21, ReturnUnd DEF EndRound, Goto, At
  <1>22. CASE RateSave
    BY <1>22, ReturnUnd DEF RateSave, Goto, At
  <1>23. CASE RateArm
    BY <1>23, ReturnUnd DEF RateArm, Armed, At
  <1>24. CASE EndRatingWindow
    BY <1>24, ReturnUnd DEF EndRatingWindow, Goto, Cleared, At
  <1>25. CASE CloseSave
    BY <1>25, ReturnUnd DEF CloseSave, WithPhaseTimer, Armed, At
  <1>26. CASE CompleteSession
    BY <1>26, ReturnUnd DEF CompleteSession, Goto, MemCompleting, At, AlreadyCompleted
  <1>27. CASE OtherDone
    BY <1>27, ReturnUnd DEF OtherDone, At
  <1> QED BY <1>1, <1>2, <1>3, <1>4, <1>5, <1>6, <1>7, <1>8, <1>9, <1>10, <1>11, <1>12, <1>13,
            <1>14, <1>15, <1>16, <1>17, <1>18, <1>19, <1>20, <1>21, <1>22, <1>23, <1>24, <1>25,
            <1>26, <1>27 DEF GuardStep

\* What a pause leaves alone, and what it keeps.
LEMMA PausedSame ==
  ASSUME SessionOK, NEW rest, NEW m, m \in PausedSession(rest)
  PROVE  /\ m.live = mem.live /\ m.status = mem.status /\ m.round = mem.round /\ m.total = mem.total
         /\ m.timerRound = mem.timerRound /\ m.pending = mem.pending /\ m.paused = TRUE
         /\ m.timer = (IF Pausable THEN "none" ELSE mem.timer)
         /\ "pauseAtExpiry" \notin Env => m.leftover = (Pausable \/ mem.leftover)
  BY DEF PausedSession, SessionOK, Sessions

\* A step beside the handler that leaves them all alone.
LEMMA CalmUnd ==
  ASSUME UndInv, CoreSame, UQueue',
         task'.pc = task.pc, task'.op = task.op, task'.arg = task.arg, task'.target = task.target
  PROVE  UndInv'
  BY DEF CoreSame, UndInv, UMem, UWrite, UAgree, UStart, UEnd, StartingPcs, WritingPcs, EndingPcs

\* A handler begins.
LEMMA BeginUnd ==
  ASSUME UndInv, CoreSame, UQueue', Idle, NEW kind, NEW op, NEW r, Begin(kind, op, r),
         kind \in QueuedKinds \cup {"startRound", "other"}, kind = "transitionToRound" => r # 0
  PROVE  UndInv'
  <1>1. task'.pc = kind /\ task'.arg = r
    BY DEF Begin, Free
  <1> QED BY <1>1 DEF CoreSame, UndInv, UMem, UWrite, UAgree, UStart, UEnd, StartingPcs, WritingPcs,
                      EndingPcs, QueuedKinds, Callbacks, Idle

\* A callback that asks for the guard: it begins or it waits.
LEMMA RequestUnd ==
  ASSUME TypeOK, UndInv, CoreSame, side'.completer = side.completer,
         side'.gen \in {side.gen, "idle", "confirm"},
         NEW kind \in QueuedKinds, NEW r, Request(kind, r), kind = "transitionToRound" => r # 0
  PROVE  UndInv'
  <1>1. CASE Idle /\ waiting = <<>> /\ Begin(kind, OpOf(kind), r) /\ UNCHANGED waiting
    BY <1>1, BeginUnd DEF UndInv, UQueue
  <1>2. CASE waiting' = Append(waiting, [kind |-> kind, round |-> r]) /\ task' = task
    <2>1. /\ DOMAIN waiting' = 1..(Len(waiting) + 1) /\ DOMAIN waiting = 1..Len(waiting)
          /\ \A i \in DOMAIN waiting : waiting'[i] = waiting[i]
          /\ waiting'[Len(waiting) + 1] = [kind |-> kind, round |-> r] /\ Len(waiting) \in Nat
      BY <1>2 DEF TypeOK, WaitingOK
    <2>2. \A i \in DOMAIN waiting' : i \in DOMAIN waiting \/ i = Len(waiting) + 1
      BY <2>1
    <2>3. UQueue'
      BY <2>1, <2>2 DEF UQueue, UndInv
    <2> QED BY <1>2, <2>3, CalmUnd
  <1> QED BY <1>1, <1>2 DEF Request

\* The timer and the queue.
LEMMA SchedulingUnd ==
  ASSUME TypeOK, UndInv, TimerFire \/ Dispatch
  PROVE  UndInv'
  <1>1. CASE TimerFire
    <2>1. FiredKind \in QueuedKinds /\ (FiredKind = "transitionToRound" => FiredRound # 0)
      BY <1>1 DEF TimerFire, Due, FiredKind, FiredRound, QueuedKinds, Callbacks, TypeOK, SessionOK,
         Sessions
    <2>2. CoreSame
      BY <1>1 DEF TimerFire, CoreSame, TypeOK, SessionOK, Sessions
    <2>3. Request(FiredKind, FiredRound) /\ side' = side
      BY <1>1 DEF TimerFire
    <2> QED BY <2>1, <2>2, <2>3, RequestUnd
  <1>2. CASE Dispatch
    <2>1. /\ Idle /\ waiting # <<>> /\ waiting' = Tail(waiting) /\ UNCHANGED <<mem, db, side>>
          /\ Begin(Head(waiting).kind, OpOf(Head(waiting).kind), Head(waiting).round)
      BY <1>2 DEF Dispatch
    <2>2. waiting[1].kind \in QueuedKinds /\ 1 \in DOMAIN waiting /\ Head(waiting) = waiting[1]
      BY <2>1, HeadOfQueue DEF TypeOK, Queued
    <2>3. \A i \in DOMAIN waiting' : waiting'[i] = waiting[i + 1] /\ i + 1 \in DOMAIN waiting
      BY <2>1, HeadOfQueue DEF TypeOK
    <2>4. UQueue' /\ CoreSame
      BY <2>1, <2>3 DEF UndInv, UQueue, CoreSame
    <2>5. waiting[1].kind = "transitionToRound" => waiting[1].round # 0
      BY <2>2 DEF UndInv, UQueue
    <2> QED BY <2>1, <2>2, <2>4, <2>5, BeginUnd
  <1> QED BY <1>1, <1>2

\* Requests: Go Live finds an event that is in nobody's memory.
LEMMA GuardedRequestUnd ==
  ASSUME TypeOK, Undisturbed, UndInv, GuardedRequest
  PROVE  UndInv'
  <1>1. CASE HostStart
    <2>1. /\ UNCHANGED <<mem, db, waiting, side>> /\ Idle /\ db.status = "scheduled"
          /\ task'.pc = "statusRead" /\ task'.op \in {"start", "restStart"} /\ task'.target = "lobby_open"
      BY <1>1 DEF HostStart, Free
    <2>2. ~mem.live /\ mem.status = "scheduled"
      BY <2>1 DEF UndInv, UMem, UAgree, Idle, WritingPcs
    <2> QED BY <2>1, <2>2 DEF UndInv, UMem, UWrite, UAgree, UStart, UEnd, UQueue, StartingPcs,
              WritingPcs, EndingPcs, Idle
  <1>2. CASE HostStartRound
    <2>1. CoreSame /\ UNCHANGED <<waiting, side>> /\ Idle
      BY <1>2 DEF HostStartRound, CoreSame, TypeOK, SessionOK, Sessions
    <2>2. \E kind \in {"endRound", "endRatingWindow", "completeSession", "startRound", "other"} :
            \E op : \E r : Begin(kind, op, r)
      BY <1>2 DEF HostStartRound
    <2>3. UQueue'
      BY <2>1 DEF UndInv, UQueue
    <2> QED BY <2>1, <2>2, <2>3, BeginUnd DEF QueuedKinds, Callbacks
  <1>3. CASE HostConfirmRound
    <2>1. /\ CoreSame /\ side'.completer = side.completer /\ side'.gen = "confirm" /\ Request("confirm", 0)
      BY <1>3 DEF HostConfirmRound, CoreSame, TypeOK, SideOK, Sides
    <2> QED BY <2>1, RequestUnd DEF QueuedKinds
  <1>4. CASE HostEnd
    <2>1. CoreSame /\ UNCHANGED <<waiting, side>> /\ Idle
      BY <1>4 DEF HostEnd, CoreSame, TypeOK, SessionOK, Sessions
    <2>2. \E kind \in {"endRound", "endRatingWindow", "completeSession", "startRound", "other"} :
            \E op : \E r : Begin(kind, op, r)
      BY <1>4 DEF HostEnd
    <2>3. UQueue'
      BY <2>1 DEF UndInv, UQueue
    <2> QED BY <2>1, <2>2, <2>3, BeginUnd DEF QueuedKinds, Callbacks
  <1>5. CASE HostForceCloseRating
    <2>1. CoreSame /\ UNCHANGED <<waiting, side>> /\ Idle
      BY <1>5 DEF HostForceCloseRating, CoreSame, TypeOK, SessionOK, Sessions
    <2>2. \E kind \in {"endRound", "endRatingWindow", "completeSession", "startRound", "other"} :
            \E op : \E r : Begin(kind, op, r)
      BY <1>5 DEF HostForceCloseRating
    <2>3. UQueue'
      BY <2>1 DEF UndInv, UQueue
    <2> QED BY <2>1, <2>2, <2>3, BeginUnd DEF QueuedKinds, Callbacks
  <1>6. CASE HostPause
    <2>1. mem' \in PausedSession(FALSE) /\ UNCHANGED <<db, task, waiting, side>>
      BY <1>6 DEF HostPause
    <2>2. CoreSame
      BY <2>1, PausedSame DEF CoreSame, TypeOK
    <2> QED BY <2>1, <2>2, CalmUnd DEF UndInv, UQueue
  <1>7. CASE HostResume
    BY <1>7, CalmUnd
    DEF HostResume, ResumedSession, ArmedByStatus, Armed, Undisturbed, CoreSame, UQueue, UndInv,
        TypeOK, SessionOK, Sessions, DbOK, TaskOK, Tasks, SideOK, Sides
  <1>8. CASE HostExtendRound
    BY <1>8, CalmUnd
    DEF HostExtendRound, Armed, Undisturbed, CoreSame, UQueue, UndInv, TypeOK, SessionOK, Sessions,
        DbOK, TaskOK, Tasks, SideOK, Sides
  <1>9. CASE LeaveConversation
    <2>1. /\ waiting' = Append(waiting, [kind |-> "autoEnd", round |-> 0])
          /\ UNCHANGED <<mem, db, task, side>>
      BY <1>9 DEF LeaveConversation
    <2>2. /\ DOMAIN waiting' = 1..(Len(waiting) + 1) /\ DOMAIN waiting = 1..Len(waiting)
          /\ \A i \in DOMAIN waiting : waiting'[i] = waiting[i]
          /\ waiting'[Len(waiting) + 1].kind = "autoEnd" /\ Len(waiting) \in Nat
      BY <2>1 DEF TypeOK, WaitingOK
    <2>3. \A i \in DOMAIN waiting' : i \in DOMAIN waiting \/ i = Len(waiting) + 1
      BY <2>2
    <2>4. UQueue' /\ CoreSame
      BY <2>1, <2>2, <2>3 DEF UndInv, UQueue, CoreSame
    <2> QED BY <2>1, <2>4, CalmUnd
  <1>10. CASE OtherHold
    <2>1. CoreSame /\ UNCHANGED <<waiting, side>> /\ Idle
      BY <1>10 DEF OtherHold, CoreSame, TypeOK, SessionOK, Sessions
    <2>2. \E kind \in {"endRound", "endRatingWindow", "completeSession", "startRound", "other"} :
            \E op : \E r : Begin(kind, op, r)
      BY <1>10 DEF OtherHold
    <2>3. UQueue'
      BY <2>1 DEF UndInv, UQueue
    <2> QED BY <2>1, <2>2, <2>3, BeginUnd DEF QueuedKinds, Callbacks
  <1>11. CASE RatingsComplete
    BY <1>11, CalmUnd
    DEF RatingsComplete, InGrace, Undisturbed, CoreSame, UQueue, UndInv, TypeOK, SessionOK,
        Sessions, DbOK, TaskOK, Tasks, SideOK, Sides
  <1> QED BY <1>1, <1>2, <1>3, <1>4, <1>5, <1>6, <1>7, <1>8, <1>9, <1>10, <1>11 DEF GuardedRequest

\* The tasks beside the guard: pauses, skips and no-shows.
LEMMA UnguardedUnd ==
  ASSUME TypeOK, Undisturbed, UndInv, Unguarded
  PROVE  UndInv'
  <1>1. CASE RestPause
    <2>1. mem' \in PausedSession(TRUE) /\ UNCHANGED <<db, task, waiting, side>>
      BY <1>1 DEF RestPause
    <2>2. CoreSame
      BY <2>1, PausedSame DEF CoreSame, TypeOK
    <2> QED BY <2>1, <2>2, CalmUnd DEF UndInv, UQueue
  <1>2. CASE NoShowDone
    <2>1. /\ CoreSame /\ side'.completer = side.completer /\ side'.gen = side.gen /\ Request("autoEnd", 0)
      BY <1>2 DEF NoShowDone, CoreSame, TypeOK, SideOK, Sides
    <2> QED BY <2>1, RequestUnd DEF QueuedKinds
  <1> USE DEF Undisturbed, CoreSame, UQueue, UndInv, TypeOK, SessionOK, Sessions, DbOK, TaskOK,
              Tasks, SideOK, Sides
  <1>3. CASE RestEnd
    BY <1>3, CalmUnd DEF RestEnd
  <1>4. CASE RestClaim
    BY <1>4, CalmUnd DEF RestClaim
  <1>5. CASE RestWipe
    BY <1>5, CalmUnd DEF RestWipe
  <1>6. CASE RestDrop
    BY <1>6, CalmUnd DEF RestDrop
  <1>7. CASE RestResume
    BY <1>7, CalmUnd DEF RestResume, ResumedSession, ArmedByStatus, Armed
  <1>8. CASE SkipCheck
    BY <1>8, CalmUnd DEF SkipCheck
  <1>9. CASE SkipGrace
    BY <1>9, CalmUnd DEF SkipGrace, InGrace
  <1>10. CASE NoShowScan
    BY <1>10, CalmUnd DEF NoShowScan
  <1>11. CASE NoShowMark
    BY <1>11, CalmUnd DEF NoShowMark
  <1> QED BY <1>1, <1>2, <1>3, <1>4, <1>5, <1>6, <1>7, <1>8, <1>9, <1>10, <1>11 DEF Unguarded

\* The preview leaves status and round alone.
LEMMA PreviewStepUnd ==
  ASSUME TypeOK, Undisturbed, UndInv, PreviewStep
  PROVE  UndInv'
  <1> USE DEF Undisturbed, CoreSame, UQueue, UndInv, TypeOK, SessionOK, Sessions, DbOK, TaskOK,
              Tasks, SideOK, Sides
  <1>1. CASE HostGenerateMatches
    BY <1>1, CalmUnd DEF HostGenerateMatches, GenGoto
  <1>2. CASE ReopenRead
    BY <1>2, CalmUnd DEF ReopenRead, GenGoto
  <1>3. CASE ReopenWrite
    BY <1>3, CalmUnd DEF ReopenWrite, GenGoto
  <1>4. CASE ChooseRound
    BY <1>4, CalmUnd DEF ChooseRound, GenGoto
  <1>5. CASE SurfacePlan
    BY <1>5, CalmUnd DEF SurfacePlan, GenGoto
  <1>6. CASE DeletePlan
    BY <1>6, CalmUnd DEF DeletePlan, GenReplaces, TaskLosing, SideLosing
  <1>7. CASE GeneratePlan
    BY <1>7, CalmUnd DEF GeneratePlan, GenReplaces, TaskLosing, SideLosing
  <1>8. CASE Replan
    BY <1>8, CalmUnd DEF Replan, GenGoto, ReplansAfter
  <1>9. CASE HostRegenerateMatches
    BY <1>9, CalmUnd DEF HostRegenerateMatches
  <1>10. CASE RegenerateRound
    BY <1>10, CalmUnd DEF RegenerateRound, GenReplaces, TaskLosing, SideLosing
  <1>11. CASE HostCancelPreview
    BY <1>11, CalmUnd DEF HostCancelPreview
  <1>12. CASE HostSwapMatch
    BY <1>12, CalmUnd DEF HostSwapMatch, ReplansAfter
  <1>13. CASE HostExcludeFromRound
    BY <1>13, CalmUnd DEF HostExcludeFromRound, ReplansAfter, SideLosing
  <1> QED BY <1>1, <1>2, <1>3, <1>4, <1>5, <1>6, <1>7, <1>8, <1>9, <1>10, <1>11, <1>12,
             <1>13 DEF PreviewStep

\* No join finds a live row without an ActiveSession.
LEMMA FailureUnd ==
  ASSUME TypeOK, Undisturbed, UndInv, Failure
  PROVE  UndInv'
  <1>1. CASE Flush
    BY <1>1, CalmUnd DEF Flush, CoreSame, UndInv, UQueue
  <1>2. CASE JoinRecover
    BY <1>2 DEF JoinRecover, UndInv, UAgree, LiveStatuses, Idle
  <1>3. CASE Throw \/ RestartFromRedis \/ RestartFromDb \/ RestartWithout
    BY <1>3 DEF Throw, RestartFromRedis, RestartFromDb, RestartWithout, Die, Undisturbed
  <1> QED BY <1>1, <1>2, <1>3 DEF Failure

\* The invariant holds at first and every step keeps it.
LEMMA UndInductive ==
  /\ Init => UndInv
  /\ TypeOK /\ Undisturbed /\ UndInv /\ [Next]_vars => UndInv'
  <1>1. Init => UndInv
    BY DEF Init, NoSide, Free, UndInv, UMem, UWrite, UAgree, UStart, UEnd, UQueue, StartingPcs,
           WritingPcs, EndingPcs
  <1>2. ASSUME UndInv, UNCHANGED vars PROVE UndInv'
    BY <1>2, CalmUnd DEF vars, CoreSame, UndInv, UQueue
  <1> QED BY <1>1, <1>2, GuardStepUnd, SchedulingUnd, GuardedRequestUnd, UnguardedUnd,
             PreviewStepUnd, FailureUnd
          DEF Next

\* The invariant holds throughout.
THEOREM UndCorrect == Undisturbed /\ Spec => []UndInv
  <1> SUFFICES ASSUME Undisturbed PROVE Spec => []UndInv
    OBVIOUS
  <1>1. Init => UndInv
    BY UndInductive
  <1>2. TypeOK /\ UndInv /\ [Next]_vars => UndInv'
    BY UndInductive
  <1> QED BY <1>1, <1>2, TypeCorrect, PTL DEF Spec

\* Whenever things settle, a live event is in the same phase and round in memory
\* and in its row, for every number of rounds and rooms.
THEOREM MemoryFollowsRow == Undisturbed /\ Spec => []MemoryAgreesWithDb
  <1>1. UndInv => MemoryAgreesWithDb
    BY DEF UndInv, UAgree, MemoryAgreesWithDb, Settled, Idle, WritingPcs
  <1> QED BY <1>1, UndCorrect, PTL

-----------------------------------------------------------------------------
(* Timed: a round keeps its time *)

\* Undisturbed, and none of the three that are known to take a round's timer:
\* the check of a skip, a pause at 0 ms, and a confirmation, which clears the
\* timer before the transition refuses it.
Timed == Env \cap {"reopen", "restEnd", "throw", "crash", "skips", "pauseAtExpiry", "preview"} = {}

\* The holder is about to arm the timer of the round, or to end it.
RoundPcs == {"statusRead", "statusWrite", "roundSave", "roundArm", "endRound", "rateFlip"}

\* The end of a round waits for the guard.
EndQueued == \E i \in DOMAIN waiting : waiting[i].kind = "endRound"

\* An active round runs, is paused with time left, or is being begun or ended.
TimeInv ==
  /\ side.check = 0
  /\ task.pc # "confirm" /\ \A i \in DOMAIN waiting : waiting[i].kind # "confirm"
  /\ mem.live /\ mem.status = "round_active" =>
       mem.timer = "endRound" \/ (mem.paused /\ mem.leftover) \/ task.pc \in RoundPcs \/ EndQueued

\* A timed event is undisturbed.
LEMMA TimedUndisturbed == ASSUME Timed PROVE Undisturbed
  BY DEF Timed, Undisturbed

\* A return confirms nothing.
LEMMA ReturnTime ==
  ASSUME TypeOK, Return
  PROVE  task'.pc \in {"idle", "startRound"} /\ side'.check = side.check
  BY DEF Return, ReturnTask, Released, Free, TypeOK, TaskOK, Tasks, SideOK, Sides

\* A step that leaves the timer and the round alone.
TimerSame ==
  /\ mem'.live = mem.live /\ mem'.status = mem.status /\ mem'.timer = mem.timer
  /\ mem'.paused = mem.paused /\ mem'.leftover = mem.leftover

\* The timer stays, and so does the holder.
LEMMA CalmTime ==
  ASSUME TimeInv, TimerSame, side'.check = side.check, waiting' = waiting,
         task'.pc # "confirm", task.pc \in RoundPcs => task'.pc \in RoundPcs
  PROVE  TimeInv'
  BY DEF TimeInv, TimerSame, EndQueued

\* No round is shown.
LEMMA NotPlaying ==
  ASSUME TimeInv, side'.check = side.check, waiting' = waiting, task'.pc # "confirm",
         mem'.live => mem'.status # "round_active"
  PROVE  TimeInv'
  BY DEF TimeInv

\* A round is armed, or its end is under way.
LEMMA ArmedTime ==
  ASSUME TimeInv, side'.check = side.check, waiting' = waiting, task'.pc # "confirm",
         mem'.timer = "endRound" \/ task'.pc \in RoundPcs
  PROVE  TimeInv'
  BY DEF TimeInv

\* Each step of the guard's holder: only the labels of a start or an end are
\* there while a round has no timer.
LEMMA GuardStepTime ==
  ASSUME TypeOK, Timed, UndInv, TimeInv, GuardStep
  PROVE  TimeInv'
  <1>1. CASE RoundArm
    <2>1. task.pc = "roundArm" /\ mem.live /\ waiting' = waiting
      BY <1>1 DEF RoundArm, At, UndInv, UStart
    <2>2. mem'.timer = "endRound"
      BY <1>1, <2>1 DEF RoundArm, Armed, Confirmed, TypeOK, SessionOK, Sessions
    <2>3. task'.pc # "confirm"
      BY <1>1 DEF RoundArm, ReturnTask, Free, TypeOK, TaskOK, Tasks
    <2>4. side'.check = side.check
      <3>1. PICK s : s = [side EXCEPT !.noShowDue = IF "noShow" \in Env THEN task.arg ELSE 0]
        OBVIOUS
      <3>3. side' = IF task.op = "confirm" THEN [s EXCEPT !.gen = "idle"] ELSE s
        BY <1>1, <3>1 DEF RoundArm, Released
      <3> QED BY <3>1, <3>3 DEF TypeOK, SideOK, Sides
    <2> QED BY <2>1, <2>2, <2>3, <2>4, ArmedTime
  <1> USE DEF At, UndInv, UStart, UEnd, UMem, UWrite, CanTransition, StartingPcs, WritingPcs,
              EndingPcs, TimeInv, TimerSame, RoundPcs, TypeOK, SessionOK, Sessions, TaskOK, Tasks,
              SideOK, Sides
  <1>2. CASE StatusRead
    BY <1>2, ReturnTime, CalmTime, NotPlaying, ArmedTime DEF StatusRead, Goto, AfterUpdate
  <1>3. CASE StatusWrite
    BY <1>3, ReturnTime, CalmTime, NotPlaying, ArmedTime DEF StatusWrite, Goto, AfterUpdate
  <1>4. CASE GoLive
    BY <1>4, ReturnTime, CalmTime, NotPlaying, ArmedTime DEF GoLive, Goto, NewSession
  <1>5. CASE Plan
    BY <1>5, ReturnTime, CalmTime, NotPlaying, ArmedTime DEF Plan
  <1>6. CASE StartRoundRefused
    BY <1>6, ReturnTime, CalmTime, NotPlaying, ArmedTime DEF StartRoundRefused
  <1>7. CASE StartRound
    BY <1>7, ReturnTime, CalmTime, NotPlaying, ArmedTime DEF StartRound, Cleared, NextRound
  <1>8. CASE ConfirmRound
    BY <1>8, ReturnTime, CalmTime, NotPlaying, ArmedTime DEF ConfirmRound, Cleared
  <1>9. CASE RoundRefused
    BY <1>9, ReturnTime, CalmTime, NotPlaying, ArmedTime DEF RoundRefused, Confirmed
  <1>10. CASE LoadRound
    BY <1>10, ReturnTime, CalmTime, NotPlaying, ArmedTime DEF LoadRound
  <1>11. CASE CreateRooms
    BY <1>11, ReturnTime, CalmTime, NotPlaying, ArmedTime DEF CreateRooms, Goto
  <1>12. CASE Activate
    BY <1>12, ReturnTime, CalmTime, NotPlaying, ArmedTime DEF Activate, Goto
  <1>13. CASE Flip
    BY <1>13, ReturnTime, CalmTime, NotPlaying, ArmedTime DEF Flip, UpdateStatus
  <1>14. CASE RoundSave
    BY <1>14, ReturnTime, CalmTime, NotPlaying, ArmedTime DEF RoundSave, Goto
  <1>15. CASE EndRound
    BY <1>15, ReturnTime, CalmTime, NotPlaying, ArmedTime DEF EndRound, Goto
  <1>16. CASE RateFlip
    BY <1>16, ReturnTime, CalmTime, NotPlaying, ArmedTime DEF RateFlip, UpdateStatus
  <1>17. CASE RateSave
    BY <1>17, ReturnTime, CalmTime, NotPlaying, ArmedTime DEF RateSave, Goto
  <1>18. CASE RateArm
    BY <1>18, ReturnTime, CalmTime, NotPlaying, ArmedTime DEF RateArm, Armed
  <1>19. CASE EndRatingWindow
    BY <1>19, ReturnTime, CalmTime, NotPlaying, ArmedTime DEF EndRatingWindow, Goto, Cleared
  <1>20. CASE CloseDecide
    BY <1>20, ReturnTime, CalmTime, NotPlaying, ArmedTime
    DEF CloseDecide, Goto, UpdateStatus, NextPhase
  <1>21. CASE CloseSave
    BY <1>21, ReturnTime, CalmTime, NotPlaying, ArmedTime DEF CloseSave, WithPhaseTimer, Armed
  <1>22. CASE CompleteSession
    BY <1>22, ReturnTime, CalmTime, NotPlaying, ArmedTime
    DEF CompleteSession, Goto, MemCompleting, AlreadyCompleted
  <1>23. CASE Claim
    BY <1>23, ReturnTime, CalmTime, NotPlaying, ArmedTime
    DEF Claim, Goto, MemClaimed, DbClaimed, ClaimLost
  <1>24. CASE Wipe
    BY <1>24, ReturnTime, CalmTime, NotPlaying, ArmedTime DEF Wipe, Goto, DbWiped
  <1>25. CASE Drop
    BY <1>25, ReturnTime, CalmTime, NotPlaying, ArmedTime DEF Drop, MemDropped
  <1>26. CASE AutoEnd
    BY <1>26, ReturnTime, CalmTime, NotPlaying, ArmedTime DEF AutoEnd, Begin, Free
  <1>27. CASE OtherDone
    BY <1>27, ReturnTime, CalmTime, NotPlaying, ArmedTime DEF OtherDone
  <1> QED BY <1>1, <1>2, <1>3, <1>4, <1>5, <1>6, <1>7, <1>8, <1>9, <1>10, <1>11, <1>12, <1>13,
            <1>14, <1>15, <1>16, <1>17, <1>18, <1>19, <1>20, <1>21, <1>22, <1>23, <1>24, <1>25,
            <1>26, <1>27 DEF GuardStep

\* A callback that asks for the guard.
LEMMA RequestTime ==
  ASSUME TypeOK, TimeInv, side'.check = side.check,
         NEW kind \in QueuedKinds, kind # "confirm", NEW r, Request(kind, r),
         mem'.live = mem.live, mem'.status = mem.status, mem'.paused = mem.paused,
         mem'.leftover = mem.leftover,
         mem'.timer = mem.timer \/ kind = "endRound" \/ mem.timer # "endRound"
  PROVE  TimeInv'
  <1>1. CASE Idle /\ waiting = <<>> /\ Begin(kind, OpOf(kind), r) /\ UNCHANGED waiting
    <2>1. task'.pc = kind
      BY <1>1 DEF Begin, Free
    <2> QED BY <1>1, <2>1 DEF TimeInv, EndQueued, RoundPcs, Idle
  <1>2. CASE waiting' = Append(waiting, [kind |-> kind, round |-> r]) /\ task' = task
    <2>1. /\ DOMAIN waiting' = 1..(Len(waiting) + 1) /\ DOMAIN waiting = 1..Len(waiting)
          /\ \A i \in DOMAIN waiting : waiting'[i] = waiting[i]
          /\ waiting'[Len(waiting) + 1].kind = kind /\ Len(waiting) \in Nat
      BY <1>2 DEF TypeOK, WaitingOK
    <2>2. \A i \in DOMAIN waiting' : i \in DOMAIN waiting \/ i = Len(waiting) + 1
      BY <2>1
    <2>3. \A i \in DOMAIN waiting' : waiting'[i].kind # "confirm"
      BY <2>1, <2>2 DEF TimeInv
    <2>4. EndQueued \/ kind = "endRound" => EndQueued'
      BY <2>1, <2>2 DEF EndQueued
    <2> QED BY <1>2, <2>3, <2>4 DEF TimeInv
  <1> QED BY <1>1, <1>2 DEF Request

\* A round timer that fires becomes an end that waits or runs; one that waits is
\* run or still waits.
LEMMA SchedulingTime ==
  ASSUME TypeOK, TimeInv, TimerFire \/ Dispatch
  PROVE  TimeInv'
  <1>1. CASE TimerFire
    <2>1. /\ FiredKind \in QueuedKinds /\ FiredKind # "confirm"
          /\ FiredKind = "endRound" \/ mem.timer # "endRound"
      BY <1>1 DEF TimerFire, Due, FiredKind, QueuedKinds, Callbacks
    <2>2. /\ mem'.live = mem.live /\ mem'.status = mem.status /\ mem'.paused = mem.paused
          /\ mem'.leftover = mem.leftover
      BY <1>1 DEF TimerFire, TypeOK, SessionOK, Sessions
    <2>3. Request(FiredKind, FiredRound) /\ side' = side
      BY <1>1 DEF TimerFire
    <2> QED BY <2>1, <2>2, <2>3, RequestTime
  <1>2. CASE Dispatch
    <2>1. /\ Idle /\ waiting # <<>> /\ waiting' = Tail(waiting) /\ UNCHANGED <<mem, side>>
          /\ Begin(Head(waiting).kind, OpOf(Head(waiting).kind), Head(waiting).round)
      BY <1>2 DEF Dispatch
    <2>2. /\ DOMAIN waiting = 1..Len(waiting) /\ Len(waiting) \in Nat \ {0} /\ Head(waiting) = waiting[1]
          /\ DOMAIN waiting' = 1..(Len(waiting) - 1)
          /\ \A i \in DOMAIN waiting' : waiting'[i] = waiting[i + 1] /\ i + 1 \in DOMAIN waiting
      BY <2>1, HeadOfQueue DEF TypeOK
    <2>3. task'.pc = waiting[1].kind /\ 1 \in DOMAIN waiting
      BY <2>1, <2>2 DEF Begin, Free
    <2>4. \A i \in DOMAIN waiting' : waiting'[i].kind # "confirm"
      BY <2>2 DEF TimeInv
    <2>5. EndQueued => EndQueued' \/ task'.pc = "endRound"
      <3>1. ASSUME NEW i \in DOMAIN waiting, waiting[i].kind = "endRound", i # 1
            PROVE  EndQueued'
        <4>1. i - 1 \in DOMAIN waiting' /\ (i - 1) + 1 = i
          BY <2>2, <3>1
        <4>2. waiting'[i - 1] = waiting[(i - 1) + 1]
          BY <2>2, <4>1
        <4> QED BY <3>1, <4>1, <4>2 DEF EndQueued
      <3> QED BY <2>3, <3>1 DEF EndQueued
    <2> QED BY <2>1, <2>3, <2>4, <2>5 DEF TimeInv, RoundPcs, Idle
  <1> QED BY <1>1, <1>2

\* Requests: End cancels the timer and ends the round, Pause keeps the time left.
LEMMA GuardedRequestTime ==
  ASSUME TypeOK, Timed, UndInv, TimeInv, GuardedRequest
  PROVE  TimeInv'
  <1>1. CASE HostEnd
    <2>1. Idle /\ UNCHANGED <<waiting, side>> /\ task'.pc # "confirm"
      BY <1>1 DEF HostEnd, Begin, Free
    <2>2. CASE mem.live /\ mem.status = "round_active"
      <3>1. Begin("endRound", "host", mem.round)
        BY <1>1, <2>2 DEF HostEnd
      <3>2. task'.pc = "endRound"
        BY <3>1 DEF Begin, Free
      <3> QED BY <2>1, <3>2, ArmedTime DEF RoundPcs
    <2>3. CASE ~(mem.live /\ mem.status = "round_active")
      <3>1. mem'.live = mem.live /\ mem'.status = mem.status
        BY <1>1 DEF HostEnd, TypeOK, SessionOK, Sessions
      <3> QED BY <2>1, <2>3, <3>1, NotPlaying
    <2> QED BY <2>2, <2>3
  <1>2. CASE HostPause
    <2>1. mem' \in PausedSession(FALSE) /\ UNCHANGED <<task, waiting, side>>
      BY <1>2 DEF HostPause
    <2>2. /\ mem'.live = mem.live /\ mem'.status = mem.status /\ mem'.paused = TRUE
          /\ mem'.timer = (IF Pausable THEN "none" ELSE mem.timer)
          /\ mem'.leftover = (Pausable \/ mem.leftover)
      BY <2>1, PausedSame DEF Timed, TypeOK
    <2>3. ~mem.paused
      BY <1>2 DEF HostPause
    <2> QED BY <2>1, <2>2, <2>3 DEF TimeInv, EndQueued
  <1>3. CASE LeaveConversation
    <2>1. /\ waiting' = Append(waiting, [kind |-> "autoEnd", round |-> 0])
          /\ UNCHANGED <<mem, task, side>>
      BY <1>3 DEF LeaveConversation
    <2>2. /\ DOMAIN waiting' = 1..(Len(waiting) + 1) /\ DOMAIN waiting = 1..Len(waiting)
          /\ \A i \in DOMAIN waiting : waiting'[i] = waiting[i]
          /\ waiting'[Len(waiting) + 1].kind = "autoEnd" /\ Len(waiting) \in Nat
      BY <2>1 DEF TypeOK, WaitingOK
    <2>3. \A i \in DOMAIN waiting' : i \in DOMAIN waiting \/ i = Len(waiting) + 1
      BY <2>2
    <2>4. EndQueued => EndQueued'
      BY <2>2 DEF EndQueued
    <2> QED BY <2>1, <2>2, <2>3, <2>4 DEF TimeInv
  <1> USE DEF Timed, Idle, TimeInv, TimerSame, RoundPcs, EndQueued, TypeOK, SessionOK, Sessions,
              TaskOK, Tasks, SideOK, Sides
  <1>4. CASE HostStart
    BY <1>4, CalmTime, NotPlaying, ArmedTime DEF HostStart, Begin, Free
  <1>5. CASE HostStartRound
    BY <1>5, CalmTime, NotPlaying, ArmedTime DEF HostStartRound, Begin, Free
  <1>6. CASE HostConfirmRound
    BY <1>6, CalmTime, NotPlaying, ArmedTime DEF HostConfirmRound
  <1>7. CASE HostForceCloseRating
    BY <1>7, CalmTime, NotPlaying, ArmedTime DEF HostForceCloseRating, Begin, Free
  <1>8. CASE HostResume
    BY <1>8, CalmTime, NotPlaying, ArmedTime DEF HostResume, ResumedSession, ArmedByStatus, Armed
  <1>9. CASE HostExtendRound
    BY <1>9, CalmTime, NotPlaying, ArmedTime DEF HostExtendRound, Armed
  <1>10. CASE OtherHold
    BY <1>10, CalmTime, NotPlaying, ArmedTime DEF OtherHold, Begin, Free
  <1>11. CASE RatingsComplete
    BY <1>11, CalmTime, NotPlaying, ArmedTime DEF RatingsComplete, InGrace
  <1> QED BY <1>1, <1>2, <1>3, <1>4, <1>5, <1>6, <1>7, <1>8, <1>9, <1>10, <1>11 DEF GuardedRequest

\* The tasks beside the guard.
LEMMA UnguardedTime ==
  ASSUME TypeOK, Timed, UndInv, TimeInv, Unguarded
  PROVE  TimeInv'
  <1>1. CASE RestPause
    <2>1. mem' \in PausedSession(TRUE) /\ UNCHANGED <<task, waiting, side>>
      BY <1>1 DEF RestPause
    <2>2. /\ mem'.live = mem.live /\ mem'.status = mem.status /\ mem'.paused = TRUE
          /\ mem'.timer = (IF Pausable THEN "none" ELSE mem.timer)
          /\ mem'.leftover = (Pausable \/ mem.leftover)
      BY <2>1, PausedSame DEF Timed, TypeOK
    <2>3. ~mem.paused
      BY <1>1 DEF RestPause
    <2> QED BY <2>1, <2>2, <2>3 DEF TimeInv, EndQueued
  <1>2. CASE NoShowDone
    <2>1. mem' = mem /\ side'.check = side.check /\ Request("autoEnd", 0)
      BY <1>2 DEF NoShowDone, TypeOK, SideOK, Sides
    <2> QED BY <2>1, RequestTime DEF QueuedKinds
  <1> USE DEF Timed, Idle, TimeInv, TimerSame, RoundPcs, EndQueued, TypeOK, SessionOK, Sessions,
              TaskOK, Tasks, SideOK, Sides
  <1>3. CASE RestEnd
    BY <1>3, CalmTime, NotPlaying, ArmedTime DEF RestEnd, MemCompleting
  <1>4. CASE RestClaim
    BY <1>4, CalmTime, NotPlaying, ArmedTime DEF RestClaim, MemClaimed, UndInv, UQueue
  <1>5. CASE RestWipe
    BY <1>5, CalmTime, NotPlaying, ArmedTime DEF RestWipe
  <1>6. CASE RestDrop
    BY <1>6, CalmTime, NotPlaying, ArmedTime DEF RestDrop, MemDropped
  <1>7. CASE RestResume
    BY <1>7, CalmTime, NotPlaying, ArmedTime DEF RestResume, ResumedSession, ArmedByStatus, Armed
  <1>8. CASE SkipCheck
    BY <1>8, CalmTime, NotPlaying, ArmedTime DEF SkipCheck
  <1>9. CASE SkipGrace
    BY <1>9, CalmTime, NotPlaying, ArmedTime DEF SkipGrace, InGrace
  <1>10. CASE NoShowScan
    BY <1>10, CalmTime, NotPlaying, ArmedTime DEF NoShowScan
  <1>11. CASE NoShowMark
    BY <1>11, CalmTime, NotPlaying, ArmedTime DEF NoShowMark
  <1> QED BY <1>1, <1>2, <1>3, <1>4, <1>5, <1>6, <1>7, <1>8, <1>9, <1>10, <1>11 DEF Unguarded

\* The preview has no part in it.
LEMMA PreviewStepTime ==
  ASSUME TypeOK, Timed, UndInv, TimeInv, PreviewStep
  PROVE  TimeInv'
  <1> USE DEF Timed, Idle, TimeInv, TimerSame, RoundPcs, EndQueued, TypeOK, SessionOK, Sessions,
              TaskOK, Tasks, SideOK, Sides
  <1>1. CASE HostGenerateMatches
    BY <1>1, CalmTime, NotPlaying, ArmedTime DEF HostGenerateMatches, GenGoto
  <1>2. CASE ReopenRead
    BY <1>2, CalmTime, NotPlaying, ArmedTime DEF ReopenRead, GenGoto
  <1>3. CASE ReopenWrite
    BY <1>3, CalmTime, NotPlaying, ArmedTime DEF ReopenWrite, GenGoto
  <1>4. CASE ChooseRound
    BY <1>4, CalmTime, NotPlaying, ArmedTime DEF ChooseRound, GenGoto
  <1>5. CASE SurfacePlan
    BY <1>5, CalmTime, NotPlaying, ArmedTime DEF SurfacePlan, GenGoto
  <1>6. CASE DeletePlan
    BY <1>6, CalmTime, NotPlaying, ArmedTime DEF DeletePlan, GenReplaces, TaskLosing, SideLosing
  <1>7. CASE GeneratePlan
    BY <1>7, CalmTime, NotPlaying, ArmedTime DEF GeneratePlan, GenReplaces, TaskLosing, SideLosing
  <1>8. CASE Replan
    BY <1>8, CalmTime, NotPlaying, ArmedTime DEF Replan, GenGoto, ReplansAfter
  <1>9. CASE HostRegenerateMatches
    BY <1>9, CalmTime, NotPlaying, ArmedTime DEF HostRegenerateMatches
  <1>10. CASE RegenerateRound
    BY <1>10, CalmTime, NotPlaying, ArmedTime
    DEF RegenerateRound, GenReplaces, TaskLosing, SideLosing
  <1>11. CASE HostCancelPreview
    BY <1>11, CalmTime, NotPlaying, ArmedTime DEF HostCancelPreview
  <1>12. CASE HostSwapMatch
    BY <1>12, CalmTime, NotPlaying, ArmedTime DEF HostSwapMatch, ReplansAfter
  <1>13. CASE HostExcludeFromRound
    BY <1>13, CalmTime, NotPlaying, ArmedTime DEF HostExcludeFromRound, ReplansAfter, SideLosing
  <1> QED BY <1>1, <1>2, <1>3, <1>4, <1>5, <1>6, <1>7, <1>8, <1>9, <1>10, <1>11, <1>12,
             <1>13 DEF PreviewStep

\* Nor has a failure.
LEMMA FailureTime ==
  ASSUME TypeOK, Timed, UndInv, TimeInv, Failure
  PROVE  TimeInv'
  <1>1. CASE Flush
    BY <1>1 DEF Flush, TimeInv, EndQueued
  <1>2. CASE JoinRecover
    BY <1>2 DEF JoinRecover, UndInv, UAgree, LiveStatuses, Idle
  <1>3. CASE Throw \/ RestartFromRedis \/ RestartFromDb \/ RestartWithout
    BY <1>3 DEF Throw, RestartFromRedis, RestartFromDb, RestartWithout, Die, Timed
  <1> QED BY <1>1, <1>2, <1>3 DEF Failure

\* The invariant holds at first and every step keeps it.
LEMMA TimeInductive ==
  /\ Init => TimeInv
  /\ TypeOK /\ Timed /\ UndInv /\ TimeInv /\ [Next]_vars => TimeInv'
  <1>1. Init => TimeInv
    BY DEF Init, NoSide, Free, TimeInv
  <1>2. ASSUME TimeInv, UNCHANGED vars PROVE TimeInv'
    BY <1>2 DEF vars, TimeInv, EndQueued
  <1> QED BY <1>1, <1>2, GuardStepTime, SchedulingTime, GuardedRequestTime, UnguardedTime,
             PreviewStepTime, FailureTime
          DEF Next

\* A settled round runs on its own timer or is paused with its time left kept,
\* whatever is extended, paused and resumed, for every number of rounds.
THEOREM RoundHasItsTimer == Timed /\ Spec => []RoundKeepsItsTime
  <1> SUFFICES ASSUME Timed PROVE Spec => []RoundKeepsItsTime
    OBVIOUS
  <1>1. Init => TimeInv
    BY TimeInductive
  <1>2. TypeOK /\ UndInv /\ TimeInv /\ [Next]_vars => TimeInv'
    BY TimeInductive
  <1>3. TimeInv => RoundKeepsItsTime
    BY DEF TimeInv, RoundKeepsItsTime, Settled, Idle, RoundPcs, EndQueued
  <1>4. Undisturbed
    BY TimedUndisturbed
  <1> QED BY <1>1, <1>2, <1>3, <1>4, TypeCorrect, UndCorrect, PTL DEF Spec

-----------------------------------------------------------------------------
(* Unpreviewed: an active round has a conversation *)

\* Undisturbed, and the host starts rounds and edits none of them.
Unpreviewed ==
  Env \cap {"reopen", "restEnd", "throw", "crash", "preview", "rematch", "exclude"} = {}

\* The holder is the check of an empty round, or ends the round.
EmptyPcs == {"autoEnd", "endRound", "rateFlip"}

\* The check of an empty round, or its end, is on its way.
Coming ==
  \/ side.nsRound # 0 \/ task.pc \in EmptyPcs
  \/ \E i \in DOMAIN waiting : waiting[i].kind \in {"autoEnd", "endRound"}
Talk(r) == \E m \in Rooms : rows[r][m] = "active"
TalkNext(r) == \E m \in Rooms : rows'[r][m] = "active"

\* The rows a start has loaded are not none; from the activation on, somebody
\* talks in the round or the check is coming.
RoomInv ==
  /\ side.gen = "idle" /\ mem.pending = 0
  /\ task.pc \in {"createRooms", "activate"} => task.batch # {}
  /\ task.pc = "flip" => Talk(task.arg) \/ Coming
  /\ mem.live /\ mem.status = "round_active" => Talk(mem.round) \/ Coming

\* A step that leaves the active rows, the round shown and what is coming.
CalmRoom ==
  /\ side'.gen = "idle" /\ mem'.pending = 0 /\ side'.nsRound = side.nsRound
  /\ \A r \in Rounds, m \in Rooms : rows[r][m] = "active" => rows'[r][m] = "active"
  /\ \A i \in DOMAIN waiting : i \in DOMAIN waiting' /\ waiting'[i] = waiting[i]

\* Then those who talk go on talking,
LEMMA CalmTalk ==
  ASSUME CalmRoom, NEW r \in Rounds, Talk(r)
  PROVE  TalkNext(r)
  BY DEF CalmRoom, Talk, TalkNext

\* and what is coming comes.
LEMMA CalmComing ==
  ASSUME CalmRoom, Coming, task.pc \in EmptyPcs => task'.pc \in EmptyPcs
  PROVE  Coming'
  BY DEF CalmRoom, Coming

\* The guard's holder where it was, or neither at the check nor starting.
LEMMA StayRoom ==
  ASSUME TypeOK, UndInv, RoomInv, CalmRoom,
         \/ task'.pc = task.pc /\ task'.arg = task.arg /\ task'.batch = task.batch
         \/ task.pc \notin EmptyPcs /\ task'.pc \notin {"createRooms", "activate", "flip"},
         mem'.live /\ mem'.status = "round_active" =>
           mem.live /\ mem.status = "round_active" /\ mem'.round = mem.round
  PROVE  RoomInv'
  <1>1. mem.status = "round_active" => mem.round \in Rounds
    BY DEF UndInv, UMem, TypeOK, SessionOK, Sessions, Rounds
  <1>2. task.pc = "flip" => task.arg \in Rounds
    BY DEF UndInv, UStart, StartingPcs, TypeOK, TaskOK, Tasks, Rounds
  <1>3. Coming => Coming'
    BY CalmComing
  <1>4. mem.live /\ mem.status = "round_active" => TalkNext(mem.round) \/ Coming'
    BY <1>1, <1>3, CalmTalk DEF RoomInv
  <1>5. task.pc = "flip" => TalkNext(task.arg) \/ Coming'
    BY <1>2, <1>3, CalmTalk DEF RoomInv
  <1>6. mem'.live /\ mem'.status = "round_active" => TalkNext(mem'.round) \/ Coming'
    BY <1>4
  <1>7. task'.pc = "flip" => TalkNext(task'.arg) \/ Coming'
    BY <1>5 DEF UndInv
  <1> QED BY <1>6, <1>7 DEF RoomInv, CalmRoom, Talk, TalkNext

\* A return leaves the no-show detection alone.
LEMMA ReturnRoom ==
  ASSUME TypeOK, RoomInv, Return
  PROVE  /\ task'.pc \in {"idle", "startRound"}
         /\ side'.gen = "idle" /\ side'.nsRound = side.nsRound
  BY DEF RoomInv, Return, ReturnTask, Released, Free, TypeOK, TaskOK, Tasks, SideOK, Sides

\* A plan touches no active row,
LEMMA ReplannedKeeps ==
  ASSUME RowsOK, NEW r, NEW G, rows' = Replanned(rows, r, G)
  PROVE  \A q \in Rounds, m \in Rooms : rows[q][m] = "active" => rows'[q][m] = "active"
  BY DEF Replanned, RowsOK, MatchRows

\* nor do rows generated into free slots.
LEMMA FreeSlotsKeep ==
  ASSUME RowsOK, NEW r, NEW S, S \subseteq FreeSlots(r), NEW status, rows' = SetRows(rows, r, S, status)
  PROVE  \A q \in Rounds, m \in Rooms : rows[q][m] = "active" => rows'[q][m] = "active"
  BY DEF FreeSlots, RowsIn, SetRows, RowsOK, MatchRows

\* Each step of the guard's holder: the activation makes a conversation, the
\* check finds one or ends the round.
LEMMA GuardStepRoom ==
  ASSUME TypeOK, Unpreviewed, UndInv, RoomInv, GuardStep
  PROVE  RoomInv'
  <1>1. CASE Plan
    <2>1. /\ task.pc = "plan" /\ Return /\ UNCHANGED <<mem, waiting>>
          /\ \E G \in SUBSET Rooms : rows' = Replanned(rows, 1, G)
      BY <1>1 DEF Plan, At
    <2>2. \A q \in Rounds, m \in Rooms : rows[q][m] = "active" => rows'[q][m] = "active"
      BY <2>1, ReplannedKeeps DEF TypeOK
    <2> QED BY <2>1, <2>2, ReturnRoom, StayRoom DEF CalmRoom, RoomInv, EmptyPcs
  <1>2. CASE LoadRound
    <2>1. /\ task.pc = "transitionToRound" /\ UNCHANGED <<mem, waiting>>
          /\ mem.live /\ CanTransition(mem.status, "round_active")
      BY <1>2 DEF LoadRound, At
    <2>2. mem.status # "round_active"
      BY <2>1 DEF CanTransition
    <2>3. CASE Return
      BY <2>1, <2>2, <2>3, ReturnRoom DEF RoomInv
    <2>4. CASE ~Return
      <3>1. side' = side /\ task'.pc = "createRooms" /\ task'.batch # {}
        BY <1>2, <2>4 DEF LoadRound, TypeOK, TaskOK, Tasks
      <3> QED BY <2>1, <2>2, <3>1 DEF RoomInv
    <2> QED BY <2>3, <2>4
  <1>3. CASE CreateRooms
    <2>1. /\ task.pc = "createRooms" /\ UNCHANGED <<mem, waiting>>
          /\ mem.live /\ CanTransition(mem.status, "round_active")
      BY <1>3 DEF CreateRooms, At, UndInv, UStart, StartingPcs
    <2>2. mem.status # "round_active"
      BY <2>1 DEF CanTransition
    <2>3. CASE Return
      BY <2>1, <2>2, <2>3, ReturnRoom DEF RoomInv
    <2>4. CASE ~Return
      <3>1. side' = side /\ task'.pc = "activate" /\ task'.batch = task.batch
        BY <1>3, <2>4 DEF CreateRooms, Goto, TypeOK, TaskOK, Tasks
      <3> QED BY <2>1, <2>2, <3>1 DEF RoomInv
    <2> QED BY <2>3, <2>4
  <1>4. CASE Activate
    <2>1. /\ task.pc = "activate" /\ UNCHANGED <<mem, waiting, side>>
          /\ task'.pc = "flip" /\ task'.arg = task.arg
          /\ mem.live /\ CanTransition(mem.status, "round_active") /\ task.arg \in Rounds
      BY <1>4 DEF Activate, At, Goto, UndInv, UStart, StartingPcs, TypeOK, TaskOK, Tasks, Rounds
    <2>2. mem.status # "round_active"
      BY <2>1 DEF CanTransition
    <2>3. PICK m \in Rooms : m \in task.batch
      BY <2>1 DEF RoomInv, TypeOK, TaskOK, Tasks
    <2>4. rows'[task.arg][m] = "active"
      BY <1>4, <2>1, <2>3 DEF Activate, SetRows, TypeOK, RowsOK, MatchRows
    <2> QED BY <2>1, <2>2, <2>4 DEF RoomInv, Talk
  <1>5. CASE Flip
    <2>1. /\ task.pc = "flip" /\ UNCHANGED <<rows, waiting, side>>
          /\ mem'.round = task.arg /\ mem'.pending = mem.pending /\ task'.pc = "statusRead"
      BY <1>5 DEF Flip, At, UpdateStatus, TypeOK, SessionOK, Sessions, TaskOK, Tasks
    <2>2. TalkNext(mem'.round) \/ Coming'
      BY <2>1 DEF RoomInv, Talk, TalkNext, Coming, EmptyPcs
    <2> QED BY <2>1, <2>2 DEF RoomInv, Talk, TalkNext
  <1>6. CASE RoundArm
    <2>1. /\ task.pc = "roundArm" /\ UNCHANGED <<rows, waiting>>
          /\ task'.pc \in {"idle", "startRound"}
      BY <1>6 DEF RoundArm, At, ReturnTask, Free, TypeOK, TaskOK, Tasks
    <2>2. /\ mem'.live = mem.live /\ mem'.status = mem.status /\ mem'.round = mem.round /\ mem'.pending = 0
      BY <1>6 DEF RoundArm, RoomInv, Armed, Confirmed, TypeOK, SessionOK, Sessions
    <2>3. side'.gen = "idle" /\ side'.nsRound = side.nsRound
      <3>1. PICK s : s = [side EXCEPT !.noShowDue = IF "noShow" \in Env THEN task.arg ELSE 0]
        OBVIOUS
      <3>3. side' = IF task.op = "confirm" THEN [s EXCEPT !.gen = "idle"] ELSE s
        BY <1>6, <3>1 DEF RoundArm, Released
      <3> QED BY <3>1, <3>3 DEF RoomInv, TypeOK, SideOK, Sides
    <2> QED BY <2>1, <2>2, <2>3, StayRoom DEF CalmRoom, EmptyPcs
  <1>7. CASE EndRound
    <2>1. task.pc = "endRound" /\ UNCHANGED <<mem, waiting>>
      BY <1>7 DEF EndRound, At
    <2>2. CASE Return
      <3>1. ~(mem.live /\ mem.status = "round_active")
        BY <1>7, <2>2 DEF EndRound, CanTransition, Return, ReturnTask, Goto, Free, TypeOK, TaskOK, Tasks
      <3> QED BY <2>1, <2>2, <3>1, ReturnRoom DEF RoomInv
    <2>3. CASE ~Return
      <3>1. side' = side /\ task'.pc = "rateFlip"
        BY <1>7, <2>3 DEF EndRound, Goto, TypeOK, TaskOK, Tasks
      <3> QED BY <2>1, <3>1 DEF RoomInv, Coming, EmptyPcs
    <2> QED BY <2>2, <2>3
  <1>8. CASE RateFlip
    <2>1. mem.live /\ mem.status = "round_active"
      BY <1>8 DEF RateFlip, At, UndInv, UEnd
    <2>2. /\ mem'.status = "round_rating" /\ mem'.pending = mem.pending
          /\ side' = side /\ task'.pc = "statusRead"
      BY <1>8, <2>1 DEF RateFlip, CanTransition, UpdateStatus, TypeOK, SessionOK, Sessions, TaskOK, Tasks
    <2> QED BY <2>2 DEF RoomInv
  <1>9. CASE CloseDecide
    <2>1. mem.live /\ mem.status = "round_rating" /\ task.pc = "finalize"
      BY <1>9 DEF CloseDecide, At, UndInv, UEnd
    <2>2. mem'.status # "round_active" /\ mem'.pending = mem.pending
      BY <1>9, <2>1 DEF CloseDecide, NextPhase, TypeOK, SessionOK, Sessions
    <2>3. side' = side /\ task'.pc \in {"completeSession", "statusRead"}
      BY <1>9, <2>1 DEF CloseDecide, Goto, UpdateStatus, TypeOK, TaskOK, Tasks
    <2> QED BY <2>2, <2>3 DEF RoomInv
  <1>10. CASE Claim
    <2>1. task.pc = "claim" /\ (mem.live => mem.status = "completed")
      BY <1>10 DEF Claim, At, UndInv, UMem, EndingPcs
    <2>2. mem'.status = mem.status /\ mem'.pending = mem.pending /\ (mem'.live => mem.live)
      BY <1>10 DEF Claim, MemClaimed, TypeOK, SessionOK, Sessions
    <2>3. side'.gen = "idle" /\ task'.pc \in {"idle", "startRound", "wipe"}
      BY <1>10, ReturnRoom DEF Claim, RoomInv, Goto, TypeOK, TaskOK, Tasks
    <2> QED BY <2>1, <2>2, <2>3 DEF RoomInv
  <1>11. CASE Wipe
    <2>1. task.pc = "wipe" /\ (mem.live => mem.status = "completed")
      BY <1>11 DEF Wipe, At, UndInv, UMem, EndingPcs
    <2>2. mem' = mem /\ side' = side /\ task'.pc = "drop"
      BY <1>11 DEF Wipe, Goto, TypeOK, TaskOK, Tasks
    <2> QED BY <2>1, <2>2 DEF RoomInv
  <1>12. CASE AutoEnd
    <2>1. task.pc = "autoEnd" /\ UNCHANGED <<mem, rows, waiting>>
      BY <1>12 DEF AutoEnd, At
    <2>2. CASE Return
      <3>1. mem.live /\ mem.status = "round_active" => Talk(mem.round)
        <4>1. CASE mem.live /\ mem.status = "round_active" /\ RowsIn(mem.round, {"active"}) = {}
          <5>1. mem.round # 0
            BY <4>1 DEF UndInv, UMem
          <5>2. Begin("endRound", "timer", mem.round)
            BY <1>12, <4>1, <5>1 DEF AutoEnd
          <5> QED BY <2>2, <5>2, ReturnRoom DEF Begin, Free
        <4> QED BY <4>1 DEF RowsIn, Talk
      <3> QED BY <2>1, <2>2, <3>1, ReturnRoom DEF RoomInv, Talk
    <2>3. CASE ~Return
      <3>1. Begin("endRound", "timer", mem.round) /\ side' = side
        BY <1>12, <2>3 DEF AutoEnd
      <3>2. task'.pc = "endRound"
        BY <3>1 DEF Begin, Free
      <3> QED BY <2>1, <3>1, <3>2 DEF RoomInv, Coming, EmptyPcs
    <2> QED BY <2>2, <2>3
  <1> USE DEF At, RoomInv, CalmRoom, EmptyPcs, TypeOK, SessionOK, Sessions, TaskOK, Tasks, SideOK,
              Sides
  <1>13. CASE StatusRead
    BY <1>13, StayRoom, ReturnRoom DEF StatusRead, Goto, AfterUpdate
  <1>14. CASE StatusWrite
    BY <1>14, StayRoom, ReturnRoom DEF StatusWrite, Goto, AfterUpdate
  <1>15. CASE GoLive
    BY <1>15, StayRoom, ReturnRoom DEF GoLive, Goto, NewSession
  <1>16. CASE StartRoundRefused
    BY <1>16, StayRoom, ReturnRoom DEF StartRoundRefused
  <1>17. CASE StartRound
    BY <1>17, StayRoom, ReturnRoom DEF StartRound, Cleared, NextRound
  <1>18. CASE ConfirmRound
    BY <1>18, StayRoom, ReturnRoom DEF ConfirmRound, Cleared
  <1>19. CASE RoundRefused
    BY <1>19, StayRoom, ReturnRoom DEF RoundRefused, Confirmed
  <1>20. CASE RoundSave
    BY <1>20, StayRoom, ReturnRoom DEF RoundSave, Goto
  <1>21. CASE RateSave
    BY <1>21, StayRoom, ReturnRoom DEF RateSave, Goto
  <1>22. CASE RateArm
    BY <1>22, StayRoom, ReturnRoom DEF RateArm, Armed
  <1>23. CASE EndRatingWindow
    BY <1>23, StayRoom, ReturnRoom DEF EndRatingWindow, Goto, Cleared
  <1>24. CASE CloseSave
    BY <1>24, StayRoom, ReturnRoom DEF CloseSave, WithPhaseTimer, Armed
  <1>25. CASE CompleteSession
    BY <1>25, StayRoom, ReturnRoom DEF CompleteSession, Goto, MemCompleting, AlreadyCompleted
  <1>26. CASE Drop
    BY <1>26, StayRoom, ReturnRoom DEF Drop, MemDropped
  <1>27. CASE OtherDone
    BY <1>27, StayRoom, ReturnRoom DEF OtherDone
  <1> QED BY <1>1, <1>2, <1>3, <1>4, <1>5, <1>6, <1>7, <1>8, <1>9, <1>10, <1>11, <1>12, <1>13,
            <1>14, <1>15, <1>16, <1>17, <1>18, <1>19, <1>20, <1>21, <1>22, <1>23, <1>24, <1>25,
            <1>26, <1>27 DEF GuardStep

\* A callback that asks for the guard; the no-show detection hands over to its check.
LEMMA RequestRoom ==
  ASSUME TypeOK, UndInv, RoomInv, UNCHANGED rows, side'.gen = "idle",
         mem'.live = mem.live, mem'.status = mem.status, mem'.round = mem.round, mem'.pending = 0,
         NEW kind \in QueuedKinds, NEW r, Request(kind, r),
         side'.nsRound = side.nsRound \/ kind = "autoEnd"
  PROVE  RoomInv'
  <1>1. CASE Idle /\ waiting = <<>> /\ Begin(kind, OpOf(kind), r) /\ UNCHANGED waiting
    <2>1. task'.pc = kind
      BY <1>1 DEF Begin, Free
    <2> QED BY <1>1, <2>1 DEF RoomInv, Coming, Talk, EmptyPcs, Idle, QueuedKinds, Callbacks
  <1>2. CASE waiting' = Append(waiting, [kind |-> kind, round |-> r]) /\ task' = task
    <2>1. /\ DOMAIN waiting' = 1..(Len(waiting) + 1) /\ DOMAIN waiting = 1..Len(waiting)
          /\ \A i \in DOMAIN waiting : waiting'[i] = waiting[i]
          /\ waiting'[Len(waiting) + 1].kind = kind /\ Len(waiting) \in Nat
      BY <1>2 DEF TypeOK, WaitingOK
    <2>2. Coming => Coming'
      BY <1>2, <2>1 DEF Coming
    <2> QED BY <1>2, <2>2 DEF RoomInv, Talk
  <1> QED BY <1>1, <1>2 DEF Request

\* A check that waited runs or still waits.
LEMMA SchedulingRoom ==
  ASSUME TypeOK, UndInv, RoomInv, TimerFire \/ Dispatch
  PROVE  RoomInv'
  <1>1. CASE TimerFire
    <2>1. FiredKind \in QueuedKinds
      BY <1>1, FiredKindType DEF TimerFire, TypeOK
    <2>2. /\ mem'.live = mem.live /\ mem'.status = mem.status /\ mem'.round = mem.round
          /\ mem'.pending = mem.pending
      BY <1>1 DEF TimerFire, TypeOK, SessionOK, Sessions
    <2>3. Request(FiredKind, FiredRound) /\ UNCHANGED <<rows, side>>
      BY <1>1 DEF TimerFire
    <2> QED BY <2>1, <2>2, <2>3, RequestRoom DEF RoomInv
  <1>2. CASE Dispatch
    <2>1. /\ Idle /\ waiting # <<>> /\ waiting' = Tail(waiting) /\ UNCHANGED <<mem, rows, side>>
          /\ Begin(Head(waiting).kind, OpOf(Head(waiting).kind), Head(waiting).round)
      BY <1>2 DEF Dispatch
    <2>2. /\ DOMAIN waiting = 1..Len(waiting) /\ Len(waiting) \in Nat \ {0} /\ Head(waiting) = waiting[1]
          /\ DOMAIN waiting' = 1..(Len(waiting) - 1)
          /\ \A i \in DOMAIN waiting' : waiting'[i] = waiting[i + 1] /\ i + 1 \in DOMAIN waiting
      BY <2>1, HeadOfQueue DEF TypeOK
    <2>3. task'.pc = waiting[1].kind /\ 1 \in DOMAIN waiting /\ waiting[1].kind \in QueuedKinds
      BY <2>1, <2>2, HeadOfQueue DEF Begin, Free, Queued, TypeOK
    <2>5. Coming => Coming'
      <3>1. ASSUME NEW i \in DOMAIN waiting, waiting[i].kind \in {"autoEnd", "endRound"}, i # 1
            PROVE  \E j \in DOMAIN waiting' : waiting'[j].kind \in {"autoEnd", "endRound"}
        <4>1. i - 1 \in DOMAIN waiting' /\ (i - 1) + 1 = i
          BY <2>2, <3>1
        <4>2. waiting'[i - 1] = waiting[(i - 1) + 1]
          BY <2>2, <4>1
        <4> QED BY <3>1, <4>1, <4>2
      <3> QED BY <2>1, <2>3, <3>1 DEF Coming, EmptyPcs, Idle
    <2> QED BY <2>1, <2>3, <2>5 DEF RoomInv, Talk, QueuedKinds, Callbacks
  <1> QED BY <1>1, <1>2

\* Somebody who leaves queues the check.
LEMMA GuardedRequestRoom ==
  ASSUME TypeOK, Unpreviewed, UndInv, RoomInv, GuardedRequest
  PROVE  RoomInv'
  <1>1. CASE HostEnd
    <2>1. /\ mem'.live = mem.live /\ mem'.status = mem.status /\ mem'.round = mem.round
          /\ mem'.pending = mem.pending
      BY <1>1 DEF HostEnd, TypeOK, SessionOK, Sessions
    <2>2. /\ task.pc = "idle" /\ UNCHANGED <<rows, waiting, side>>
          /\ task'.pc \in {"endRound", "endRatingWindow", "completeSession"}
      BY <1>1 DEF HostEnd, Idle, Begin, Free
    <2> QED BY <2>1, <2>2, StayRoom DEF CalmRoom, RoomInv, EmptyPcs
  <1>2. CASE HostPause
    <2>1. mem' \in PausedSession(FALSE) /\ UNCHANGED <<rows, task, waiting, side>>
      BY <1>2 DEF HostPause
    <2>2. /\ mem'.live = mem.live /\ mem'.status = mem.status /\ mem'.round = mem.round
          /\ mem'.pending = mem.pending
      BY <2>1, PausedSame DEF TypeOK
    <2> QED BY <2>1, <2>2, StayRoom DEF CalmRoom, RoomInv
  <1>3. CASE LeaveConversation
    <2>1. /\ waiting' = Append(waiting, [kind |-> "autoEnd", round |-> 0])
          /\ Idle /\ UNCHANGED <<mem, task, side>>
      BY <1>3 DEF LeaveConversation
    <2>2. /\ DOMAIN waiting' = 1..(Len(waiting) + 1)
          /\ waiting'[Len(waiting) + 1].kind = "autoEnd" /\ Len(waiting) \in Nat
      BY <2>1 DEF TypeOK, WaitingOK
    <2>3. Coming'
      BY <2>2 DEF Coming
    <2> QED BY <2>1, <2>3 DEF RoomInv, Idle
  <1> USE DEF Unpreviewed, Idle, RoomInv, CalmRoom, EmptyPcs, TypeOK, SessionOK, Sessions, TaskOK,
              Tasks, SideOK, Sides
  <1>4. CASE HostStart
    BY <1>4, StayRoom DEF HostStart, Begin, Free
  <1>5. CASE HostStartRound
    BY <1>5, StayRoom DEF HostStartRound, Begin, Free
  <1>6. CASE HostConfirmRound
    BY <1>6, StayRoom DEF HostConfirmRound
  <1>7. CASE HostForceCloseRating
    BY <1>7, StayRoom DEF HostForceCloseRating, Begin, Free
  <1>8. CASE HostResume
    BY <1>8, StayRoom DEF HostResume, ResumedSession, ArmedByStatus, Armed
  <1>9. CASE HostExtendRound
    BY <1>9, StayRoom DEF HostExtendRound, Armed
  <1>10. CASE OtherHold
    BY <1>10, StayRoom DEF OtherHold, Begin, Free
  <1>11. CASE RatingsComplete
    BY <1>11, StayRoom DEF RatingsComplete, InGrace
  <1> QED BY <1>1, <1>2, <1>3, <1>4, <1>5, <1>6, <1>7, <1>8, <1>9, <1>10, <1>11 DEF GuardedRequest

\* No-shows are marked while their check is due.
LEMMA UnguardedRoom ==
  ASSUME TypeOK, Unpreviewed, UndInv, RoomInv, Unguarded
  PROVE  RoomInv'
  <1>1. CASE RestPause
    <2>1. mem' \in PausedSession(TRUE) /\ UNCHANGED <<rows, task, waiting, side>>
      BY <1>1 DEF RestPause
    <2>2. /\ mem'.live = mem.live /\ mem'.status = mem.status /\ mem'.round = mem.round
          /\ mem'.pending = mem.pending
      BY <2>1, PausedSame DEF TypeOK
    <2> QED BY <2>1, <2>2, StayRoom DEF CalmRoom, RoomInv
  <1>2. CASE NoShowScan
    <2>1. UNCHANGED <<mem, rows, task, waiting>> /\ side'.gen = side.gen /\ side.nsRound = 0
      BY <1>2 DEF NoShowScan, TypeOK, SideOK, Sides
    <2> QED BY <2>1 DEF RoomInv, Coming, Talk
  <1>3. CASE NoShowMark
    <2>1. /\ UNCHANGED <<mem, task, waiting>> /\ side'.gen = side.gen
          /\ side.nsRound # 0 /\ side'.nsRound = side.nsRound
      BY <1>3 DEF NoShowMark, TypeOK, SideOK, Sides
    <2> QED BY <2>1 DEF RoomInv, Coming
  <1>4. CASE NoShowDone
    <2>1. UNCHANGED <<mem, rows>> /\ side'.gen = side.gen /\ Request("autoEnd", 0)
      BY <1>4 DEF NoShowDone, TypeOK, SideOK, Sides
    <2> QED BY <2>1, RequestRoom DEF QueuedKinds, RoomInv
  <1> USE DEF Unpreviewed, Idle, RoomInv, CalmRoom, EmptyPcs, TypeOK, SessionOK, Sessions, TaskOK,
              Tasks, SideOK, Sides
  <1>5. CASE RestEnd
    BY <1>5, StayRoom DEF RestEnd, MemCompleting
  <1>6. CASE RestClaim
    BY <1>6, StayRoom DEF RestClaim, UndInv, UQueue
  <1>7. CASE RestWipe
    BY <1>7, StayRoom DEF RestWipe, UndInv, UQueue
  <1>8. CASE RestDrop
    BY <1>8, StayRoom DEF RestDrop, UndInv, UQueue
  <1>9. CASE RestResume
    BY <1>9, StayRoom DEF RestResume, ResumedSession, ArmedByStatus, Armed
  <1>10. CASE SkipCheck
    BY <1>10, StayRoom DEF SkipCheck
  <1>11. CASE SkipGrace
    BY <1>11, StayRoom DEF SkipGrace, InGrace
  <1> QED BY <1>1, <1>2, <1>3, <1>4, <1>5, <1>6, <1>7, <1>8, <1>9, <1>10, <1>11 DEF Unguarded

\* There is no preview.
LEMMA PreviewStepRoom ==
  ASSUME Unpreviewed, RoomInv, PreviewStep
  PROVE  FALSE
  BY DEF PreviewStep, HostGenerateMatches, ReopenRead, ReopenWrite, ChooseRound, SurfacePlan,
         DeletePlan, GeneratePlan, Replan, HostRegenerateMatches, RegenerateRound,
         HostCancelPreview, HostSwapMatch, HostExcludeFromRound, Unpreviewed, RoomInv

\* And no failure.
LEMMA FailureRoom ==
  ASSUME TypeOK, Unpreviewed, UndInv, RoomInv, Failure
  PROVE  RoomInv'
  <1>1. CASE Flush
    BY <1>1 DEF Flush, RoomInv, Coming, Talk
  <1>2. CASE JoinRecover
    BY <1>2 DEF JoinRecover, UndInv, UAgree, LiveStatuses, Idle
  <1>3. CASE Throw \/ RestartFromRedis \/ RestartFromDb \/ RestartWithout
    BY <1>3 DEF Throw, RestartFromRedis, RestartFromDb, RestartWithout, Die, Unpreviewed
  <1> QED BY <1>1, <1>2, <1>3 DEF Failure

\* The invariant holds at first and every step keeps it.
LEMMA RoomInductive ==
  /\ Init => RoomInv
  /\ TypeOK /\ Unpreviewed /\ UndInv /\ RoomInv /\ [Next]_vars => RoomInv'
  <1>1. Init => RoomInv
    BY DEF Init, NoSide, Free, RoomInv
  <1>2. ASSUME RoomInv, UNCHANGED vars PROVE RoomInv'
    BY <1>2 DEF vars, RoomInv, Coming, Talk
  <1> QED BY <1>1, <1>2, GuardStepRoom, SchedulingRoom, GuardedRequestRoom, UnguardedRoom,
             PreviewStepRoom, FailureRoom
          DEF Next

\* An active round has a conversation going on, or the check that ends an empty
\* round is on its way, whoever leaves, does not show up or gets no room.
THEOREM RoundIsInhabited == Unpreviewed /\ Spec => []ActiveRoundHasRoom
  <1> SUFFICES ASSUME Unpreviewed PROVE Spec => []ActiveRoundHasRoom
    OBVIOUS
  <1>1. Init => RoomInv
    BY RoomInductive
  <1>2. TypeOK /\ UndInv /\ RoomInv /\ [Next]_vars => RoomInv'
    BY RoomInductive
  <1>3. RoomInv => ActiveRoundHasRoom
    BY DEF RoomInv, ActiveRoundHasRoom, Talk, RowsIn, Coming, EmptyPcs
  <1>4. Undisturbed
    BY DEF Unpreviewed, Undisturbed
  <1> QED BY <1>1, <1>2, <1>3, <1>4, TypeCorrect, UndCorrect, PTL DEF Spec

-----------------------------------------------------------------------------
(* Orderly: the event refines the abstract one *)

\* Undisturbed, with Start Round the only way to a round: no preview, no pause.
Orderly ==
  Env \cap {"reopen", "restEnd", "throw", "crash", "preview", "rematch", "pause", "restPause"} = {}

\* No timer and no confirmation starts a round; the one being started is the next.
OrderInv ==
  /\ side.gen = "idle" /\ mem.pending = 0
  /\ ~mem.leftover /\ mem.timer # "transitionToRound"
  /\ task.pc # "confirm"
  /\ \A i \in DOMAIN waiting : waiting[i].kind \notin {"transitionToRound", "confirm"}
  /\ task.pc \in StartPcs => task.arg = mem.round + 1

\* A step that starts no round.
LEMMA CalmOrder ==
  ASSUME OrderInv, side'.gen = "idle", waiting' = waiting,
         mem'.pending = 0, ~mem'.leftover, mem'.timer # "transitionToRound",
         \/ task'.pc \notin StartPcs \cup {"confirm"}
         \/ mem'.round = mem.round /\ task'.arg = task.arg /\ task.pc \in StartPcs /\ task'.pc # "confirm"
  PROVE  OrderInv'
  BY DEF OrderInv, StartPcs

\* A return starts nothing.
LEMMA ReturnOrder ==
  ASSUME TypeOK, OrderInv, Return
  PROVE  task'.pc \in {"idle", "startRound"} /\ side'.gen = "idle"
  BY DEF OrderInv, Return, ReturnTask, Released, Free, TypeOK, TaskOK, Tasks, SideOK, Sides

\* Each step of the guard's holder: Start Round names the next round, and no
\* other round is shown in between.
LEMMA GuardStepOrder ==
  ASSUME TypeOK, Orderly, UndInv, OrderInv, GuardStep
  PROVE  OrderInv'
  <1>1. CASE StartRound
    <2>1. /\ mem'.pending = 0 /\ ~mem'.leftover /\ mem'.timer = "none" /\ mem'.round = mem.round
          /\ task'.pc = "transitionToRound" /\ task'.arg = NextRound(mem)
          /\ UNCHANGED <<waiting, side>>
      BY <1>1 DEF StartRound, Cleared, OrderInv, TypeOK, SessionOK, Sessions, TaskOK, Tasks
    <2>2. NextRound(mem) = mem.round + 1
      BY DEF NextRound, UndInv, UMem, TypeOK, SessionOK, Sessions
    <2> QED BY <2>1, <2>2 DEF OrderInv
  <1>2. CASE RoundArm
    <2>1. waiting' = waiting /\ task'.pc \in {"idle", "startRound"}
      BY <1>2 DEF RoundArm, At, ReturnTask, Free, TypeOK, TaskOK, Tasks
    <2>2. mem'.pending = 0 /\ ~mem'.leftover /\ mem'.timer # "transitionToRound"
      BY <1>2 DEF RoundArm, OrderInv, Armed, Confirmed, TypeOK, SessionOK, Sessions
    <2>3. side'.gen = "idle"
      <3>1. PICK s : s = [side EXCEPT !.noShowDue = IF "noShow" \in Env THEN task.arg ELSE 0]
        OBVIOUS
      <3>3. side' = IF task.op = "confirm" THEN [s EXCEPT !.gen = "idle"] ELSE s
        BY <1>2, <3>1 DEF RoundArm, Released
      <3> QED BY <3>1, <3>3 DEF OrderInv, TypeOK, SideOK, Sides
    <2> QED BY <2>1, <2>2, <2>3, CalmOrder DEF StartPcs
  <1>3. CASE RateFlip
    <2>1. mem.live /\ mem.status = "round_active" /\ waiting' = waiting
      BY <1>3 DEF RateFlip, At, UndInv, UEnd
    <2>2. /\ mem'.pending = 0 /\ ~mem'.leftover /\ mem'.timer = mem.timer
          /\ side' = side /\ task'.pc = "statusRead"
      BY <1>3, <2>1 DEF RateFlip, CanTransition, UpdateStatus, OrderInv, TypeOK, SessionOK, Sessions,
         TaskOK, Tasks
    <2> QED BY <2>1, <2>2, CalmOrder DEF OrderInv, StartPcs
  <1>4. CASE CloseDecide
    <2>1. mem.live /\ mem.status = "round_rating" /\ task.pc = "finalize" /\ waiting' = waiting
      BY <1>4 DEF CloseDecide, At, UndInv, UEnd
    <2>2. mem'.pending = 0 /\ ~mem'.leftover /\ mem'.timer = mem.timer
      BY <1>4, <2>1 DEF CloseDecide, NextPhase, OrderInv, TypeOK, SessionOK, Sessions
    <2>3. side' = side /\ task'.pc \in {"completeSession", "statusRead"}
      BY <1>4, <2>1 DEF CloseDecide, Goto, UpdateStatus, TypeOK, TaskOK, Tasks
    <2> QED BY <2>1, <2>2, <2>3, CalmOrder DEF OrderInv, StartPcs
  <1>5. CASE AutoEnd
    <2>1. UNCHANGED <<mem, waiting>>
      BY <1>5 DEF AutoEnd
    <2>2. CASE Return
      BY <2>1, <2>2, CalmOrder, ReturnOrder DEF OrderInv, StartPcs
    <2>3. CASE Begin("endRound", "timer", mem.round) /\ side' = side
      <3>1. task'.pc = "endRound"
        BY <2>3 DEF Begin, Free
      <3> QED BY <2>1, <2>3, <3>1, CalmOrder DEF OrderInv, StartPcs
    <2> QED BY <1>5, <2>2, <2>3 DEF AutoEnd
  <1> USE DEF At, OrderInv, StartPcs, TypeOK, SessionOK, Sessions, TaskOK, Tasks, SideOK, Sides
  <1>6. CASE StatusRead
    BY <1>6, CalmOrder, ReturnOrder DEF StatusRead, Goto, AfterUpdate
  <1>7. CASE StatusWrite
    BY <1>7, CalmOrder, ReturnOrder DEF StatusWrite, Goto, AfterUpdate
  <1>8. CASE GoLive
    BY <1>8, CalmOrder, ReturnOrder DEF GoLive, Goto, NewSession
  <1>9. CASE Plan
    BY <1>9, CalmOrder, ReturnOrder DEF Plan
  <1>10. CASE StartRoundRefused
    BY <1>10, CalmOrder, ReturnOrder DEF StartRoundRefused
  <1>11. CASE ConfirmRound
    BY <1>11, CalmOrder, ReturnOrder DEF ConfirmRound, Cleared
  <1>12. CASE RoundRefused
    BY <1>12, CalmOrder, ReturnOrder DEF RoundRefused, Confirmed
  <1>13. CASE LoadRound
    BY <1>13, CalmOrder, ReturnOrder DEF LoadRound
  <1>14. CASE CreateRooms
    BY <1>14, CalmOrder, ReturnOrder DEF CreateRooms, Goto
  <1>15. CASE Activate
    BY <1>15, CalmOrder, ReturnOrder DEF Activate, Goto
  <1>16. CASE Flip
    BY <1>16, CalmOrder, ReturnOrder DEF Flip, UpdateStatus
  <1>17. CASE RoundSave
    BY <1>17, CalmOrder, ReturnOrder DEF RoundSave, Goto
  <1>18. CASE EndRound
    BY <1>18, CalmOrder, ReturnOrder DEF EndRound, Goto
  <1>19. CASE RateSave
    BY <1>19, CalmOrder, ReturnOrder DEF RateSave, Goto
  <1>20. CASE RateArm
    BY <1>20, CalmOrder, ReturnOrder DEF RateArm, Armed
  <1>21. CASE EndRatingWindow
    BY <1>21, CalmOrder, ReturnOrder DEF EndRatingWindow, Goto, Cleared
  <1>22. CASE CloseSave
    BY <1>22, CalmOrder, ReturnOrder DEF CloseSave, WithPhaseTimer, Armed
  <1>23. CASE CompleteSession
    BY <1>23, CalmOrder, ReturnOrder DEF CompleteSession, Goto, MemCompleting, AlreadyCompleted
  <1>24. CASE Claim
    BY <1>24, CalmOrder, ReturnOrder DEF Claim, Goto, MemClaimed, DbClaimed, ClaimLost
  <1>25. CASE Wipe
    BY <1>25, CalmOrder, ReturnOrder DEF Wipe, Goto, DbWiped
  <1>26. CASE Drop
    BY <1>26, CalmOrder, ReturnOrder DEF Drop, MemDropped
  <1>27. CASE OtherDone
    BY <1>27, CalmOrder, ReturnOrder DEF OtherDone
  <1> QED BY <1>1, <1>2, <1>3, <1>4, <1>5, <1>6, <1>7, <1>8, <1>9, <1>10, <1>11, <1>12, <1>13,
            <1>14, <1>15, <1>16, <1>17, <1>18, <1>19, <1>20, <1>21, <1>22, <1>23, <1>24, <1>25,
            <1>26, <1>27 DEF GuardStep

\* A callback that asks for the guard.
LEMMA RequestOrder ==
  ASSUME TypeOK, OrderInv, side'.gen = "idle",
         mem'.round = mem.round, mem'.pending = 0, ~mem'.leftover, mem'.timer # "transitionToRound",
         NEW kind \in QueuedKinds \ {"transitionToRound", "confirm"}, NEW r, Request(kind, r)
  PROVE  OrderInv'
  <1>1. CASE Idle /\ waiting = <<>> /\ Begin(kind, OpOf(kind), r) /\ UNCHANGED waiting
    <2>1. task'.pc = kind
      BY <1>1 DEF Begin, Free
    <2> QED BY <1>1, <2>1 DEF OrderInv, StartPcs, QueuedKinds, Callbacks
  <1>2. CASE waiting' = Append(waiting, [kind |-> kind, round |-> r]) /\ task' = task
    <2>1. /\ DOMAIN waiting' = 1..(Len(waiting) + 1) /\ DOMAIN waiting = 1..Len(waiting)
          /\ \A i \in DOMAIN waiting : waiting'[i] = waiting[i]
          /\ waiting'[Len(waiting) + 1].kind = kind /\ Len(waiting) \in Nat
      BY <1>2 DEF TypeOK, WaitingOK
    <2>2. \A i \in DOMAIN waiting' : i \in DOMAIN waiting \/ i = Len(waiting) + 1
      BY <2>1
    <2> QED BY <1>2, <2>1, <2>2 DEF OrderInv
  <1> QED BY <1>1, <1>2 DEF Request

\* The timer and the queue.
LEMMA SchedulingOrder ==
  ASSUME TypeOK, OrderInv, TimerFire \/ Dispatch
  PROVE  OrderInv'
  <1>1. CASE TimerFire
    <2>1. FiredKind \in QueuedKinds \ {"transitionToRound", "confirm"}
      BY <1>1 DEF TimerFire, Due, FiredKind, OrderInv, QueuedKinds, Callbacks
    <2>2. mem'.round = mem.round /\ mem'.pending = 0 /\ ~mem'.leftover /\ mem'.timer = "none"
      BY <1>1 DEF TimerFire, OrderInv, TypeOK, SessionOK, Sessions
    <2>3. Request(FiredKind, FiredRound) /\ side' = side
      BY <1>1 DEF TimerFire
    <2> QED BY <2>1, <2>2, <2>3, RequestOrder DEF OrderInv
  <1>2. CASE Dispatch
    <2>1. /\ waiting # <<>> /\ waiting' = Tail(waiting) /\ UNCHANGED <<mem, side>>
          /\ Begin(Head(waiting).kind, OpOf(Head(waiting).kind), Head(waiting).round)
      BY <1>2 DEF Dispatch
    <2>2. /\ Head(waiting) = waiting[1] /\ 1 \in DOMAIN waiting /\ Head(waiting) \in Queued
          /\ \A i \in DOMAIN waiting' : waiting'[i] = waiting[i + 1] /\ i + 1 \in DOMAIN waiting
      BY <2>1, HeadOfQueue DEF TypeOK
    <2>3. task'.pc = waiting[1].kind /\ waiting[1].kind \in QueuedKinds
      BY <2>1, <2>2 DEF Begin, Free, Queued
    <2> QED BY <2>1, <2>2, <2>3 DEF OrderInv, StartPcs, QueuedKinds, Callbacks
  <1> QED BY <1>1, <1>2

\* The requests that take the guard.
LEMMA GuardedRequestOrder ==
  ASSUME TypeOK, Orderly, UndInv, OrderInv, GuardedRequest
  PROVE  OrderInv'
  <1>1. CASE HostEnd
    <2>1. UNCHANGED <<waiting, side>> /\ mem'.pending = 0 /\ ~mem'.leftover /\ mem'.timer # "transitionToRound"
      BY <1>1 DEF HostEnd, OrderInv, TypeOK, SessionOK, Sessions
    <2>2. task'.pc \in {"endRound", "endRatingWindow", "completeSession"}
      BY <1>1 DEF HostEnd, Begin, Free
    <2> QED BY <2>1, <2>2, CalmOrder DEF OrderInv, StartPcs
  <1>2. CASE LeaveConversation
    <2>1. /\ waiting' = Append(waiting, [kind |-> "autoEnd", round |-> 0])
          /\ UNCHANGED <<mem, task, side>>
      BY <1>2 DEF LeaveConversation
    <2>2. /\ DOMAIN waiting' = 1..(Len(waiting) + 1) /\ DOMAIN waiting = 1..Len(waiting)
          /\ \A i \in DOMAIN waiting : waiting'[i] = waiting[i]
          /\ waiting'[Len(waiting) + 1].kind = "autoEnd" /\ Len(waiting) \in Nat
      BY <2>1 DEF TypeOK, WaitingOK
    <2>3. \A i \in DOMAIN waiting' : i \in DOMAIN waiting \/ i = Len(waiting) + 1
      BY <2>2
    <2> QED BY <2>1, <2>2, <2>3 DEF OrderInv
  <1> USE DEF Orderly, OrderInv, StartPcs, TypeOK, SessionOK, Sessions, TaskOK, Tasks, SideOK, Sides
  <1>3. CASE HostStart
    BY <1>3, CalmOrder DEF HostStart, Begin, Free
  <1>4. CASE HostStartRound
    BY <1>4, CalmOrder DEF HostStartRound, Begin, Free
  <1>5. CASE HostConfirmRound
    BY <1>5, CalmOrder DEF HostConfirmRound
  <1>6. CASE HostForceCloseRating
    BY <1>6, CalmOrder DEF HostForceCloseRating, Begin, Free
  <1>7. CASE HostPause
    BY <1>7, CalmOrder DEF HostPause
  <1>8. CASE HostResume
    BY <1>8, CalmOrder DEF HostResume
  <1>9. CASE HostExtendRound
    BY <1>9, CalmOrder DEF HostExtendRound, Armed
  <1>10. CASE OtherHold
    BY <1>10, CalmOrder DEF OtherHold, Begin, Free
  <1>11. CASE RatingsComplete
    BY <1>11, CalmOrder DEF RatingsComplete, InGrace
  <1> QED BY <1>1, <1>2, <1>3, <1>4, <1>5, <1>6, <1>7, <1>8, <1>9, <1>10, <1>11 DEF GuardedRequest

\* The tasks beside it.
LEMMA UnguardedOrder ==
  ASSUME TypeOK, Orderly, UndInv, OrderInv, Unguarded
  PROVE  OrderInv'
  <1>1. CASE NoShowDone
    <2>1. mem' = mem /\ side'.gen = side.gen /\ Request("autoEnd", 0)
      BY <1>1 DEF NoShowDone, TypeOK, SideOK, Sides
    <2>2. "autoEnd" \in QueuedKinds \ {"transitionToRound", "confirm"}
      BY DEF QueuedKinds
    <2> QED BY <2>1, <2>2, RequestOrder DEF OrderInv
  <1> USE DEF Orderly, OrderInv, StartPcs, TypeOK, SessionOK, Sessions, TaskOK, Tasks, SideOK, Sides
  <1>2. CASE RestEnd
    BY <1>2, CalmOrder DEF RestEnd, MemCompleting
  <1>3. CASE RestClaim
    BY <1>3, CalmOrder DEF RestClaim, UndInv, UQueue
  <1>4. CASE RestWipe
    BY <1>4, CalmOrder DEF RestWipe, UndInv, UQueue
  <1>5. CASE RestDrop
    BY <1>5, CalmOrder DEF RestDrop, UndInv, UQueue
  <1>6. CASE RestPause
    BY <1>6, CalmOrder DEF RestPause
  <1>7. CASE RestResume
    BY <1>7, CalmOrder DEF RestResume
  <1>8. CASE SkipCheck
    BY <1>8, CalmOrder DEF SkipCheck
  <1>9. CASE SkipGrace
    BY <1>9, CalmOrder DEF SkipGrace, InGrace
  <1>10. CASE NoShowScan
    BY <1>10, CalmOrder DEF NoShowScan
  <1>11. CASE NoShowMark
    BY <1>11, CalmOrder DEF NoShowMark
  <1> QED BY <1>1, <1>2, <1>3, <1>4, <1>5, <1>6, <1>7, <1>8, <1>9, <1>10, <1>11 DEF Unguarded

\* There is no preview.
LEMMA PreviewStepOrder ==
  ASSUME Orderly, OrderInv, PreviewStep
  PROVE  FALSE
  BY DEF PreviewStep, HostGenerateMatches, ReopenRead, ReopenWrite, ChooseRound, SurfacePlan,
         DeletePlan, GeneratePlan, Replan, HostRegenerateMatches, RegenerateRound,
         HostCancelPreview, HostSwapMatch, HostExcludeFromRound, Orderly, OrderInv

\* And no failure that shows.
LEMMA FailureOrder ==
  ASSUME TypeOK, Orderly, UndInv, OrderInv, Failure
  PROVE  OrderInv' /\ UNCHANGED mem
  <1>1. CASE Flush
    BY <1>1 DEF Flush, OrderInv
  <1>2. CASE JoinRecover
    BY <1>2 DEF JoinRecover, UndInv, UAgree, LiveStatuses, Idle
  <1>3. CASE Throw \/ RestartFromRedis \/ RestartFromDb \/ RestartWithout
    BY <1>3 DEF Throw, RestartFromRedis, RestartFromDb, RestartWithout, Die, Orderly
  <1> QED BY <1>1, <1>2, <1>3 DEF Failure

\* The invariant holds at first and every step keeps it.
LEMMA OrderInductive ==
  /\ Init => OrderInv
  /\ TypeOK /\ Orderly /\ UndInv /\ OrderInv /\ [Next]_vars => OrderInv'
  <1>1. Init => OrderInv
    BY DEF Init, NoSide, Free, OrderInv, StartPcs
  <1>2. ASSUME OrderInv, UNCHANGED vars PROVE OrderInv'
    BY <1>2 DEF vars, OrderInv
  <1> QED BY <1>1, <1>2, GuardStepOrder, SchedulingOrder, GuardedRequestOrder, UnguardedOrder,
             PreviewStepOrder, FailureOrder
          DEF Next

\* What the abstract event sees of a step.
SameEvent == mem'.status = mem.status /\ mem'.round = mem.round /\ mem'.total = mem.total

\* A step that changes none of the three is a stutter of the abstract event.
LEMMA AbstractStutter == ASSUME SameEvent PROVE UNCHANGED Abstract!evars
  BY DEF SameEvent, Abstract!evars

\* Each step of the guard's holder is a step of the abstract event, or none.
LEMMA GuardStepRefines ==
  ASSUME TypeOK, UndInv, GuardStep,
         task.pc = "flip" /\ mem.status \in {"lobby_open", "round_transition"} => task.arg = mem.round + 1
  PROVE  Abstract!Next \/ UNCHANGED Abstract!evars
  <1>1. CASE GoLive
    <2>1. /\ mem.status = "scheduled" /\ mem.round = 0 /\ mem.total = db.total
      BY <1>1 DEF GoLive, At, UndInv, UWrite, UMem
    <2>2. mem'.status = "lobby_open" /\ mem'.round = 0 /\ mem'.total = db.total
      BY <1>1 DEF GoLive, NewSession
    <2> QED BY <2>1, <2>2 DEF Abstract!Next, Abstract!GoLive
  <1>2. CASE StartRound
    <2>1. NextRound(mem) = mem.round + 1 /\ mem.round \in Nat /\ mem.total \in Nat
      BY DEF NextRound, UndInv, UMem, TypeOK, SessionOK, Sessions, Rounds
    <2>2. /\ mem'.status = mem.status /\ mem'.round = mem.round
          /\ mem'.total = IF mem.round + 1 > mem.total THEN mem.round + 1 ELSE mem.total
          /\ mem.status \in {"lobby_open", "round_transition", "closing_lobby"}
      BY <1>2, <2>1 DEF StartRound, Cleared, TypeOK, SessionOK, Sessions
    <2>3. CASE mem.round + 1 > mem.total
      <3>1. mem.round >= mem.total
        BY <2>1, <2>3, RoundAssumption
      <3> QED BY <2>2, <2>3, <3>1 DEF Abstract!Next, Abstract!ExtendPlan
    <2>4. CASE ~(mem.round + 1 > mem.total)
      BY <2>2, <2>4, AbstractStutter DEF SameEvent
    <2> QED BY <2>3, <2>4
  <1>3. CASE Flip
    <2>1. /\ mem.live /\ mem.status \in {"lobby_open", "round_transition"}
          /\ task.arg = mem.round + 1 /\ task.arg \in 0..MaxRound /\ mem.round \in 0..MaxRound
      BY <1>3 DEF Flip, At, UndInv, UStart, StartingPcs, CanTransition, TypeOK, SessionOK, Sessions, TaskOK, Tasks
    <2>2. /\ mem'.status = "round_active" /\ mem'.round = mem.round + 1
          /\ mem'.total = IF mem.round + 1 > mem.total THEN mem.round + 1 ELSE mem.total
      BY <1>3, <2>1 DEF Flip, TypeOK, SessionOK, Sessions
    <2>3. mem.round < MaxRound
      BY <2>1, RoundAssumption
    <2> QED BY <2>1, <2>2, <2>3 DEF Abstract!Next, Abstract!StartRound
  <1>4. CASE RateFlip
    <2>1. mem.status = "round_active"
      BY <1>4 DEF RateFlip, At, UndInv, UEnd
    <2>2. mem'.status = "round_rating" /\ mem'.round = mem.round /\ mem'.total = mem.total
      BY <1>4, <2>1 DEF RateFlip, CanTransition, TypeOK, SessionOK, Sessions
    <2> QED BY <2>1, <2>2 DEF Abstract!Next, Abstract!EndRound
  <1>5. CASE CloseDecide
    <2>1. mem.status = "round_rating" /\ mem.round = task.arg
      BY <1>5 DEF CloseDecide, At, UndInv, UEnd
    <2>2. CASE mem' = mem
      BY <2>2, AbstractStutter DEF SameEvent
    <2>3. CASE mem' = [mem EXCEPT !.status = NextPhase(mem, task.arg)]
      <3>1. /\ mem'.status = IF mem.round < mem.total THEN "round_transition" ELSE "closing_lobby"
            /\ mem'.round = mem.round /\ mem'.total = mem.total
        BY <2>1, <2>3 DEF NextPhase, TypeOK, SessionOK, Sessions
      <3> QED BY <2>1, <3>1 DEF Abstract!Next, Abstract!CloseRating
    <2> QED BY <1>5, <2>2, <2>3 DEF CloseDecide
  <1>6. CASE CompleteSession
    <2>1. CASE mem' = mem
      BY <2>1, AbstractStutter DEF SameEvent
    <2>2. CASE mem' = MemCompleting /\ ~AlreadyCompleted
      <3>1. /\ mem'.status = (IF mem.live THEN "completed" ELSE mem.status)
            /\ mem'.round = mem.round /\ mem'.total = mem.total
        BY <2>2 DEF MemCompleting, TypeOK, SessionOK, Sessions
      <3>2. CASE mem.live
        BY <2>2, <3>1, <3>2 DEF AlreadyCompleted, Abstract!Next, Abstract!Complete
      <3>3. CASE ~mem.live
        BY <3>1, <3>3, AbstractStutter DEF SameEvent
      <3> QED BY <3>2, <3>3
    <2> QED BY <1>6, <2>1, <2>2 DEF CompleteSession
  <1> USE DEF At, SameEvent, TypeOK, SessionOK, Sessions, TaskOK, Tasks, SideOK, Sides
  <1>7. CASE StatusRead
    BY <1>7, AbstractStutter DEF StatusRead, Goto, AfterUpdate
  <1>8. CASE StatusWrite
    BY <1>8, AbstractStutter DEF StatusWrite, Goto, AfterUpdate
  <1>9. CASE Plan
    BY <1>9, AbstractStutter DEF Plan
  <1>10. CASE StartRoundRefused
    BY <1>10, AbstractStutter DEF StartRoundRefused
  <1>11. CASE ConfirmRound
    BY <1>11, AbstractStutter DEF ConfirmRound, Cleared
  <1>12. CASE RoundRefused
    BY <1>12, AbstractStutter DEF RoundRefused, Confirmed
  <1>13. CASE LoadRound
    BY <1>13, AbstractStutter DEF LoadRound
  <1>14. CASE CreateRooms
    BY <1>14, AbstractStutter DEF CreateRooms, Goto
  <1>15. CASE Activate
    BY <1>15, AbstractStutter DEF Activate, Goto
  <1>16. CASE RoundSave
    BY <1>16, AbstractStutter DEF RoundSave, Goto
  <1>17. CASE RoundArm
    BY <1>17, AbstractStutter DEF RoundArm, Armed, Confirmed
  <1>18. CASE EndRound
    BY <1>18, AbstractStutter DEF EndRound, Goto
  <1>19. CASE RateSave
    BY <1>19, AbstractStutter DEF RateSave, Goto
  <1>20. CASE RateArm
    BY <1>20, AbstractStutter DEF RateArm, Armed
  <1>21. CASE EndRatingWindow
    BY <1>21, AbstractStutter DEF EndRatingWindow, Goto, Cleared
  <1>22. CASE CloseSave
    BY <1>22, AbstractStutter DEF CloseSave, WithPhaseTimer, Armed
  <1>23. CASE Claim
    BY <1>23, AbstractStutter DEF Claim, Goto, MemClaimed, DbClaimed, ClaimLost
  <1>24. CASE Wipe
    BY <1>24, AbstractStutter DEF Wipe, Goto, DbWiped
  <1>25. CASE Drop
    BY <1>25, AbstractStutter DEF Drop, MemDropped
  <1>26. CASE AutoEnd
    BY <1>26, AbstractStutter DEF AutoEnd, Begin, Free
  <1>27. CASE OtherDone
    BY <1>27, AbstractStutter DEF OtherDone
  <1> QED BY <1>1, <1>2, <1>3, <1>4, <1>5, <1>6, <1>7, <1>8, <1>9, <1>10, <1>11, <1>12, <1>13,
            <1>14, <1>15, <1>16, <1>17, <1>18, <1>19, <1>20, <1>21, <1>22, <1>23, <1>24, <1>25,
            <1>26, <1>27 DEF GuardStep

\* Nothing else shows.
LEMMA OthersStutter ==
  ASSUME TypeOK, Orderly, UndInv, OrderInv,
         TimerFire \/ Dispatch \/ GuardedRequest \/ Unguarded \/ PreviewStep \/ Failure
  PROVE  UNCHANGED Abstract!evars
  <1>1. CASE TimerFire
    BY <1>1, AbstractStutter
    DEF TimerFire, Orderly, SameEvent, TypeOK, SessionOK, Sessions, TaskOK, Tasks, SideOK, Sides
  <1>2. CASE Dispatch
    BY <1>2, AbstractStutter
    DEF Dispatch, Orderly, SameEvent, TypeOK, SessionOK, Sessions, TaskOK, Tasks, SideOK, Sides
  <1>3. CASE HostStart
    BY <1>3, AbstractStutter
    DEF HostStart, Orderly, SameEvent, TypeOK, SessionOK, Sessions, TaskOK, Tasks, SideOK, Sides
  <1>4. CASE HostStartRound
    BY <1>4, AbstractStutter
    DEF HostStartRound, Orderly, SameEvent, TypeOK, SessionOK, Sessions, TaskOK, Tasks, SideOK,
        Sides
  <1>5. CASE HostConfirmRound
    BY <1>5, AbstractStutter
    DEF HostConfirmRound, Orderly, SameEvent, TypeOK, SessionOK, Sessions, TaskOK, Tasks, SideOK,
        Sides
  <1>6. CASE HostEnd
    BY <1>6, AbstractStutter
    DEF HostEnd, Orderly, SameEvent, TypeOK, SessionOK, Sessions, TaskOK, Tasks, SideOK, Sides
  <1>7. CASE HostForceCloseRating
    BY <1>7, AbstractStutter
    DEF HostForceCloseRating, Orderly, SameEvent, TypeOK, SessionOK, Sessions, TaskOK, Tasks,
        SideOK, Sides
  <1>8. CASE HostPause
    BY <1>8, AbstractStutter
    DEF HostPause, Orderly, SameEvent, TypeOK, SessionOK, Sessions, TaskOK, Tasks, SideOK, Sides
  <1>9. CASE HostResume
    BY <1>9, AbstractStutter
    DEF HostResume, Orderly, SameEvent, TypeOK, SessionOK, Sessions, TaskOK, Tasks, SideOK, Sides
  <1>10. CASE HostExtendRound
    BY <1>10, AbstractStutter
    DEF HostExtendRound, Armed, Orderly, SameEvent, TypeOK, SessionOK, Sessions, TaskOK, Tasks,
        SideOK, Sides
  <1>11. CASE LeaveConversation
    BY <1>11, AbstractStutter
    DEF LeaveConversation, Orderly, SameEvent, TypeOK, SessionOK, Sessions, TaskOK, Tasks, SideOK,
        Sides
  <1>12. CASE OtherHold
    BY <1>12, AbstractStutter
    DEF OtherHold, Orderly, SameEvent, TypeOK, SessionOK, Sessions, TaskOK, Tasks, SideOK, Sides
  <1>13. CASE RatingsComplete
    BY <1>13, AbstractStutter
    DEF RatingsComplete, InGrace, Orderly, SameEvent, TypeOK, SessionOK, Sessions, TaskOK, Tasks,
        SideOK, Sides
  <1>14. CASE RestEnd
    BY <1>14, AbstractStutter
    DEF RestEnd, MemCompleting, Orderly, SameEvent, TypeOK, SessionOK, Sessions, TaskOK, Tasks,
        SideOK, Sides
  <1>15. CASE RestClaim
    BY <1>15, AbstractStutter
    DEF RestClaim, UndInv, UQueue, Orderly, SameEvent, TypeOK, SessionOK, Sessions, TaskOK, Tasks,
        SideOK, Sides
  <1>16. CASE RestWipe
    BY <1>16, AbstractStutter
    DEF RestWipe, UndInv, UQueue, Orderly, SameEvent, TypeOK, SessionOK, Sessions, TaskOK, Tasks,
        SideOK, Sides
  <1>17. CASE RestDrop
    BY <1>17, AbstractStutter
    DEF RestDrop, UndInv, UQueue, Orderly, SameEvent, TypeOK, SessionOK, Sessions, TaskOK, Tasks,
        SideOK, Sides
  <1>18. CASE RestPause
    BY <1>18, AbstractStutter
    DEF RestPause, Orderly, SameEvent, TypeOK, SessionOK, Sessions, TaskOK, Tasks, SideOK, Sides
  <1>19. CASE RestResume
    BY <1>19, AbstractStutter
    DEF RestResume, Orderly, SameEvent, TypeOK, SessionOK, Sessions, TaskOK, Tasks, SideOK, Sides
  <1>20. CASE SkipCheck
    BY <1>20, AbstractStutter
    DEF SkipCheck, Orderly, SameEvent, TypeOK, SessionOK, Sessions, TaskOK, Tasks, SideOK, Sides
  <1>21. CASE SkipGrace
    BY <1>21, AbstractStutter
    DEF SkipGrace, InGrace, Orderly, SameEvent, TypeOK, SessionOK, Sessions, TaskOK, Tasks, SideOK,
        Sides
  <1>22. CASE NoShowScan
    BY <1>22, AbstractStutter
    DEF NoShowScan, Orderly, SameEvent, TypeOK, SessionOK, Sessions, TaskOK, Tasks, SideOK, Sides
  <1>23. CASE NoShowMark
    BY <1>23, AbstractStutter
    DEF NoShowMark, Orderly, SameEvent, TypeOK, SessionOK, Sessions, TaskOK, Tasks, SideOK, Sides
  <1>24. CASE NoShowDone
    BY <1>24, AbstractStutter
    DEF NoShowDone, Orderly, SameEvent, TypeOK, SessionOK, Sessions, TaskOK, Tasks, SideOK, Sides
  <1>25. CASE Failure
    BY <1>25, FailureOrder, AbstractStutter DEF SameEvent
  <1> QED BY <1>1, <1>2, <1>3, <1>4, <1>5, <1>6, <1>7, <1>8, <1>9, <1>10, <1>11, <1>12, <1>13,
            <1>14, <1>15, <1>16, <1>17, <1>18, <1>19, <1>20, <1>21, <1>22, <1>23, <1>24, <1>25,
            PreviewStepOrder DEF GuardedRequest, Unguarded

\* The live event implements the abstract one, for every number of rounds: they
\* are played in order without a gap or a repeat, each is rated, the plan decides
\* what follows, and an event that is over stays over.
THEOREM LifecycleImplemented == Orderly /\ Spec => ImplementsLifecycle
  <1> SUFFICES ASSUME Orderly PROVE Spec => ImplementsLifecycle
    OBVIOUS
  <1>1. Init => Abstract!Init
    BY DEF Init, Abstract!Init
  <1>2. Init => OrderInv
    BY OrderInductive
  <1>3. TypeOK /\ UndInv /\ OrderInv /\ [Next]_vars => OrderInv'
    BY OrderInductive
  <1>4. TypeOK /\ UndInv /\ OrderInv /\ [Next]_vars => [Abstract!Next]_(Abstract!evars)
    <2>1. ASSUME UNCHANGED vars PROVE UNCHANGED Abstract!evars
      BY <2>1 DEF vars, Abstract!evars
    <2>2. OrderInv /\ task.pc = "flip" => task.arg = mem.round + 1
      BY DEF OrderInv, StartPcs
    <2> QED BY <2>1, <2>2, GuardStepRefines, OthersStutter DEF Next
  <1>5. Undisturbed
    BY DEF Orderly, Undisturbed
  <1> QED BY <1>1, <1>2, <1>3, <1>4, <1>5, TypeCorrect, UndCorrect, PTL
          DEF Spec, ImplementsLifecycle, Abstract!Spec

-----------------------------------------------------------------------------
(* Hosted: each phase ends by its own timer, each round ends itself *)

\* Every round is started by the host's confirmation of a preview, nothing is
\* paused, and the timer is nobody's but the handlers'.  Previews may be
\* cancelled, pairs excluded, people may leave or not show up, and the host ends
\* and extends as he likes.
Hosted ==
  Env \cap {"startRound", "pause", "restPause", "crash", "reopen", "restEnd", "throw", "rematch",
            "skips"} = {}

\* The rating window is shown and its timer is not yet armed.
RatingPcs == {"statusRead", "statusWrite", "rateSave", "rateArm"}

\* The phase the room sees: a round,
Playing == mem.live /\ mem.status = "round_active"

\* its rating window,
Rating == mem.live /\ mem.status = "round_rating"

\* or the closing lobby.
Closing == mem.live /\ mem.status = "closing_lobby"

\* The round has just been shown, and its timer is not yet armed.
Shown ==
  task.pc \in {"roundSave", "roundArm"} \/ (task.pc \in WritingPcs /\ task.target = "round_active")

\* A round is being set up, before or after it is shown.
Setting == task.pc \in StartPcs \/ Shown
Queueing(kind) == \E i \in DOMAIN waiting : waiting[i].kind = kind

\* The close of this round's rating window waits for it.
CloseQueued ==
  \E i \in DOMAIN waiting : waiting[i].kind = "endRatingWindow" /\ waiting[i].round = mem.round

\* A round is pending only where one may start, and the preview is made there; a
\* confirmation that holds the generation lock keeps the next preview out.
HPend ==
  /\ side.gen \in {"idle", "confirm", "choose", "preview", "generate", "replan"} /\ side.check = 0
  /\ side.gen \in {"choose", "preview", "generate", "replan"} =>
       mem.status \in {"lobby_open", "round_transition", "completed"}
  /\ mem.pending # 0 =>
       Shown \/ mem.status \in {"lobby_open", "round_transition", "completed"}

\* The timer is the one of the phase.  None runs in the lobby and in the
\* transition, nor while a round is set up, nor when the rating window closes.
HTimer ==
  /\ Setting \/ task.pc = "finalize" => mem.timer = "none"
  /\ mem.live /\ mem.status \in {"lobby_open", "round_transition"} => mem.timer = "none"
  /\ mem.timer = "endRound" =>
       /\ mem.timerRound \in {0, mem.round}
       /\ mem.status = "round_active" \/ (mem.status = "round_rating" /\ task.pc \in RatingPcs)
  /\ mem.timer \in {"endRatingWindow", "grace"} =>
       mem.status = "round_rating" /\ mem.timerRound \in {0, mem.round}
  /\ mem.timer = "completeSession" => mem.status \in {"closing_lobby", "completed"}
  /\ task.pc = "completeSession" =>
       mem.status # "round_active" /\ (mem.status = "round_rating" => mem.timer = "none")

\* The holder ends the round that is shown and rates the round it ended; a round
\* is set up for a confirmation only.
HTask ==
  /\ Playing /\ task.pc \in {"endRound", "rateFlip"} => task.arg = mem.round
  /\ \/ task.pc \in {"rateSave", "rateArm"}
     \/ task.pc \in WritingPcs /\ task.target = "round_rating"
     => task.arg = mem.round
  /\ Setting => task.op = "confirm"

\* What the timer, the pending round and the holder of the guard agree on.
HControl == HPend /\ HTimer /\ HTask

\* What waits: no end of a round behind the confirmation of the next one, none
\* that names another round, and no completion before the closing lobby.
HQueue ==
  /\ \A i, j \in DOMAIN waiting :
       j < i /\ waiting[j].kind = "confirm" /\ waiting[i].kind = "endRound" => mem.pending = 0
  /\ task.pc = "confirm" /\ mem.pending # 0 => ~Queueing("endRound")
  /\ Setting => ~Queueing("endRound")
  /\ Playing => \A i \in DOMAIN waiting : waiting[i].kind = "endRound" => waiting[i].round = mem.round
  /\ Queueing("completeSession") => mem.status \in {"closing_lobby", "completed"}

\* What will end the round: its timer, or the holder,
EndsRound ==
  mem.timer = "endRound" \/ task.pc \in WritingPcs \cup {"roundSave", "roundArm", "endRound", "rateFlip"}

\* the rating window,
EndsRating ==
  \/ mem.timer \in {"endRatingWindow", "grace"}
  \/ task.pc \in RatingPcs \cup {"finalize", "completeSession"}
  \/ task.pc = "endRatingWindow" /\ task.arg = mem.round

\* and the closing lobby.
EndsClosing ==
  mem.timer = "completeSession" \/ task.pc \in WritingPcs \cup {"closeSave", "completeSession"}

\* The end of the phase is armed, is under way, or waits for the guard.
HEnds ==
  /\ Playing => EndsRound \/ Queueing("endRound")
  /\ Rating  => EndsRating \/ CloseQueued
  /\ Closing => EndsClosing \/ Queueing("completeSession")

\* A row is active only in the round that is shown and not yet rated, or in the
\* one about to be shown.
HRows ==
  \A r \in Rounds, m \in Rooms : rows[r][m] = "active" =>
    \/ Playing /\ mem.round = r /\ task.pc # "rateFlip"
    \/ task.pc = "flip" /\ task.arg = r

\* The round that is pending, previewed or set up is the one after the last
\* round shown.
HNext ==
  mem.status \in {"lobby_open", "round_transition"} =>
    /\ mem.pending \in {0, mem.round + 1}
    /\ side.gen \in {"preview", "generate", "replan"} => side.genRound = mem.round + 1
    /\ task.pc \in StartPcs => task.arg = mem.round + 1

\* A step that queues nothing: what the queue knows stays true, and what the
\* phase waits for is where it was or in the step.
QueueCalm ==
  /\ waiting' = waiting
  /\ mem'.pending # 0 => mem.pending # 0 \/ side.gen \in {"preview", "generate"}
  /\ task'.pc = "confirm" => task.pc = "confirm"
  /\ Setting' => Setting \/ (task.pc = "confirm" /\ mem.pending # 0)
  /\ Playing' => Setting \/ (Playing /\ mem'.round = mem.round)
  /\ mem.status \in {"closing_lobby", "completed"} => mem'.status \in {"closing_lobby", "completed"}

\* Then what ends the phase is in the step, or was already in the queue.
PhaseCalm ==
  /\ Playing' => EndsRound' \/ (Playing /\ ~EndsRound)
  /\ Rating' => EndsRating' \/ (Rating /\ ~EndsRating /\ mem'.round = mem.round)
  /\ Closing' => EndsClosing' \/ (Closing /\ ~EndsClosing)

\* Such a step keeps what the queue knows,
LEMMA QueueStays ==
  ASSUME LockTask, LockQueue, HQueue, QueueCalm
  PROVE  HQueue'
  <1>1. mem.pending = 0 /\ mem'.pending # 0 => task.pc # "confirm" /\ ~Queueing("confirm")
    BY DEF QueueCalm, LockTask, LockQueue, Queueing
  <1>2. \A i, j \in DOMAIN waiting' :
          j < i /\ waiting'[j].kind = "confirm" /\ waiting'[i].kind = "endRound" => mem'.pending = 0
    BY <1>1 DEF QueueCalm, HQueue, Queueing
  <1>3. task'.pc = "confirm" /\ mem'.pending # 0 => ~Queueing("endRound")
    BY <1>1 DEF QueueCalm, HQueue
  <1>4. Setting' => ~Queueing("endRound")
    BY DEF QueueCalm, HQueue
  <1>5. Playing' =>
          \A i \in DOMAIN waiting : waiting[i].kind = "endRound" => waiting[i].round = mem'.round
    BY DEF QueueCalm, HQueue, Queueing
  <1>6. Queueing("completeSession") => mem'.status \in {"closing_lobby", "completed"}
    BY DEF QueueCalm, HQueue
  <1>7. waiting' = waiting
    BY DEF QueueCalm
  <1> QED BY <1>2, <1>3, <1>4, <1>5, <1>6, <1>7 DEF HQueue, Queueing

\* and the end of the phase.
LEMMA EndsStay ==
  ASSUME HEnds, PhaseCalm, waiting' = waiting
  PROVE  HEnds'
  BY DEF HEnds, PhaseCalm, Queueing, CloseQueued

\* Each step of the guard's holder is one: it queues nothing, and arms or runs
\* the end of each phase it shows.
LEMMA GuardStepHost ==
  ASSUME TypeOK, UndInv, LockTask, HControl, GuardStep
  PROVE  HControl' /\ QueueCalm /\ PhaseCalm
  <1>1. CASE ConfirmRound
    <2>1. CASE Return
      <3>1. mem' = mem /\ waiting' = waiting /\ task.pc = "confirm"
        BY <1>1, <2>1 DEF ConfirmRound, At, Return, ReturnTask, Free, LockTask, TypeOK, TaskOK, Tasks
      <3> QED BY <2>1, <3>1, ReturnFrees DEF Free, HControl, HPend, HTimer, HTask, StartPcs, Shown,
                 Setting, RatingPcs, WritingPcs, EndingPcs,
          StartingPcs, Playing, Rating, Closing, EndsRound, EndsRating, EndsClosing, QueueCalm,
          PhaseCalm, UndInv, UMem, UWrite, UAgree, UStart, UEnd, CanTransition, LockTask, TypeOK,
          SessionOK, Sessions, TaskOK, Tasks, SideOK, Sides
    <2>2. CASE ~Return
      <3>1. /\ mem.pending # 0 /\ mem' = Cleared(mem) /\ task.pc = "confirm"
            /\ task' = [task EXCEPT !.pc = "transitionToRound", !.arg = mem.pending]
            /\ UNCHANGED <<waiting, side>>
        BY <1>1, <2>2 DEF ConfirmRound, At
      <3> QED BY <3>1 DEF Cleared, HControl, HPend, HTimer, HTask, StartPcs, Shown, Setting, RatingPcs,
                 WritingPcs, EndingPcs,
          StartingPcs, Playing, Rating, Closing, EndsRound, EndsRating, EndsClosing, QueueCalm,
          PhaseCalm, UndInv, UMem, UWrite, UAgree, UStart, UEnd, CanTransition, LockTask, TypeOK,
          SessionOK, Sessions, TaskOK, Tasks, SideOK, Sides
    <2> QED BY <2>1, <2>2
  <1>2. CASE LoadRound
    <2>1. /\ mem' = mem /\ waiting' = waiting /\ task.pc = "transitionToRound"
          /\ mem.status \in {"lobby_open", "round_transition"}
      BY <1>2 DEF LoadRound, At, CanTransition
    <2>2. CASE Return
      BY <2>1, <2>2, ReturnFrees DEF Free, HControl, HPend, HTimer, HTask, StartPcs, Shown, Setting,
         RatingPcs, WritingPcs, EndingPcs,
          StartingPcs, Playing, Rating, Closing, EndsRound, EndsRating, EndsClosing, QueueCalm,
          PhaseCalm, UndInv, UMem, UWrite, UAgree, UStart, UEnd, CanTransition, LockTask, TypeOK,
          SessionOK, Sessions, TaskOK, Tasks, SideOK, Sides
    <2>3. CASE ~Return
      <3>1. /\ task'.pc = "createRooms" /\ task'.op = task.op /\ task'.arg = task.arg
            /\ task'.target = task.target /\ side' = side
        BY <1>2, <2>3 DEF LoadRound, TypeOK, TaskOK, Tasks
      <3> QED BY <2>1, <3>1 DEF HControl, HPend, HTimer, HTask, StartPcs, Shown, Setting, RatingPcs,
                 WritingPcs, EndingPcs,
          StartingPcs, Playing, Rating, Closing, EndsRound, EndsRating, EndsClosing, QueueCalm,
          PhaseCalm, UndInv, UMem, UWrite, UAgree, UStart, UEnd, CanTransition, LockTask, TypeOK,
          SessionOK, Sessions, TaskOK, Tasks, SideOK, Sides
    <2> QED BY <2>2, <2>3
  <1>3. CASE RoundArm
    <2>1. /\ mem'.live = mem.live /\ mem'.status = mem.status /\ mem'.round = mem.round
          /\ mem'.pending = 0 /\ mem'.timer = "endRound" /\ mem'.timerRound = mem.round
          /\ mem.status = "round_active"
      BY <1>3 DEF RoundArm, At, Armed, Confirmed, HControl, HTask, Setting, Shown, UndInv, UStart, TypeOK,
                  SessionOK, Sessions
    <2>2. task' = Free /\ waiting' = waiting /\ task.pc = "roundArm"
      BY <1>3 DEF RoundArm, At, ReturnTask, LockTask
    <2>3. side'.gen \in {side.gen, "idle"} /\ side'.check = side.check
      <3>1. PICK s : s = [side EXCEPT !.noShowDue = IF "noShow" \in Env THEN task.arg ELSE 0]
        OBVIOUS
      <3>2. side' = IF task.op = "confirm" THEN [s EXCEPT !.gen = "idle"] ELSE s
        BY <1>3, <3>1 DEF RoundArm, Released
      <3> QED BY <3>1, <3>2 DEF TypeOK, SideOK, Sides
    <2> QED BY <2>1, <2>2, <2>3 DEF Free, HControl, HPend, HTimer, HTask, StartPcs, Shown, Setting,
               RatingPcs, WritingPcs, EndingPcs,
          StartingPcs, Playing, Rating, Closing, EndsRound, EndsRating, EndsClosing, QueueCalm,
          PhaseCalm, UndInv, UMem, UWrite, UAgree, UStart, UEnd, CanTransition, LockTask, TypeOK,
          SessionOK, Sessions, TaskOK, Tasks, SideOK, Sides
  <1>4. CASE RateFlip
    <2>1. Playing /\ task.pc = "rateFlip" /\ waiting' = waiting /\ CanTransition(mem.status, "round_rating")
      BY <1>4 DEF RateFlip, At, UndInv, UEnd, Playing, CanTransition
    <2>2. mem' = [mem EXCEPT !.status = "round_rating"] /\ UpdateStatus("round_rating") /\ side' = side
      BY <1>4, <2>1 DEF RateFlip
    <2> QED BY <2>1, <2>2 DEF UpdateStatus, HControl, HPend, HTimer, HTask, StartPcs, Shown, Setting,
               RatingPcs, WritingPcs, EndingPcs,
          StartingPcs, Playing, Rating, Closing, EndsRound, EndsRating, EndsClosing, QueueCalm,
          PhaseCalm, UndInv, UMem, UWrite, UAgree, UStart, UEnd, CanTransition, LockTask, TypeOK,
          SessionOK, Sessions, TaskOK, Tasks, SideOK, Sides
  <1>5. CASE CloseDecide
    <2>1. mem.live /\ mem.status = "round_rating" /\ task.pc = "finalize" /\ waiting' = waiting
      BY <1>5 DEF CloseDecide, At, UndInv, UEnd
    <2>2. CASE Goto("completeSession") /\ UNCHANGED <<mem, side>>
      BY <2>1, <2>2 DEF Goto, HControl, HPend, HTimer, HTask, StartPcs, Shown, Setting, RatingPcs,
         WritingPcs, EndingPcs,
          StartingPcs, Playing, Rating, Closing, EndsRound, EndsRating, EndsClosing, QueueCalm,
          PhaseCalm, UndInv, UMem, UWrite, UAgree, UStart, UEnd, CanTransition, LockTask, TypeOK,
          SessionOK, Sessions, TaskOK, Tasks, SideOK, Sides
    <2>3. CASE ~(Goto("completeSession") /\ UNCHANGED <<mem, side>>)
      <3>1. PICK next \in {"round_transition", "closing_lobby"} :
              mem' = [mem EXCEPT !.status = next] /\ UpdateStatus(next) /\ side' = side
        BY <1>5, <2>1, <2>3 DEF CloseDecide, NextPhase
      <3> QED BY <2>1, <3>1 DEF UpdateStatus, HControl, HPend, HTimer, HTask, StartPcs, Shown, Setting,
                 RatingPcs, WritingPcs, EndingPcs,
          StartingPcs, Playing, Rating, Closing, EndsRound, EndsRating, EndsClosing, QueueCalm,
          PhaseCalm, UndInv, UMem, UWrite, UAgree, UStart, UEnd, CanTransition, LockTask, TypeOK,
          SessionOK, Sessions, TaskOK, Tasks, SideOK, Sides
    <2> QED BY <2>2, <2>3
  <1>6. CASE AutoEnd
    <2>1. UNCHANGED <<mem, waiting>> /\ task.pc = "autoEnd"
      BY <1>6 DEF AutoEnd, At
    <2>2. CASE Return
      BY <2>1, <2>2, ReturnFrees DEF Free, HControl, HPend, HTimer, HTask, StartPcs, Shown, Setting,
         RatingPcs, WritingPcs, EndingPcs,
          StartingPcs, Playing, Rating, Closing, EndsRound, EndsRating, EndsClosing, QueueCalm,
          PhaseCalm, UndInv, UMem, UWrite, UAgree, UStart, UEnd, CanTransition, LockTask, TypeOK,
          SessionOK, Sessions, TaskOK, Tasks, SideOK, Sides
    <2>3. CASE ~Return
      <3>1. task'.pc = "endRound" /\ task'.arg = mem.round /\ side' = side
        BY <1>6, <2>3 DEF AutoEnd, Begin, Free
      <3> QED BY <2>1, <3>1 DEF HControl, HPend, HTimer, HTask, StartPcs, Shown, Setting, RatingPcs,
                 WritingPcs, EndingPcs,
          StartingPcs, Playing, Rating, Closing, EndsRound, EndsRating, EndsClosing, QueueCalm,
          PhaseCalm, UndInv, UMem, UWrite, UAgree, UStart, UEnd, CanTransition, LockTask, TypeOK,
          SessionOK, Sessions, TaskOK, Tasks, SideOK, Sides
    <2> QED BY <2>2, <2>3
  <1> USE DEF HControl, HPend, HTimer, HTask, StartPcs, Shown, Setting, RatingPcs, WritingPcs,
              EndingPcs, StartingPcs, Playing, Rating, Closing, EndsRound, EndsRating, EndsClosing,
              QueueCalm, PhaseCalm, UndInv, UMem, UWrite, UAgree, UStart, UEnd, CanTransition,
              LockTask, TypeOK, SessionOK, Sessions, TaskOK, Tasks, SideOK, Sides
  <1>7. CASE StatusRead
    BY <1>7, ReturnFrees DEF StatusRead, Goto, AfterUpdate, At, Free
  <1>8. CASE StatusWrite
    BY <1>8, ReturnFrees DEF StatusWrite, Goto, AfterUpdate, At, Free
  <1>9. CASE GoLive
    BY <1>9, ReturnFrees DEF GoLive, Goto, NewSession, At, Free
  <1>10. CASE Plan
    BY <1>10, ReturnFrees DEF Plan, At, Free
  <1>11. CASE StartRoundRefused
    BY <1>11, ReturnFrees DEF StartRoundRefused, At, Free
  <1>12. CASE StartRound
    BY <1>12, ReturnFrees DEF StartRound, Cleared, At, NextRound, Free
  <1>13. CASE RoundRefused
    BY <1>13, ReturnFrees DEF RoundRefused, Confirmed, At, Free
  <1>14. CASE CreateRooms
    BY <1>14, ReturnFrees DEF CreateRooms, Goto, At, Free
  <1>15. CASE Activate
    BY <1>15, ReturnFrees DEF Activate, Goto, At, Free
  <1>16. CASE Flip
    BY <1>16, ReturnFrees DEF Flip, UpdateStatus, At, Free
  <1>17. CASE RoundSave
    BY <1>17, ReturnFrees DEF RoundSave, Goto, At, Free
  <1>18. CASE EndRound
    BY <1>18, ReturnFrees DEF EndRound, Goto, At, Free
  <1>19. CASE RateSave
    BY <1>19, ReturnFrees DEF RateSave, Goto, At, Free
  <1>20. CASE RateArm
    BY <1>20, ReturnFrees DEF RateArm, Armed, At, Free
  <1>21. CASE EndRatingWindow
    BY <1>21, ReturnFrees DEF EndRatingWindow, Goto, Cleared, At, Free
  <1>22. CASE CloseSave
    BY <1>22, ReturnFrees DEF CloseSave, WithPhaseTimer, Armed, At, Free
  <1>23. CASE CompleteSession
    BY <1>23, ReturnFrees DEF CompleteSession, Goto, MemCompleting, At, AlreadyCompleted, Free
  <1>24. CASE Claim
    BY <1>24, ReturnFrees DEF Claim, Goto, MemClaimed, ClaimLost, At, Free
  <1>25. CASE Wipe
    BY <1>25, ReturnFrees DEF Wipe, Goto, At, DbWiped, Free
  <1>26. CASE Drop
    BY <1>26, ReturnFrees DEF Drop, MemDropped, At, Free
  <1>27. CASE OtherDone
    BY <1>27, ReturnFrees DEF OtherDone, At, Free
  <1> QED BY <1>1, <1>2, <1>3, <1>4, <1>5, <1>6, <1>7, <1>8, <1>9, <1>10, <1>11, <1>12, <1>13,
            <1>14, <1>15, <1>16, <1>17, <1>18, <1>19, <1>20, <1>21, <1>22, <1>23, <1>24, <1>25,
            <1>26, <1>27 DEF GuardStep

\* A step that starts no conversation leaves the active ones in their round.
NoneStarted ==
  \A r \in Rounds, m \in Rooms : rows'[r][m] = "active" => rows[r][m] = "active"

\* Then they are in the round that is shown.
LEMMA RowsStay ==
  ASSUME HRows, NoneStarted, task.pc = "flip" => task'.pc = "flip" /\ task'.arg = task.arg,
         Playing /\ task.pc # "rateFlip" => Playing' /\ mem'.round = mem.round /\ task'.pc # "rateFlip"
  PROVE  HRows'
  <1> SUFFICES ASSUME NEW r \in Rounds, NEW m \in Rooms, rows'[r][m] = "active"
               PROVE  \/ Playing' /\ mem'.round = r /\ task'.pc # "rateFlip"
                      \/ task'.pc = "flip" /\ task'.arg = r
    BY DEF HRows
  <1>1. rows[r][m] = "active"
    BY DEF NoneStarted
  <1> QED BY <1>1 DEF HRows

\* Rows set to another status than active,
LEMMA SetRowsStart ==
  ASSUME RowsOK, NEW r, NEW S, NEW status, status # "active", rows' = SetRows(rows, r, S, status)
  PROVE  NoneStarted
  BY DEF NoneStarted, SetRows, RowsOK, MatchRows

\* and rows planned anew, start none.
LEMMA ReplannedStart ==
  ASSUME RowsOK, NEW q, NEW r, NEW S, NEW G,
         rows' = Replanned(rows, q, G) \/ rows' = Replanned(SetRows(rows, r, S, "none"), q, G)
  PROVE  NoneStarted
  <1>1. CASE rows' = Replanned(rows, q, G)
    BY <1>1 DEF NoneStarted, Replanned, RowsOK, MatchRows
  <1>2. CASE rows' = Replanned(SetRows(rows, r, S, "none"), q, G)
    <2>1. PICK rs : rs = SetRows(rows, r, S, "none")
      OBVIOUS
    <2>2. \A p \in Rounds, m \in Rooms : rs[p][m] = "active" => rows[p][m] = "active"
      BY <2>1 DEF SetRows, RowsOK, MatchRows
    <2>3. \A p \in Rounds, m \in Rooms : rows'[p][m] = "active" => rs[p][m] = "active"
      BY <1>2, <2>1 DEF Replanned
    <2> QED BY <2>2, <2>3 DEF NoneStarted
  <1> QED BY <1>1, <1>2

\* A step that moves nothing the next round depends on.
LEMMA NextStays ==
  ASSUME HNext, mem'.pending \in {0, mem.pending},
         side'.gen \in {side.gen, "idle"}, side'.genRound = side.genRound,
         mem'.status \in {"lobby_open", "round_transition"} =>
           mem'.status = mem.status /\ mem'.round = mem.round,
         task'.pc \in StartPcs => task.pc \in StartPcs /\ task'.arg = task.arg
  PROVE  HNext'
  BY DEF HNext

\* Each step of the guard's holder: a confirmation starts the pending round, and
\* what was pending before a round is gone when its rating window closes.
LEMMA GuardStepNext ==
  ASSUME TypeOK, UndInv, LockTask, HControl, HNext, GuardStep
  PROVE  HNext'
  <1>1. CASE GoLive
    <2>1. /\ mem'.status = "lobby_open" /\ mem'.round = 0 /\ mem'.pending = 0 /\ task.pc = "goLive"
      BY <1>1 DEF GoLive, At, NewSession
    <2>2. mem.status = "scheduled"
      BY <2>1 DEF UndInv, UWrite
    <2>3. side'.gen \in {side.gen, "idle"} /\ task'.pc \notin StartPcs
      BY <1>1, ReturnFrees
      DEF GoLive, Begin, Free, StartPcs, LockTask, Goto, TypeOK, TaskOK, Tasks, SideOK, Sides
    <2>4. side'.gen \notin {"preview", "generate", "replan"}
      BY <2>2, <2>3 DEF HControl, HPend
    <2> QED BY <2>1, <2>3, <2>4 DEF HNext
  <1>2. CASE ConfirmRound
    <2>1. CASE Return
      BY <1>2, <2>1, ReturnFrees, NextStays
      DEF ConfirmRound, Free, StartPcs, At, LockTask, TypeOK, SideOK, Sides, TaskOK, Tasks
    <2>2. CASE ~Return
      <3>1. /\ mem.pending # 0 /\ mem' = Cleared(mem) /\ side' = side
            /\ task' = [task EXCEPT !.pc = "transitionToRound", !.arg = mem.pending]
        BY <1>2, <2>2 DEF ConfirmRound
      <3>2. mem'.status = mem.status /\ mem'.round = mem.round /\ mem'.pending = mem.pending
        BY <3>1 DEF Cleared, TypeOK, SessionOK, Sessions
      <3>3. task'.arg = mem.pending
        BY <3>1 DEF TypeOK, TaskOK, Tasks
      <3> QED BY <3>1, <3>2, <3>3 DEF HNext
    <2> QED BY <2>1, <2>2
  <1>3. CASE LoadRound
    <2>1. mem' = mem /\ task.pc = "transitionToRound"
      BY <1>3 DEF LoadRound, At
    <2>2. CASE Return
      BY <2>1, <2>2, ReturnFrees, NextStays DEF Free, StartPcs, TypeOK, SideOK, Sides
    <2>3. CASE ~Return
      <3>1. task'.arg = task.arg /\ side' = side
        BY <1>3, <2>3 DEF LoadRound, TypeOK, TaskOK, Tasks
      <3> QED BY <2>1, <3>1, NextStays DEF StartPcs
    <2> QED BY <2>2, <2>3
  <1>4. CASE Flip
    <2>1. CanTransition(mem.status, "round_active") /\ mem.live
      BY <1>4 DEF Flip, At, UndInv, UStart, StartingPcs
    <2>2. mem'.status = "round_active"
      BY <1>4, <2>1 DEF Flip, TypeOK, SessionOK, Sessions
    <2> QED BY <2>2 DEF HNext
  <1>5. CASE RoundArm
    <2>1. mem'.status = mem.status /\ mem.status = "round_active"
      BY <1>5 DEF RoundArm, At, Armed, Confirmed, UndInv, UStart, TypeOK, SessionOK, Sessions
    <2> QED BY <2>1 DEF HNext
  <1>6. CASE RateFlip
    <2>1. mem'.status = "round_rating"
      BY <1>6 DEF RateFlip, At, UndInv, UEnd, CanTransition, TypeOK, SessionOK, Sessions
    <2> QED BY <2>1 DEF HNext
  <1>7. CASE CloseDecide
    <2>1. mem.status = "round_rating" /\ task.pc = "finalize" /\ mem.live
      BY <1>7 DEF CloseDecide, At, UndInv, UEnd
    <2>2. mem.pending = 0 /\ side.gen \notin {"preview", "generate", "replan"}
      BY <2>1 DEF HControl, HPend, Shown, WritingPcs
    <2>3. mem'.pending = 0 /\ side' = side
      BY <1>7, <2>1, <2>2 DEF CloseDecide, NextPhase, TypeOK, SessionOK, Sessions
    <2>4. task'.pc \in {"completeSession", "statusRead"}
      BY <1>7, <2>1 DEF CloseDecide, Goto, UpdateStatus, TypeOK, TaskOK, Tasks
    <2> QED BY <2>2, <2>3, <2>4 DEF HNext, StartPcs
  <1>8. CASE AutoEnd
    <2>1. mem' = mem
      BY <1>8 DEF AutoEnd
    <2>2. CASE Return
      BY <2>1, <2>2, ReturnFrees, NextStays DEF Free, StartPcs, TypeOK, SideOK, Sides
    <2>3. CASE ~Return
      <3>1. task'.pc = "endRound" /\ side' = side
        BY <1>8, <2>3 DEF AutoEnd, Begin, Free
      <3> QED BY <2>1, <3>1, NextStays DEF StartPcs
    <2> QED BY <2>2, <2>3
  <1> USE DEF At, Free, StartPcs, LockTask, TypeOK, SessionOK, Sessions, TaskOK, Tasks, SideOK, Sides
  <1>9. CASE StatusRead
    BY <1>9, ReturnFrees, NextStays DEF StatusRead, Goto, AfterUpdate
  <1>10. CASE StatusWrite
    BY <1>10, ReturnFrees, NextStays DEF StatusWrite, Goto, AfterUpdate
  <1>11. CASE Plan
    BY <1>11, ReturnFrees, NextStays DEF Plan
  <1>12. CASE StartRoundRefused
    BY <1>12, ReturnFrees, NextStays DEF StartRoundRefused
  <1>13. CASE StartRound
    BY <1>13, ReturnFrees, NextStays DEF StartRound, Cleared
  <1>14. CASE RoundRefused
    BY <1>14, ReturnFrees, NextStays DEF RoundRefused, Confirmed
  <1>15. CASE CreateRooms
    BY <1>15, ReturnFrees, NextStays DEF CreateRooms, Goto
  <1>16. CASE Activate
    BY <1>16, ReturnFrees, NextStays DEF Activate, Goto
  <1>17. CASE RoundSave
    BY <1>17, ReturnFrees, NextStays DEF RoundSave, Goto
  <1>18. CASE EndRound
    BY <1>18, ReturnFrees, NextStays DEF EndRound, Goto
  <1>19. CASE RateSave
    BY <1>19, ReturnFrees, NextStays DEF RateSave, Goto
  <1>20. CASE RateArm
    BY <1>20, ReturnFrees, NextStays DEF RateArm, Armed
  <1>21. CASE EndRatingWindow
    BY <1>21, ReturnFrees, NextStays DEF EndRatingWindow, Goto, Cleared
  <1>22. CASE CloseSave
    BY <1>22, ReturnFrees, NextStays DEF CloseSave, WithPhaseTimer, Armed
  <1>23. CASE CompleteSession
    BY <1>23, ReturnFrees, NextStays DEF CompleteSession, Goto, MemCompleting, AlreadyCompleted
  <1>24. CASE Claim
    BY <1>24, ReturnFrees, NextStays DEF Claim, Goto, MemClaimed, ClaimLost
  <1>25. CASE Wipe
    BY <1>25, ReturnFrees, NextStays DEF Wipe, Goto
  <1>26. CASE Drop
    BY <1>26, ReturnFrees, NextStays DEF Drop, MemDropped
  <1>27. CASE OtherDone
    BY <1>27, ReturnFrees, NextStays DEF OtherDone
  <1> QED BY <1>1, <1>2, <1>3, <1>4, <1>5, <1>6, <1>7, <1>8, <1>9, <1>10, <1>11, <1>12, <1>13,
            <1>14, <1>15, <1>16, <1>17, <1>18, <1>19, <1>20, <1>21, <1>22, <1>23, <1>24, <1>25,
            <1>26, <1>27 DEF GuardStep

\* Each step of the guard's holder: a round's conversations begin before the
\* flip, and end before the next one.
LEMMA GuardStepRows ==
  ASSUME TypeOK, LockedStarts, UndInv, LockTask, HControl, HRows, GuardStep
  PROVE  HRows'
  <1>1. CASE Plan
    <2>1. task.pc = "plan" /\ mem' = mem /\ Return /\ \E G \in SUBSET Rooms : rows' = Replanned(rows, 1, G)
      BY <1>1 DEF Plan, At
    <2>2. NoneStarted
      BY <2>1, ReplannedStart DEF TypeOK
    <2> QED BY <2>1, <2>2, ReturnFrees, RowsStay DEF Free, Playing
  <1>2. CASE ConfirmRound
    <2>1. /\ task.pc = "confirm" /\ rows' = rows
          /\ mem'.live = mem.live /\ mem'.status = mem.status /\ mem'.round = mem.round
      BY <1>2 DEF ConfirmRound, At, Cleared, TypeOK, SessionOK, Sessions
    <2>2. task'.pc \in {"idle", "transitionToRound"}
      <3>1. CASE Return
        BY <3>1, ReturnFrees DEF Free
      <3>2. CASE ~Return
        BY <1>2, <3>2 DEF ConfirmRound, TypeOK, TaskOK, Tasks
      <3> QED BY <3>1, <3>2
    <2> QED BY <2>1, <2>2, RowsStay DEF Playing, NoneStarted
  <1>3. CASE LoadRound
    <2>1. task.pc = "transitionToRound" /\ mem' = mem
      BY <1>3 DEF LoadRound, At
    <2>2. task'.pc \in {"idle", "createRooms"}
      <3>1. CASE Return
        BY <3>1, ReturnFrees DEF Free
      <3>2. CASE ~Return
        BY <1>3, <3>2 DEF LoadRound, TypeOK, TaskOK, Tasks
      <3> QED BY <3>1, <3>2
    <2>3. NoneStarted
      BY <1>3, GuardStepCalm DEF GuardStep, LoadRound, Activate, At, RowsCalm, NoneStarted
    <2> QED BY <2>1, <2>2, <2>3, RowsStay DEF Playing
  <1>4. CASE Activate
    <2>1. /\ task.pc = "activate" /\ mem' = mem /\ task'.pc = "flip" /\ task'.arg = task.arg
          /\ ~Playing /\ task.arg \in Rounds
      BY <1>4 DEF Activate, At, Goto, Playing, UndInv, UStart, StartingPcs, CanTransition, TypeOK,
                  TaskOK, Tasks, Rounds
    <2>2. \A r \in Rounds, m \in Rooms : rows[r][m] # "active"
      BY <2>1 DEF HRows
    <2>3. \A r \in Rounds, m \in Rooms : rows'[r][m] = "active" => r = task.arg
      BY <1>4, <2>2 DEF Activate, SetRows, TypeOK, RowsOK, MatchRows
    <2> QED BY <2>1, <2>3 DEF HRows
  <1>5. CASE Flip
    <2>1. task.pc = "flip" /\ ~Playing /\ mem.live /\ rows' = rows
      BY <1>5 DEF Flip, At, Playing, UndInv, UStart, StartingPcs, CanTransition
    <2>2. mem'.live /\ mem'.status = "round_active" /\ mem'.round = task.arg /\ task'.pc = "statusRead"
      BY <1>5, <2>1 DEF Flip, UpdateStatus, TypeOK, SessionOK, Sessions, TaskOK, Tasks
    <2> QED BY <2>1, <2>2 DEF HRows, Playing
  <1>6. CASE RoundArm
    <2>1. /\ mem'.live = mem.live /\ mem'.status = mem.status /\ mem'.round = mem.round
          /\ rows' = rows /\ task.pc = "roundArm"
      BY <1>6 DEF RoundArm, At, Armed, Confirmed, TypeOK, SessionOK, Sessions
    <2>2. task' = Free
      BY <1>6 DEF RoundArm, ReturnTask, LockTask
    <2> QED BY <2>1, <2>2, RowsStay DEF Free, Playing, NoneStarted
  <1>7. CASE EndRound
    <2>1. task.pc = "endRound" /\ mem' = mem
      BY <1>7 DEF EndRound, At
    <2>2. CASE Return /\ rows' = rows
      BY <2>1, <2>2, ReturnFrees, RowsStay DEF Free, NoneStarted, Playing
    <2>3. CASE ~(Return /\ rows' = rows)
      <3>1. /\ rows' = SetRows(rows, task.arg, RowsIn(task.arg, {"active"}), "completed")
            /\ Playing
        BY <1>7, <2>3 DEF EndRound, CanTransition, Playing
      <3>2. task.arg = mem.round
        BY <2>1, <3>1 DEF HControl, HTask
      <3>3. \A r \in Rounds, m \in Rooms : rows[r][m] = "active" => r = task.arg
        BY <2>1, <3>2 DEF HRows
      <3>4. \A r \in Rounds, m \in Rooms : rows'[r][m] # "active"
        BY <3>1, <3>3 DEF SetRows, RowsIn, TypeOK, RowsOK, MatchRows
      <3> QED BY <3>4 DEF HRows
    <2> QED BY <2>2, <2>3
  <1>8. CASE RateFlip
    <2>1. task.pc = "rateFlip" /\ rows' = rows
      BY <1>8 DEF RateFlip, At
    <2>2. \A r \in Rounds, m \in Rooms : rows'[r][m] # "active"
      BY <2>1 DEF HRows
    <2> QED BY <2>2 DEF HRows
  <1>9. CASE CloseDecide
    <2>1. ~Playing /\ rows' = rows /\ task.pc = "finalize"
      BY <1>9 DEF CloseDecide, At, UndInv, UEnd, Playing
    <2> QED BY <2>1, RowsStay DEF NoneStarted
  <1>10. CASE Wipe
    <2>1. \A r \in Rounds, m \in Rooms : rows'[r][m] # "active"
      BY <1>10 DEF Wipe, RowsWiped
    <2> QED BY <2>1 DEF HRows
  <1>11. CASE AutoEnd
    <2>1. task.pc = "autoEnd" /\ UNCHANGED <<mem, rows>>
      BY <1>11 DEF AutoEnd, At
    <2>2. task'.pc \in {"idle", "endRound"}
      <3>1. CASE Return
        BY <3>1, ReturnFrees DEF Free
      <3>2. CASE ~Return
        BY <1>11, <3>2 DEF AutoEnd, Begin, Free
      <3> QED BY <3>1, <3>2
    <2> QED BY <2>1, <2>2, RowsStay DEF Playing, NoneStarted
  <1> USE DEF NoneStarted, Playing, HControl, HTimer, UndInv, UMem, UWrite, UEnd, UStart, EndingPcs,
              StartingPcs, CanTransition, TypeOK, SessionOK, Sessions, TaskOK, Tasks
  <1>12. CASE StatusRead
    BY <1>12, ReturnFrees, RowsStay DEF StatusRead, Goto, AfterUpdate, At, Free
  <1>13. CASE StatusWrite
    BY <1>13, ReturnFrees, RowsStay DEF StatusWrite, Goto, AfterUpdate, At, Free
  <1>14. CASE GoLive
    BY <1>14, ReturnFrees, RowsStay DEF GoLive, Goto, NewSession, At, Free
  <1>15. CASE StartRoundRefused
    BY <1>15, ReturnFrees, RowsStay DEF StartRoundRefused, At, Free
  <1>16. CASE StartRound
    BY <1>16, ReturnFrees, RowsStay DEF StartRound, Cleared, At, NextRound, Free
  <1>17. CASE RoundRefused
    BY <1>17, ReturnFrees, RowsStay DEF RoundRefused, Confirmed, At, Free
  <1>18. CASE CreateRooms
    BY <1>18, ReturnFrees, RowsStay, SetRowsStart DEF CreateRooms, Goto, At, Free
  <1>19. CASE RoundSave
    BY <1>19, ReturnFrees, RowsStay DEF RoundSave, Goto, At, Free
  <1>20. CASE RateSave
    BY <1>20, ReturnFrees, RowsStay DEF RateSave, Goto, At, Free
  <1>21. CASE RateArm
    BY <1>21, ReturnFrees, RowsStay DEF RateArm, Armed, At, Free
  <1>22. CASE EndRatingWindow
    BY <1>22, ReturnFrees, RowsStay DEF EndRatingWindow, Goto, Cleared, At, Free
  <1>23. CASE CloseSave
    BY <1>23, ReturnFrees, RowsStay DEF CloseSave, WithPhaseTimer, Armed, At, Free
  <1>24. CASE CompleteSession
    BY <1>24, ReturnFrees, RowsStay DEF CompleteSession, Goto, MemCompleting, At, AlreadyCompleted, Free
  <1>25. CASE Claim
    BY <1>25, ReturnFrees, RowsStay DEF Claim, Goto, MemClaimed, ClaimLost, At, Free
  <1>26. CASE Drop
    BY <1>26, ReturnFrees, RowsStay DEF Drop, MemDropped, At, Free
  <1>27. CASE OtherDone
    BY <1>27, ReturnFrees, RowsStay DEF OtherDone, At, Free
  <1> QED BY <1>1, <1>2, <1>3, <1>4, <1>5, <1>6, <1>7, <1>8, <1>9, <1>10, <1>11, <1>12, <1>13,
            <1>14, <1>15, <1>16, <1>17, <1>18, <1>19, <1>20, <1>21, <1>22, <1>23, <1>24, <1>25,
            <1>26, <1>27 DEF GuardStep

\* A callback or a confirmation that asks for the guard.
LEMMA RequestHost ==
  ASSUME TypeOK, UndInv, LockTask, LockQueue, HControl, HQueue, HEnds,
         mem'.live = mem.live, mem'.status = mem.status, mem'.round = mem.round,
         mem'.pending = mem.pending,
         NEW kind \in QueuedKinds \ {"transitionToRound"}, NEW r, Request(kind, r),
         \/ mem'.timer = mem.timer /\ mem'.timerRound = mem.timerRound
         \/ mem'.timer = "none" /\ Due /\ kind = FiredKind,
         side'.check = 0, side'.gen \in {side.gen, "confirm"},
         kind = "confirm" => side.gen = "idle",
         side'.gen = "confirm" => side.gen \in {"idle", "confirm"},
         kind = "endRound" =>
           ~Setting /\ r = mem.round /\ mem.status \in {"round_active", "round_rating"},
         kind = "endRatingWindow" => Rating /\ r = mem.round,
         kind = "completeSession" => mem.status \in {"closing_lobby", "completed"}
  PROVE  HControl' /\ HQueue' /\ HEnds'
  <1>1. kind = "endRound" => mem.pending = 0
    BY DEF HControl, HPend, Setting
  <1>2. CASE Idle /\ waiting = <<>> /\ Begin(kind, OpOf(kind), r) /\ UNCHANGED waiting
    <2>1. task'.pc = kind /\ task'.arg = r /\ task.pc = "idle"
      BY <1>2 DEF Begin, Free, Idle
    <2>2. \A i \in DOMAIN waiting : FALSE
      BY <1>2
    <2>3. HControl'
      BY <2>1, <1>1 DEF QueuedKinds, Callbacks, HControl, HPend, HTimer, HTask, StartPcs, Shown, Setting,
           RatingPcs, WritingPcs, Playing, Rating, UndInv, UMem
    <2>4. HQueue'
      BY <1>2, <2>1, <2>2 DEF HQueue, Queueing, Setting, Shown, StartPcs, WritingPcs, QueuedKinds,
         Callbacks
    <2>5. HEnds'
      BY <2>1, <2>2 DEF HEnds, EndsRound, EndsRating, EndsClosing, Playing, Rating, Closing, Queueing,
           CloseQueued, RatingPcs, WritingPcs, FiredKind, Due, Callbacks
    <2> QED BY <2>3, <2>4, <2>5
  <1>3. CASE waiting' = Append(waiting, [kind |-> kind, round |-> r]) /\ task' = task
    <2>1. /\ DOMAIN waiting' = 1..(Len(waiting) + 1) /\ DOMAIN waiting = 1..Len(waiting)
          /\ \A i \in DOMAIN waiting : waiting'[i] = waiting[i]
          /\ waiting'[Len(waiting) + 1] = [kind |-> kind, round |-> r] /\ Len(waiting) \in Nat
      BY <1>3 DEF TypeOK, WaitingOK
    <2>2. /\ \A i \in DOMAIN waiting' : i \in DOMAIN waiting \/ i = Len(waiting) + 1
          /\ DOMAIN waiting \subseteq DOMAIN waiting' /\ Len(waiting) + 1 \in DOMAIN waiting'
          /\ \A i \in DOMAIN waiting : ~(Len(waiting) + 1 < i)
      BY <2>1
    <2>3. HControl'
      BY <1>1, <1>3 DEF HControl, HPend, HTimer, HTask, Shown, Setting, Playing
    <2>4. kind = "confirm" => ~Queueing("confirm") /\ task.pc # "confirm"
      BY DEF LockTask, LockQueue, Queueing
    <2>5. \A i, j \in DOMAIN waiting' :
            j < i /\ waiting'[j].kind = "confirm" /\ waiting'[i].kind = "endRound" => mem'.pending = 0
      <3> SUFFICES ASSUME NEW i \in DOMAIN waiting', NEW j \in DOMAIN waiting', j < i,
                          waiting'[j].kind = "confirm", waiting'[i].kind = "endRound"
                   PROVE  mem.pending = 0
        OBVIOUS
      <3>1. CASE i = Len(waiting) + 1
        BY <3>1, <2>1, <1>1
      <3>2. CASE i \in DOMAIN waiting
        BY <3>2, <2>1, <2>2 DEF HQueue
      <3> QED BY <3>1, <3>2, <2>2
    <2>6. ~Queueing("endRound") /\ kind # "endRound" =>
            \A i \in DOMAIN waiting' : waiting'[i].kind # "endRound"
      BY <2>1, <2>2 DEF Queueing
    <2>7. task'.pc = "confirm" /\ mem'.pending # 0 =>
            \A i \in DOMAIN waiting' : waiting'[i].kind # "endRound"
      BY <1>1, <1>3, <2>6 DEF HQueue
    <2>8. Setting' => \A i \in DOMAIN waiting' : waiting'[i].kind # "endRound"
      BY <1>3, <2>6 DEF HQueue, Setting, Shown
    <2>9. Playing' =>
            \A i \in DOMAIN waiting' : waiting'[i].kind = "endRound" => waiting'[i].round = mem'.round
      BY <2>1, <2>2 DEF HQueue, Playing
    <2>10. \A i \in DOMAIN waiting' :
             waiting'[i].kind = "completeSession" => mem'.status \in {"closing_lobby", "completed"}
      BY <2>1, <2>2 DEF HQueue, Queueing
    <2>11. HQueue'
      BY <2>5, <2>7, <2>8, <2>9, <2>10 DEF HQueue, Queueing
    <2>12. /\ \A k : Queueing(k) => \E i \in DOMAIN waiting' : waiting'[i].kind = k
           /\ CloseQueued => \E i \in DOMAIN waiting' :
                waiting'[i].kind = "endRatingWindow" /\ waiting'[i].round = mem'.round
           /\ \E i \in DOMAIN waiting' : waiting'[i].kind = kind /\ waiting'[i].round = r
      BY <2>1, <2>2 DEF Queueing, CloseQueued
    <2>13. HEnds'
      BY <1>3, <2>12 DEF HEnds, EndsRound, EndsRating, EndsClosing, Playing, Rating, Closing, Queueing,
           CloseQueued, FiredKind, Due, Callbacks
    <2> QED BY <2>3, <2>11, <2>13
  <1> QED BY <1>2, <1>3 DEF Request

\* A timer that fires names the round that is shown.
LEMMA TimerFireHost ==
  ASSUME TypeOK, UndInv, LockTask, LockQueue, HControl, HQueue, HEnds, TimerFire
  PROVE  HControl' /\ HQueue' /\ HEnds'
  <1>1. /\ mem'.live = mem.live /\ mem'.status = mem.status /\ mem'.round = mem.round
        /\ mem'.pending = mem.pending /\ mem'.timer = "none" /\ Due /\ side' = side
        /\ Request(FiredKind, FiredRound)
    BY DEF TimerFire, TypeOK, SessionOK, Sessions
  <1>2. FiredKind \in QueuedKinds \ {"transitionToRound", "confirm"}
    BY <1>1 DEF Due, FiredKind, LockTask, QueuedKinds, Callbacks
  <1>3. FiredKind = "endRound" =>
          ~Setting /\ FiredRound = mem.round /\ mem.status \in {"round_active", "round_rating"}
    BY <1>1 DEF Due, FiredKind, FiredRound, HControl, HTimer
  <1>4. FiredKind = "endRatingWindow" => Rating /\ FiredRound = mem.round
    BY <1>1 DEF Due, FiredKind, FiredRound, HControl, HTimer, Rating, UndInv, UMem
  <1>5. FiredKind = "completeSession" => mem.status \in {"closing_lobby", "completed"}
    BY <1>1 DEF Due, FiredKind, HControl, HTimer
  <1> QED BY <1>1, <1>2, <1>3, <1>4, <1>5, RequestHost DEF HControl, HPend

\* The queue is served in order, so that an end that waits is run before a
\* confirmation that came later.
LEMMA DispatchHost ==
  ASSUME TypeOK, UndInv, LockTask, LockQueue, HControl, HQueue, HEnds, Dispatch
  PROVE  HControl' /\ HQueue' /\ HEnds'
  <1>1. /\ task.pc = "idle" /\ waiting # <<>> /\ waiting' = Tail(waiting) /\ UNCHANGED <<mem, side>>
        /\ Begin(Head(waiting).kind, OpOf(Head(waiting).kind), Head(waiting).round)
    BY DEF Dispatch, Idle
  <1>2. /\ DOMAIN waiting = 1..Len(waiting) /\ Len(waiting) \in Nat \ {0} /\ Head(waiting) = waiting[1]
        /\ DOMAIN waiting' = 1..(Len(waiting) - 1) /\ 1 \in DOMAIN waiting
        /\ \A i \in DOMAIN waiting' : waiting'[i] = waiting[i + 1] /\ i + 1 \in DOMAIN waiting /\ 1 < i + 1
        /\ \A i, j \in DOMAIN waiting' : j < i => j + 1 < i + 1
    BY <1>1, HeadOfQueue DEF TypeOK
  <1>3. /\ task'.pc = waiting[1].kind /\ task'.arg = waiting[1].round
        /\ waiting[1].kind \in QueuedKinds \ {"transitionToRound"}
    <2>1. waiting[1] \in Queued
      BY <1>1, HeadOfQueue DEF TypeOK
    <2> QED BY <1>1, <1>2, <2>1 DEF Begin, Free, Queued, LockQueue
  <1>4. \A i \in DOMAIN waiting :
          i = 1 \/ \E j \in DOMAIN waiting' : waiting'[j] = waiting[i]
    <2> SUFFICES ASSUME NEW i \in DOMAIN waiting, i # 1
                 PROVE  \E j \in DOMAIN waiting' : waiting'[j] = waiting[i]
      OBVIOUS
    <2>1. i - 1 \in DOMAIN waiting' /\ (i - 1) + 1 = i
      BY <1>2
    <2>2. waiting'[i - 1] = waiting[(i - 1) + 1]
      BY <1>2, <2>1
    <2> QED BY <2>1, <2>2
  <1>5. waiting[1].kind = "completeSession" => mem.status \in {"closing_lobby", "completed"}
    BY <1>2 DEF HQueue, Queueing
  <1>6. Playing /\ waiting[1].kind = "endRound" => waiting[1].round = mem.round
    BY <1>2 DEF HQueue
  <1>7. HControl'
    BY <1>1, <1>3, <1>5, <1>6 DEF QueuedKinds, Callbacks, HControl, HPend, HTimer, HTask, StartPcs, Shown,
         Setting, RatingPcs, WritingPcs, Playing
  <1>8. task'.pc = "confirm" /\ mem.pending # 0 => \A i \in DOMAIN waiting' : waiting'[i].kind # "endRound"
    BY <1>2, <1>3 DEF HQueue
  <1>9. \A i, j \in DOMAIN waiting' :
          j < i /\ waiting'[j].kind = "confirm" /\ waiting'[i].kind = "endRound" => mem.pending = 0
    BY <1>2 DEF HQueue
  <1>10. Playing =>
           \A i \in DOMAIN waiting' : waiting'[i].kind = "endRound" => waiting'[i].round = mem.round
    BY <1>2 DEF HQueue
  <1>11. \A i \in DOMAIN waiting' :
           waiting'[i].kind = "completeSession" => mem.status \in {"closing_lobby", "completed"}
    BY <1>2 DEF HQueue, Queueing
  <1>12. ~Setting'
    BY <1>3 DEF Setting, Shown, StartPcs, WritingPcs, QueuedKinds, Callbacks
  <1>13. HQueue'
    BY <1>1, <1>8, <1>9, <1>10, <1>11, <1>12 DEF HQueue, Queueing, Playing
  <1>14. HEnds'
    <2>1. \A k : Queueing(k) => waiting[1].kind = k \/ \E j \in DOMAIN waiting' : waiting'[j].kind = k
      BY <1>4 DEF Queueing
    <2>2. CloseQueued =>
            \/ waiting[1].kind = "endRatingWindow" /\ waiting[1].round = mem.round
            \/ \E j \in DOMAIN waiting' :
                 waiting'[j].kind = "endRatingWindow" /\ waiting'[j].round = mem.round
      BY <1>4 DEF CloseQueued
    <2>3. Playing' => EndsRound' \/ \E j \in DOMAIN waiting' : waiting'[j].kind = "endRound"
      <3>1. EndsRound => mem.timer = "endRound"
        BY <1>1 DEF EndsRound, WritingPcs
      <3> QED BY <1>1, <1>3, <2>1, <3>1 DEF HEnds, EndsRound, Playing
    <2>4. Rating' =>
            \/ EndsRating'
            \/ \E j \in DOMAIN waiting' :
                 waiting'[j].kind = "endRatingWindow" /\ waiting'[j].round = mem'.round
      <3>1. EndsRating => mem.timer \in {"endRatingWindow", "grace"}
        BY <1>1 DEF EndsRating, RatingPcs
      <3> QED BY <1>1, <1>3, <2>2, <3>1 DEF HEnds, EndsRating, Rating
    <2>5. Closing' => EndsClosing' \/ \E j \in DOMAIN waiting' : waiting'[j].kind = "completeSession"
      <3>1. EndsClosing => mem.timer = "completeSession"
        BY <1>1 DEF EndsClosing, WritingPcs
      <3> QED BY <1>1, <1>3, <2>1, <3>1 DEF HEnds, EndsClosing, Closing
    <2> QED BY <2>3, <2>4, <2>5 DEF HEnds, Queueing, CloseQueued
  <1> QED BY <1>7, <1>13, <1>14

\* The requests of people: none starts a round here but a confirmation.
LEMMA GuardedRequestHost ==
  ASSUME TypeOK, Hosted, UndInv, LockTask, LockQueue, HControl, HQueue, HEnds, GuardedRequest
  PROVE  HControl' /\ HQueue' /\ HEnds'
  <1>1. CASE HostConfirmRound
    <2>1. /\ side.gen = "idle" /\ side'.gen = "confirm" /\ side'.check = side.check /\ mem' = mem
          /\ Request("confirm", 0)
      BY <1>1 DEF HostConfirmRound, TypeOK, SideOK, Sides
    <2> QED BY <2>1, RequestHost DEF HControl, HPend, QueuedKinds, Callbacks
  <1>2. CASE HostEnd
    <2>1. /\ task.pc = "idle" /\ UNCHANGED <<waiting, side>>
          /\ mem'.live = mem.live /\ mem'.status = mem.status /\ mem'.round = mem.round
          /\ mem'.pending = mem.pending /\ mem'.timerRound = mem.timerRound
          /\ mem'.timer \in {mem.timer, "none", "cleared"}
          /\ mem.timer = "none" => mem'.timer = "none"
      BY <1>2 DEF HostEnd, Idle, TypeOK, SessionOK, Sessions
    <2>2. \/ Playing /\ task'.pc = "endRound" /\ task'.arg = mem.round
          \/ Rating /\ task'.pc = "endRatingWindow" /\ task'.arg = mem.round
          \/ ~Playing /\ ~Rating /\ task'.pc = "completeSession"
      BY <1>2 DEF HostEnd, Begin, Free, Playing, Rating
    <2>3. mem.status \in {"round_active", "round_rating"} => mem.live
      BY DEF UndInv, UMem
    <2>4. Rating => mem'.timer = mem.timer
      BY <1>2 DEF HostEnd, Rating, TypeOK, SessionOK, Sessions
    <2>5. HControl' /\ QueueCalm
      BY <2>1, <2>2, <2>3, <2>4 DEF HControl, HPend, HTimer, HTask, QueueCalm, Setting, Shown, StartPcs,
           WritingPcs, RatingPcs, Playing, Rating
    <2>6. PhaseCalm
      BY <2>1, <2>2 DEF PhaseCalm, EndsRound, EndsRating, EndsClosing, Playing, Rating, Closing
    <2> QED BY <2>1, <2>5, <2>6, QueueStays, EndsStay
  <1>3. CASE LeaveConversation
    <2>1. /\ waiting' = Append(waiting, [kind |-> "autoEnd", round |-> 0])
          /\ UNCHANGED <<mem, task, side>>
      BY <1>3 DEF LeaveConversation
    <2>2. /\ DOMAIN waiting' = 1..(Len(waiting) + 1) /\ DOMAIN waiting = 1..Len(waiting)
          /\ \A i \in DOMAIN waiting : waiting'[i] = waiting[i]
          /\ waiting'[Len(waiting) + 1].kind = "autoEnd" /\ Len(waiting) \in Nat
      BY <2>1 DEF TypeOK, WaitingOK
    <2>3. /\ \A i \in DOMAIN waiting' : i \in DOMAIN waiting \/ i = Len(waiting) + 1
          /\ DOMAIN waiting \subseteq DOMAIN waiting'
      BY <2>2
    <2>4. /\ \A k : Queueing(k) => \E i \in DOMAIN waiting' : waiting'[i].kind = k
          /\ \A i \in DOMAIN waiting' : waiting'[i].kind # "autoEnd" => Queueing(waiting'[i].kind)
          /\ CloseQueued => \E i \in DOMAIN waiting' :
               waiting'[i].kind = "endRatingWindow" /\ waiting'[i].round = mem.round
      BY <2>2, <2>3 DEF Queueing, CloseQueued
    <2>5. HControl'
      BY <2>1 DEF HControl, HPend, HTimer, HTask, Shown, Setting, Playing
    <2>6. HEnds'
      BY <2>1, <2>4 DEF HEnds, EndsRound, EndsRating, EndsClosing, Playing, Rating, Closing, Queueing,
           CloseQueued
    <2>7. HQueue'
      <3>1. \A i, j \in DOMAIN waiting' :
              j < i /\ waiting'[j].kind = "confirm" /\ waiting'[i].kind = "endRound" => mem.pending = 0
        BY <2>2, <2>3 DEF HQueue
      <3>2. \A i \in DOMAIN waiting' : waiting'[i].kind = "endRound" => Queueing("endRound")
        BY <2>4
      <3>3. \A i \in DOMAIN waiting' : waiting'[i].kind = "completeSession" => Queueing("completeSession")
        BY <2>4
      <3>4. Playing =>
              \A i \in DOMAIN waiting' : waiting'[i].kind = "endRound" => waiting'[i].round = mem.round
        BY <2>2, <2>3 DEF HQueue
      <3>5. (Setting' <=> Setting) /\ (Playing' <=> Playing)
        BY <2>1 DEF Setting, Shown, Playing
      <3> QED BY <2>1, <3>1, <3>2, <3>3, <3>4, <3>5 DEF HQueue, Queueing
    <2> QED BY <2>5, <2>6, <2>7
  <1> USE DEF Hosted, Idle, HControl, HPend, HTimer, HTask, StartPcs, Shown, Setting, RatingPcs,
              WritingPcs, EndingPcs, StartingPcs, Playing, Rating, Closing, EndsRound, EndsRating,
              EndsClosing, QueueCalm, PhaseCalm, UndInv, UMem, UWrite, UAgree, UStart, UEnd,
              CanTransition, TypeOK, SessionOK, Sessions, TaskOK, Tasks, SideOK, Sides
  <1>4. CASE HostStart
    BY <1>4, QueueStays, EndsStay DEF HostStart, Free
  <1>5. CASE HostStartRound
    BY <1>5, QueueStays, EndsStay DEF HostStartRound
  <1>6. CASE HostForceCloseRating
    BY <1>6, QueueStays, EndsStay DEF HostForceCloseRating, Begin, Free
  <1>7. CASE HostPause
    BY <1>7, QueueStays, EndsStay DEF HostPause
  <1>8. CASE HostResume
    BY <1>8, QueueStays, EndsStay DEF HostResume
  <1>9. CASE HostExtendRound
    BY <1>9, QueueStays, EndsStay DEF HostExtendRound, Armed
  <1>10. CASE OtherHold
    BY <1>10, QueueStays, EndsStay DEF OtherHold, Begin, Free
  <1>11. CASE RatingsComplete
    BY <1>11, QueueStays, EndsStay DEF RatingsComplete, InGrace
  <1> QED BY <1>1, <1>2, <1>3, <1>4, <1>5, <1>6, <1>7, <1>8, <1>9, <1>10, <1>11 DEF GuardedRequest

\* A step beside the holder of the guard, which goes on or just begins.
HolderSame ==
  /\ mem'.live = mem.live /\ mem'.status = mem.status /\ mem'.round = mem.round
  /\ mem'.total = mem.total
  /\ \/ task'.pc = task.pc /\ task'.arg = task.arg
     \/ task.pc = "idle" /\ task'.pc \notin StartPcs \cup {"rateFlip"}

\* It plans nothing either, unless it is the preview's.
PlanSame ==
  mem'.pending = mem.pending /\ side'.gen \in {side.gen, "confirm"} /\ side'.genRound = side.genRound

\* Such a step leaves the next round the next,
LEMMA BesideNext == ASSUME HNext, HolderSame, PlanSame PROVE HNext'
  BY DEF HNext, HolderSame, PlanSame, StartPcs

\* and the conversations in their round.
LEMMA BesideRows == ASSUME HRows, NoneStarted, HolderSame PROVE HRows'
  BY RowsStay DEF HolderSame, Playing

\* A callback that asks for the guard is one,
LEMMA RequestHolder ==
  ASSUME NEW kind \in QueuedKinds \ {"transitionToRound"}, NEW r, Request(kind, r)
  PROVE  \/ task' = task
         \/ task.pc = "idle" /\ task'.pc \notin StartPcs \cup {"rateFlip"}
  BY DEF Request, Begin, Free, Idle, QueuedKinds, Callbacks, StartPcs

\* and so is a request.
LEMMA GuardedRequestHolder ==
  ASSUME TypeOK, Hosted, GuardedRequest
  PROVE  HolderSame /\ PlanSame
  <1>1. CASE HostConfirmRound
    BY <1>1, RequestHolder
    DEF HostConfirmRound, HolderSame, PlanSame, QueuedKinds, Callbacks, TypeOK, SideOK, Sides
  <1>4. CASE HostEnd
    <2>1. /\ mem'.live = mem.live /\ mem'.status = mem.status /\ mem'.round = mem.round
          /\ mem'.total = mem.total /\ mem'.pending = mem.pending /\ side' = side /\ task.pc = "idle"
      BY <1>4 DEF HostEnd, Idle, TypeOK, SessionOK, Sessions
    <2>2. task'.pc \in {"endRound", "endRatingWindow", "completeSession"}
      BY <1>4 DEF HostEnd, Begin, Free
    <2> QED BY <2>1, <2>2 DEF HolderSame, PlanSame, StartPcs
  <1> USE DEF Hosted, HolderSame, PlanSame, StartPcs, Idle, TypeOK, SessionOK, Sessions, TaskOK, Tasks,
              SideOK, Sides
  <1>2. CASE HostStart
    BY <1>2 DEF HostStart, Free
  <1>3. CASE HostStartRound \/ HostPause \/ HostResume
    BY <1>3 DEF HostStartRound, HostPause, HostResume
  <1>5. CASE HostForceCloseRating
    BY <1>5 DEF HostForceCloseRating, Begin, Free
  <1>6. CASE HostExtendRound
    BY <1>6 DEF HostExtendRound, Armed
  <1>7. CASE LeaveConversation
    BY <1>7 DEF LeaveConversation
  <1>8. CASE OtherHold
    BY <1>8 DEF OtherHold, Begin, Free
  <1>9. CASE RatingsComplete
    BY <1>9 DEF RatingsComplete, InGrace
  <1> QED BY <1>1, <1>2, <1>3, <1>4, <1>5, <1>6, <1>7, <1>8, <1>9 DEF GuardedRequest

\* The tasks beside the guard: no-shows are marked, and their check queues.
LEMMA UnguardedHost ==
  ASSUME TypeOK, Hosted, UndInv, LockTask, LockQueue, HControl, HQueue, HEnds, Unguarded
  PROVE  HControl' /\ HQueue' /\ HEnds' /\ HolderSame /\ PlanSame
  <1>1. CASE NoShowDone
    <2>1. /\ side'.gen = side.gen /\ side'.check = side.check /\ mem' = mem /\ Request("autoEnd", 0)
      BY <1>1 DEF NoShowDone, TypeOK, SideOK, Sides
    <2>2. HolderSame /\ PlanSame
      BY <1>1, <2>1, RequestHolder
      DEF NoShowDone, HolderSame, PlanSame, QueuedKinds, Callbacks, TypeOK, SideOK, Sides
    <2> QED BY <2>1, <2>2, RequestHost DEF HControl, HPend, QueuedKinds, Callbacks
  <1>2. CASE NoShowScan \/ NoShowMark
    <2>1. /\ UNCHANGED <<mem, task, waiting>> /\ side'.gen = side.gen /\ side'.check = side.check
          /\ side'.genRound = side.genRound
      BY <1>2 DEF NoShowScan, NoShowMark, TypeOK, SideOK, Sides
    <2> QED BY <2>1, QueueStays, EndsStay DEF HolderSame, PlanSame, QueueCalm, PhaseCalm, HControl, HPend, HTimer,
               HTask, Shown, Setting, Playing, Rating, Closing,
           EndsRound, EndsRating, EndsClosing
  <1>3. CASE RestEnd \/ RestClaim \/ RestWipe \/ RestDrop
    BY <1>3 DEF RestEnd, RestClaim, RestWipe, RestDrop, Hosted, UndInv, UQueue
  <1>4. CASE RestPause \/ RestResume
    BY <1>4 DEF RestPause, RestResume, Hosted
  <1>5. CASE SkipCheck \/ SkipGrace
    BY <1>5 DEF SkipCheck, SkipGrace, Hosted, HControl, HPend
  <1> QED BY <1>1, <1>2, <1>3, <1>4, <1>5 DEF Unguarded

\* The preview: a round is left pending only in a phase that may start one.
LEMMA PreviewStepHost ==
  ASSUME TypeOK, Hosted, UndInv, LockTask, LockQueue, HControl, HQueue, HEnds, PreviewStep
  PROVE  HControl' /\ HQueue' /\ HEnds' /\ HolderSame
  <1>1. CASE ReopenRead \/ ReopenWrite
    BY <1>1 DEF ReopenRead, ReopenWrite, UndInv, UQueue
  <1>2. CASE HostRegenerateMatches \/ HostSwapMatch
    BY <1>2 DEF HostRegenerateMatches, HostSwapMatch, Hosted
  <1>3. CASE RegenerateRound
    BY <1>3 DEF RegenerateRound, HControl, HPend
  <1>11. CASE HostExcludeFromRound
    <2>1. UNCHANGED <<mem, waiting>>
      BY <1>11 DEF HostExcludeFromRound
    <2>2. side'.gen = side.gen /\ side'.check = side.check
      BY <1>11 DEF HostExcludeFromRound, SideLosing, TypeOK, SideOK, Sides
    <2>3. /\ task'.pc = task.pc /\ task'.op = task.op /\ task'.arg = task.arg
          /\ task'.target = task.target
      BY <1>11 DEF HostExcludeFromRound, ReplansAfter, TypeOK, TaskOK, Tasks
    <2> QED BY <2>1, <2>2, <2>3, QueueStays, EndsStay DEF HolderSame, QueueCalm, PhaseCalm, HControl,
               HPend, HTimer, HTask, Shown, Setting, Playing, Rating, Closing,
           EndsRound, EndsRating, EndsClosing
  <1> USE DEF Hosted, HolderSame, QueueCalm, PhaseCalm, HControl, HPend, HTimer, HTask, Shown, Setting,
              Playing, Rating, Closing,
           EndsRound, EndsRating, EndsClosing, TypeOK,
           SessionOK, Sessions, TaskOK, Tasks, SideOK, Sides
  <1>4. CASE HostGenerateMatches
    BY <1>4, QueueStays, EndsStay DEF HostGenerateMatches, GenGoto
  <1>5. CASE ChooseRound
    BY <1>5, QueueStays, EndsStay DEF ChooseRound, GenGoto
  <1>6. CASE SurfacePlan
    BY <1>6, QueueStays, EndsStay DEF SurfacePlan, GenGoto
  <1>7. CASE DeletePlan
    BY <1>7, QueueStays, EndsStay DEF DeletePlan, GenReplaces, TaskLosing, SideLosing
  <1>8. CASE GeneratePlan
    BY <1>8, QueueStays, EndsStay DEF GeneratePlan, GenReplaces, TaskLosing, SideLosing
  <1>9. CASE Replan
    BY <1>9, QueueStays, EndsStay DEF Replan, GenGoto, ReplansAfter
  <1>10. CASE HostCancelPreview
    BY <1>10, QueueStays, EndsStay DEF HostCancelPreview
  <1> QED BY <1>1, <1>2, <1>3, <1>4, <1>5, <1>6, <1>7, <1>8, <1>9, <1>10, <1>11 DEF PreviewStep

\* What the preview leaves pending is the next round.
LEMMA PreviewNext ==
  ASSUME TypeOK, Hosted, UndInv, HControl, HNext, HolderSame, PreviewStep
  PROVE  HNext'
  <1>1. CASE ReopenRead \/ ReopenWrite
    BY <1>1 DEF ReopenRead, ReopenWrite, UndInv, UQueue
  <1>2. CASE HostRegenerateMatches \/ HostSwapMatch \/ RegenerateRound
    BY <1>2 DEF HostRegenerateMatches, HostSwapMatch, RegenerateRound, Hosted, HControl, HPend
  <1>3. mem'.status \in {"lobby_open", "round_transition"} /\ task'.pc \in StartPcs =>
          task'.arg = mem'.round + 1
    BY DEF HolderSame, HNext
  <1>4. CASE ChooseRound
    <2>1. NextRound(mem) = mem.round + 1
      BY DEF NextRound, UndInv, UMem, TypeOK, SessionOK, Sessions
    <2> QED BY <1>3, <1>4, <2>1
            DEF ChooseRound, GenGoto, HNext, HolderSame, TypeOK, SideOK, Sides
  <1> USE DEF HNext, HolderSame, TypeOK, SessionOK, Sessions, SideOK, Sides
  <1>5. CASE HostGenerateMatches
    BY <1>3, <1>5 DEF HostGenerateMatches, GenGoto, Hosted
  <1>6. CASE SurfacePlan
    BY <1>3, <1>6 DEF SurfacePlan, GenGoto
  <1>7. CASE DeletePlan
    BY <1>3, <1>7 DEF DeletePlan, GenReplaces, SideLosing
  <1>8. CASE GeneratePlan
    BY <1>3, <1>8 DEF GeneratePlan, GenReplaces, SideLosing
  <1>9. CASE Replan
    BY <1>3, <1>9 DEF Replan, GenGoto
  <1>10. CASE HostCancelPreview
    BY <1>3, <1>10 DEF HostCancelPreview
  <1>11. CASE HostExcludeFromRound
    BY <1>3, <1>11 DEF HostExcludeFromRound, SideLosing
  <1> QED BY <1>1, <1>2, <1>4, <1>5, <1>6, <1>7, <1>8, <1>9, <1>10, <1>11 DEF PreviewStep

\* What the preview writes are plans, and a conversation is no plan.
LEMMA PreviewStarts ==
  ASSUME TypeOK, Hosted, HControl, PreviewStep
  PROVE  NoneStarted
  <1>1. CASE HostRegenerateMatches \/ HostSwapMatch \/ RegenerateRound
    BY <1>1 DEF HostRegenerateMatches, HostSwapMatch, RegenerateRound, Hosted, HControl, HPend
  <1>2. CASE HostGenerateMatches \/ ReopenRead \/ ReopenWrite \/ ChooseRound \/ SurfacePlan
    BY <1>2 DEF HostGenerateMatches, ReopenRead, ReopenWrite, ChooseRound, SurfacePlan, NoneStarted
  <1>3. CASE DeletePlan
    BY <1>3, SetRowsStart DEF DeletePlan, TypeOK
  <1>4. CASE GeneratePlan
    BY <1>4, SetRowsStart DEF GeneratePlan, TypeOK
  <1>5. CASE Replan
    BY <1>5, ReplannedStart DEF Replan, ReplansAfter, TypeOK
  <1>6. CASE HostCancelPreview
    BY <1>6, SetRowsStart DEF HostCancelPreview, TypeOK
  <1>7. CASE HostExcludeFromRound
    BY <1>7, ReplannedStart DEF HostExcludeFromRound, ReplansAfter, TypeOK
  <1> QED BY <1>1, <1>2, <1>3, <1>4, <1>5, <1>6, <1>7 DEF PreviewStep

\* Nothing fails but the copy in Redis, which shows nothing.
LEMMA FailureHost ==
  ASSUME Hosted, UndInv, Failure
  PROVE  UNCHANGED <<mem, rows, task, waiting, side>>
  <1>1. CASE Flush
    BY <1>1 DEF Flush
  <1>2. CASE JoinRecover
    BY <1>2 DEF JoinRecover, UndInv, UAgree, LiveStatuses, Idle
  <1>3. CASE Throw \/ RestartFromRedis \/ RestartFromDb \/ RestartWithout
    BY <1>3 DEF Throw, RestartFromRedis, RestartFromDb, RestartWithout, Die, Hosted
  <1> QED BY <1>1, <1>2, <1>3 DEF Failure

\* A hosted event has the two earlier invariants.
LEMMA HostedCalmly == ASSUME Hosted PROVE LockedStarts /\ Undisturbed
  BY DEF Hosted, LockedStarts, Undisturbed

\* The inductive invariant of a hosted event.
HostInv == HControl /\ HQueue /\ HEnds /\ HRows /\ HNext

\* A step that shows nothing keeps it.
LEMMA SilentHost ==
  ASSUME HostInv, UNCHANGED <<mem, rows, task, waiting, side>>
  PROVE  HostInv'
  BY DEF HostInv, HControl, HPend, HTimer, HTask, HQueue, HEnds, HRows, HNext, Shown, Setting, Playing, Rating,
         Closing, EndsRound, EndsRating, EndsClosing, Queueing, CloseQueued

\* The invariant holds at first and every step keeps it.
LEMMA HostInductive ==
  /\ Init => HostInv
  /\ TypeOK /\ Hosted /\ UndInv /\ LockTask /\ LockQueue /\ HostInv /\ [Next]_vars => HostInv'
  <1>1. Init => HostInv
    BY DEF Init, NoSide, Free, HostInv, HControl, HPend, HTimer, HTask, HQueue, HEnds, HRows, HNext, Shown,
           Setting, StartPcs, WritingPcs, RatingPcs, Playing, Rating, Closing, Queueing
  <1> SUFFICES ASSUME TypeOK, Hosted, UndInv, LockTask, LockQueue, HostInv, [Next]_vars PROVE HostInv'
    BY <1>1
  <1> USE DEF HostInv
  <1>2. CASE UNCHANGED vars
    BY <1>2, SilentHost DEF vars
  <1>3. CASE GuardStep
    <2>1. waiting' = waiting
      BY <1>3, GuardStepHost DEF QueueCalm
    <2> QED BY <1>3, <2>1, GuardStepHost, GuardStepRows, GuardStepNext, QueueStays, EndsStay, HostedCalmly
  <1>4. CASE TimerFire
    <2>1. HolderSame /\ PlanSame /\ NoneStarted
      <3>1. /\ UNCHANGED <<rows, side>> /\ Request(FiredKind, FiredRound)
            /\ FiredKind \in QueuedKinds \ {"transitionToRound"}
        BY <1>4 DEF TimerFire, Due, FiredKind, QueuedKinds, Callbacks, LockTask
      <3>2. /\ mem'.live = mem.live /\ mem'.status = mem.status /\ mem'.round = mem.round
            /\ mem'.pending = mem.pending /\ mem'.total = mem.total
        BY <1>4 DEF TimerFire, TypeOK, SessionOK, Sessions
      <3> QED BY <3>1, <3>2, RequestHolder DEF HolderSame, PlanSame, NoneStarted
    <2> QED BY <1>4, <2>1, TimerFireHost, BesideRows, BesideNext
  <1>5. CASE Dispatch
    <2>1. HolderSame /\ PlanSame /\ NoneStarted
      <3>1. /\ UNCHANGED <<mem, rows, side>> /\ task.pc = "idle" /\ waiting # <<>>
            /\ task'.pc = Head(waiting).kind
        BY <1>5 DEF Dispatch, Idle, Begin, Free
      <3>2. Head(waiting) \in Queued
        BY <3>1, HeadOfQueue DEF TypeOK
      <3>3. Head(waiting).kind # "transitionToRound"
        BY <3>1, HeadOfQueue DEF TypeOK, LockQueue
      <3>4. task'.pc \in QueuedKinds \ {"transitionToRound"}
        BY <3>1, <3>2, <3>3 DEF Queued
      <3> QED BY <3>1, <3>4 DEF HolderSame, PlanSame, NoneStarted, QueuedKinds, Callbacks, StartPcs
    <2> QED BY <1>5, <2>1, DispatchHost, BesideRows, BesideNext
  <1>6. CASE GuardedRequest
    BY <1>6, GuardedRequestHost, GuardedRequestHolder, GuardedRequestCalm, HostedCalmly, BesideRows,
       BesideNext
    DEF RowsCalm, NoneStarted
  <1>7. CASE Unguarded
    BY <1>7, UnguardedHost, UnguardedCalm, HostedCalmly, BesideRows, BesideNext
    DEF RowsCalm, NoneStarted
  <1>8. CASE PreviewStep
    BY <1>8, PreviewStepHost, PreviewStarts, PreviewNext, BesideRows
  <1>9. CASE Failure
    BY <1>9, FailureHost, SilentHost
  <1> QED BY <1>2, <1>3, <1>4, <1>5, <1>6, <1>7, <1>8, <1>9 DEF Next

\* The generation lock, as held and as asked for,
LockPair == LockTask /\ LockQueue

\* is with the one confirmation throughout.
LEMMA LockCorrect == LockedStarts /\ Spec => []LockPair
  <1> SUFFICES ASSUME LockedStarts PROVE Spec => []LockPair
    OBVIOUS
  <1>1. Init => LockPair
    BY DEF Init, LockPair, LockTask, LockQueue, StartPcs, Free, NoSide
  <1>2. TypeOK /\ LockPair /\ [Next]_vars => LockPair'
    <2>1. ASSUME LockPair, UNCHANGED vars PROVE LockPair'
      BY <2>1 DEF vars, LockPair, LockTask, LockQueue
    <2> QED BY <2>1, GuardStepLock, SchedulingLock, GuardedRequestLock, UnguardedLock,
               PreviewStepLock, FailureLock
            DEF Next, LockPair
  <1> QED BY <1>1, <1>2, TypeCorrect, PTL DEF Spec

\* The invariant holds throughout.
THEOREM HostCorrect == Hosted /\ Spec => []HostInv
  <1> SUFFICES ASSUME Hosted PROVE Spec => []HostInv
    OBVIOUS
  <1>1. Init => HostInv
    BY HostInductive
  <1>2. TypeOK /\ UndInv /\ LockPair /\ HostInv /\ [Next]_vars => HostInv'
    BY HostInductive DEF LockPair
  <1>3. LockedStarts /\ Undisturbed
    BY HostedCalmly
  <1> QED BY <1>1, <1>2, <1>3, TypeCorrect, UndCorrect, LockCorrect, PTL DEF Spec

\* Whenever things settle, the round, the rating window and the closing lobby have
\* the timer that ends them and the lobby and the transition have none.
THEOREM PhaseHasItsTimer == Hosted /\ Spec => []PhaseTimers
  <1> SUFFICES ASSUME Hosted PROVE Spec => []PhaseTimers
    OBVIOUS
  <1>1. TypeOK /\ UndInv /\ HostInv => PhaseTimers
    <2> SUFFICES ASSUME TypeOK, UndInv, HostInv, mem.live, Settled
                 PROVE  mem.timer \in TimersOf(mem.status)
      BY DEF PhaseTimers
    <2>1. /\ task.pc = "idle" /\ \A k : ~Queueing(k) /\ ~CloseQueued
      BY DEF Settled, Idle, Queueing, CloseQueued
    <2>2. mem.status \in {"lobby_open", "round_active", "round_rating", "round_transition", "closing_lobby"}
      BY <2>1 DEF UndInv, UMem, EndingPcs, TypeOK, SessionOK, Sessions, SessionStatus
    <2>3. CASE mem.status \in {"lobby_open", "round_transition"}
      BY <2>3 DEF HostInv, HControl, HTimer, TimersOf
    <2>4. CASE mem.status = "round_active"
      BY <2>1, <2>4 DEF HostInv, HEnds, EndsRound, Playing, WritingPcs, TimersOf
    <2>5. CASE mem.status = "round_rating"
      BY <2>1, <2>5 DEF HostInv, HEnds, EndsRating, Rating, RatingPcs, TimersOf
    <2>6. CASE mem.status = "closing_lobby"
      BY <2>1, <2>6 DEF HostInv, HEnds, EndsClosing, Closing, WritingPcs, TimersOf
    <2> QED BY <2>2, <2>3, <2>4, <2>5, <2>6
  <1>2. Undisturbed
    BY HostedCalmly
  <1> QED BY <1>1, <1>2, HostCorrect, UndCorrect, TypeCorrect, PTL

\* Whenever things settle, people talk only in the round being played, and nobody
\* does when the event is over.
THEOREM NoConversationStrays == Hosted /\ Spec => []NoStrayConversation
  <1>1. HostInv => NoStrayConversation
    BY DEF HostInv, HRows, NoStrayConversation, Settled, Idle, Playing
  <1> QED BY <1>1, HostCorrect, PTL

\* Of the holder's steps one alone takes a round from play to its rating.
LEMMA GuardStepShows ==
  ASSUME TypeOK, GuardStep, ~RateFlip, mem.status = "round_active"
  PROVE  mem'.status # "round_rating"
  <1>1. CASE ConfirmRound
    <2>1. mem'.status = mem.status
      BY <1>1 DEF ConfirmRound, Cleared, TypeOK, SessionOK, Sessions
    <2> QED BY <2>1
  <1>2. CASE CloseDecide
    <2>1. \/ UNCHANGED mem
          \/ \E next \in {"round_transition", "closing_lobby"} : mem' = [mem EXCEPT !.status = next]
      BY <1>2 DEF CloseDecide, NextPhase
    <2> QED BY <2>1 DEF TypeOK, SessionOK, Sessions
  <1> USE DEF TypeOK, SessionOK, Sessions, Cleared, Armed, Confirmed
  <1>3. CASE StatusRead
    BY <1>3 DEF StatusRead
  <1>4. CASE StatusWrite
    BY <1>4 DEF StatusWrite
  <1>5. CASE GoLive
    BY <1>5 DEF GoLive, NewSession
  <1>6. CASE Plan
    BY <1>6 DEF Plan
  <1>7. CASE StartRoundRefused
    BY <1>7 DEF StartRoundRefused
  <1>8. CASE StartRound
    BY <1>8 DEF StartRound
  <1>9. CASE RoundRefused
    BY <1>9 DEF RoundRefused
  <1>10. CASE LoadRound
    BY <1>10 DEF LoadRound
  <1>11. CASE CreateRooms
    BY <1>11 DEF CreateRooms
  <1>12. CASE Activate
    BY <1>12 DEF Activate
  <1>13. CASE Flip
    BY <1>13 DEF Flip
  <1>14. CASE RoundSave
    BY <1>14 DEF RoundSave
  <1>15. CASE RoundArm
    BY <1>15 DEF RoundArm
  <1>16. CASE EndRound
    BY <1>16 DEF EndRound
  <1>17. CASE RateSave
    BY <1>17 DEF RateSave
  <1>18. CASE RateArm
    BY <1>18 DEF RateArm
  <1>19. CASE EndRatingWindow
    BY <1>19 DEF EndRatingWindow
  <1>20. CASE CloseSave
    BY <1>20 DEF CloseSave, WithPhaseTimer
  <1>21. CASE CompleteSession
    BY <1>21 DEF CompleteSession, MemCompleting
  <1>22. CASE Claim
    BY <1>22 DEF Claim, MemClaimed
  <1>23. CASE Wipe
    BY <1>23 DEF Wipe
  <1>24. CASE Drop
    BY <1>24 DEF Drop, MemDropped
  <1>25. CASE AutoEnd
    BY <1>25 DEF AutoEnd
  <1>26. CASE OtherDone
    BY <1>26 DEF OtherDone
  <1> QED BY <1>1, <1>2, <1>3, <1>4, <1>5, <1>6, <1>7, <1>8, <1>9, <1>10, <1>11, <1>12, <1>13,
            <1>14, <1>15, <1>16, <1>17, <1>18, <1>19, <1>20, <1>21, <1>22, <1>23, <1>24, <1>25,
            <1>26 DEF GuardStep

\* A timer, a host's End, an empty round's check: whichever ends a round ends the
\* one it was asked to end, however long it waited for the guard.
THEOREM RoundEndsItself == Hosted /\ Spec => EndsItsOwnRound
  <1> SUFFICES ASSUME Hosted PROVE Spec => EndsItsOwnRound
    OBVIOUS
  <1>1. TypeOK /\ UndInv /\ LockPair /\ HostInv /\ [Next]_vars =>
          [mem.status = "round_active" /\ mem'.status = "round_rating" => task.arg = mem.round]_vars
    <2> SUFFICES ASSUME TypeOK, UndInv, LockPair, HostInv, Next,
                        mem.status = "round_active", mem'.status = "round_rating"
                 PROVE  task.arg = mem.round
      OBVIOUS
    <2>1. CASE RateFlip
      <3>1. mem.live
        BY DEF UndInv, UMem
      <3> QED BY <2>1, <3>1 DEF RateFlip, At, HostInv, HControl, HTask, Playing
    <2>2. ~RateFlip => FALSE
      <3>1. ~TimerFire /\ ~Dispatch
        BY DEF TimerFire, Dispatch, TypeOK, SessionOK, Sessions
      <3>2. ~GuardedRequest /\ ~Unguarded /\ ~PreviewStep
        BY GuardedRequestHolder, UnguardedHost, PreviewStepHost DEF HolderSame, HostInv, LockPair
      <3>3. ~Failure
        BY FailureHost
      <3>4. CASE GuardStep /\ ~RateFlip
        BY <3>4, GuardStepShows
      <3> QED BY <3>1, <3>2, <3>3, <3>4 DEF Next
    <2> QED BY <2>1, <2>2
  <1>2. LockedStarts /\ Undisturbed
    BY HostedCalmly
  <1> QED BY <1>1, <1>2, HostCorrect, UndCorrect, TypeCorrect, LockCorrect, PTL DEF Spec, EndsItsOwnRound

\* The live event implements the abstract one also where rounds are started from
\* a preview: what the host confirms is the round after the last one, whatever
\* is cancelled, excluded and previewed again.
THEOREM HostedLifecycle == Hosted /\ Spec => ImplementsLifecycle
  <1> SUFFICES ASSUME Hosted PROVE Spec => ImplementsLifecycle
    OBVIOUS
  <1>1. Init => Abstract!Init
    BY DEF Init, Abstract!Init
  <1>2. TypeOK /\ UndInv /\ LockPair /\ HostInv /\ [Next]_vars => [Abstract!Next]_(Abstract!evars)
    <2> SUFFICES ASSUME TypeOK, UndInv, LockPair, HostInv, [Next]_vars
                 PROVE  Abstract!Next \/ UNCHANGED Abstract!evars
      OBVIOUS
    <2>1. CASE UNCHANGED vars
      BY <2>1 DEF vars, Abstract!evars
    <2>2. CASE GuardStep
      <3>1. task.pc = "flip" /\ mem.status \in {"lobby_open", "round_transition"} =>
              task.arg = mem.round + 1
        BY DEF HostInv, HNext, StartPcs
      <3> QED BY <2>2, <3>1, GuardStepRefines
    <2>3. CASE TimerFire \/ Dispatch
      BY <2>3, AbstractStutter DEF TimerFire, Dispatch, SameEvent, TypeOK, SessionOK, Sessions
    <2>4. CASE GuardedRequest \/ Unguarded \/ PreviewStep
      <3>1. HolderSame
        BY <2>4, GuardedRequestHolder, UnguardedHost, PreviewStepHost DEF HostInv, LockPair
      <3> QED BY <3>1, AbstractStutter DEF HolderSame, SameEvent
    <2>5. CASE Failure
      BY <2>5, FailureHost, AbstractStutter DEF SameEvent
    <2> QED BY <2>1, <2>2, <2>3, <2>4, <2>5 DEF Next
  <1>3. LockedStarts /\ Undisturbed
    BY HostedCalmly
  <1> QED BY <1>1, <1>2, <1>3, HostCorrect, UndCorrect, TypeCorrect, LockCorrect, PTL
          DEF Spec, ImplementsLifecycle, Abstract!Spec
=============================================================================
