------------------------------ MODULE Removal ------------------------------
(***************************************************************************)
(* One person of one event, between the host's kick, the personal invites  *)
(* that let a kicked person back in, their own joins and leaves, the 30 s  *)
(* reconciler and a restart of the process.                                *)
(*                                                                         *)
(* The person is in four places at once: the in-memory participantStates   *)
(* and presenceMap, the session_participants row, the canonical document   *)
(* in Redis and the persisted copy of the session.  Handlers write memory  *)
(* first and the row in a later statement, and only kick, join and leave   *)
(* hold withSessionGuard: everything else runs between their awaits.       *)
(*                                                                         *)
(* Time only orders: an invite and a kick take a fresh moment, every other *)
(* stamp is the present one.  0 is a NULL stamp.  The person is outside    *)
(* conversations: placement is the business of Presence.                   *)
(***************************************************************************)
EXTENDS ParticipantRecord, FiniteSets

CONSTANTS
  Actors,       \* who acts in the instance, out of ActorKinds
  MaxKicks,     \* bound: kicks of this person
  MaxInvites,   \* bound: personal invites a host makes for them
  MaxMoves,     \* bound: joins, leaves, drops, registrations, accepts
  MaxFailures   \* bound: statements that fail, and restarts of the process

ActorKinds ==
  {"join", "leave", "disconnect", "lapse", "accept", "register", "unregister",
   "fail", "restart"}

ASSUME ActorsAssumption == Actors \subseteq ActorKinds
ASSUME BoundsAssumption ==
  /\ MaxKicks \in Nat /\ MaxInvites \in Nat /\ MaxMoves \in Nat
  /\ MaxFailures \in Nat

VARIABLES
  now,       \* the present moment
  mem,       \* the ActiveSession, as far as it holds this person
  row,       \* their session_participants row
  canon,     \* their connState in the canonical document
  saved,     \* the session's copy in Redis
  inRoom,    \* their socket is in the event's room
  invites,   \* the moments of their usable personal invites
  job,       \* the holder of withSessionGuard; a drop, which holds no guard
  accept,    \* an invite accept or a registration over REST
  recon,     \* the reconciler
  restore,   \* recoverActiveSessions after a restart
  budget

vars == <<now, mem, row, canon, saved, inRoom, invites, job, accept, recon, restore, budget>>

Moments == 1..(1 + MaxKicks + MaxInvites)
Stamps == {0} \cup Moments
RowStatus == ParticipantStatus \cup {"none"}
Rows == [status : RowStatus, leftAt : Stamps]
Records ==
  [live : BOOLEAN, state : ParticipantState \cup {"none"}, at : Stamps,
   unsaved : Stamps, present : BOOLEAN]
Jobs ==
  [op : {"none", "kick", "join", "leave", "disconnect"},
   pc : {"idle", "mark", "write", "legacy", "reset", "stamp", "revoke"},
   to : ParticipantState, direct : BOOLEAN, inEngine : BOOLEAN]

Accepts ==
  [pc : {"idle", "select", "update", "insert", "follow", "lift"}, invite : Stamps,
   seen : RowStatus]
Recons ==
  [pc : {"idle", "decide", "write"}, seen : RowStatus, unsaved : BOOLEAN,
   readAt : 0..(2 + MaxKicks + MaxInvites), to : RowStatus, kickedAt : Stamps]
Restores == [pc : {"none", "boot", "warm", "apply"}, seen : Rows]
Copies == [has : BOOLEAN, unsaved : Stamps, present : BOOLEAN]
Budgets ==
  [kicks : 0..MaxKicks, invites : 0..MaxInvites, moves : 0..MaxMoves,
   failures : 0..MaxFailures]
Workers == {"guard", "drop"}

NoRow == [status |-> "none", leftAt |-> 0]
NoSession == [live |-> FALSE, state |-> "none", at |-> 0, unsaved |-> 0, present |-> FALSE]
NoJob == [op |-> "none", pc |-> "idle", to |-> "registered", direct |-> FALSE, inEngine |-> FALSE]
NoAccept == [pc |-> "idle", invite |-> 0, seen |-> "none"]
NoRecon == [pc |-> "idle", seen |-> "none", unsaved |-> FALSE, readAt |-> 0,
            to |-> "none", kickedAt |-> 0]
NoRestore == [pc |-> "none", seen |-> NoRow]

TypeOK ==
  /\ now \in Moments
  /\ mem \in Records
  /\ row \in Rows
  /\ canon \in ConnState
  /\ saved \in Copies
  /\ inRoom \in BOOLEAN
  /\ invites \subseteq Moments
  /\ job \in [Workers -> Jobs]
  /\ accept \in Accepts
  /\ recon \in Recons
  /\ restore \in Restores
  /\ budget \in Budgets

-----------------------------------------------------------------------------
(* Helpers *)

Spend(kind) == budget' = [budget EXCEPT ![kind] = @ + 1]
Fails(kind) == kind \in Actors /\ budget.failures < MaxFailures /\ Spend("failures")
MoveBy(actor) == actor \in Actors /\ budget.moves < MaxMoves /\ Spend("moves")

Held(r) == r.status \notin {"none", "removed"}

Ended(d) == d \in {"left", "removed"}

\* Without the WHERE clause: the form a run tells apart.
WrittenUnguarded(r, to, at) ==
  LET d == projectToDbStatus(to) IN
  IF r.status # "none" THEN [status |-> d, leftAt |-> IF Ended(d) THEN at ELSE 0] ELSE r

\* UPDATE session_participants ... WHERE status <> 'removed'.  A move writes
\* left_at both ways; the legacy statement of updateParticipantStatus sets it
\* and never clears it.
Written(r, to, at) ==
  LET d == projectToDbStatus(to) IN
  IF Held(r) THEN [status |-> d, leftAt |-> IF Ended(d) THEN at ELSE 0] ELSE r
WrittenLegacy(r, to, at) ==
  LET d == projectToDbStatus(to) IN
  IF Held(r) THEN [status |-> d, leftAt |-> IF Ended(d) THEN at ELSE r.leftAt] ELSE r

\* A removal is lifted by a personal invite made after it.
liftedByPersonalInvite(leftAt, invitedAt) ==
  invitedAt # 0 /\ (leftAt = 0 \/ leftAt < invitedAt)

Registered == [status |-> "registered", leftAt |-> 0]

\* registerParticipant tells the state machine, which takes it only for
\* someone it does not hold (or holds as registered already).
RegisteredIn(m) == IF m.live /\ m.state = "none" THEN [m EXCEPT !.state = "registered", !.at = now] ELSE m

\* readmitParticipant: only a removal recorded before removedBefore is lifted,
\* by the kick's own time when its write has not reached the row.
RemovedAt(m) == IF m.unsaved # 0 THEN m.unsaved ELSE m.at
StaysRemoved(m, to, removedBefore) == m
readmitParticipant(m, to, removedBefore) ==
  IF m.live /\ m.state = "removed" /\ RemovedAt(m) < removedBefore
  THEN [m EXCEPT !.state = to, !.at = now, !.unsaved = 0]
  ELSE m
Lifted(m, m2) == m.state = "removed" /\ m2.state # "removed"

\* The row has taken a removal when the statement changed one.
Taken(m, changed) == IF changed THEN [m EXCEPT !.unsaved = 0] ELSE m

ConnLost == IF canon = "connected" THEN "disconnected" ELSE canon

-----------------------------------------------------------------------------
(* updateParticipantStatus and transitionParticipant, by the guarded handler *)
(* or by a drop *)

AfterStatus(w) ==
  CASE job[w].op = "kick" -> [job[w] EXCEPT !.pc = "stamp"]
    [] job[w].op = "join" /\ ~job[w].direct -> [job[w] EXCEPT !.pc = "reset"]
    [] OTHER -> NoJob

\* Memory, at once.
Mark(w) ==
  LET to == job[w].to
      at == IF to = "removed" THEN now + 1 ELSE now
  IN
  /\ job[w].pc = "mark"
  /\ \/ /\ mem.live /\ Idempotent(mem.state, to)
        /\ mem' = [mem EXCEPT !.state = to, !.at = now]
        /\ job' = [job EXCEPT ![w] = AfterStatus(w)]
        /\ UNCHANGED now
     \/ /\ mem.live /\ ~Idempotent(mem.state, to) /\ Accepted(mem.state, to)
        /\ now' = at
        /\ mem' = [mem EXCEPT !.state = to, !.at = at,
                              !.unsaved = IF to = "removed" THEN at ELSE @]
        /\ job' = [job EXCEPT ![w].pc = "write"]
     \/ /\ ~mem.live \/ (~Idempotent(mem.state, to) /\ ~Accepted(mem.state, to))
        /\ job' = [job EXCEPT ![w] = IF job[w].direct THEN NoJob
                                     ELSE [job[w] EXCEPT !.pc = "legacy"]]
        /\ UNCHANGED <<now, mem>>
  /\ UNCHANGED <<row, canon, saved, inRoom, invites, accept, recon, restore, budget>>

\* The row, in a statement of its own.  A failure is only logged; a removal
\* the statement changed no row for stays unsaved.
Write(w) ==
  LET to == job[w].to IN
  /\ job[w].pc = "write"
  /\ \/ /\ row' = Written(row, to, now)
        /\ mem' = IF to = "removed" THEN Taken(mem, Held(row)) ELSE mem
        /\ UNCHANGED budget
     \/ /\ Fails("fail")
        /\ UNCHANGED <<row, mem>>
  /\ canon' = connAfter(canon, to, mem.present)
  /\ job' = [job EXCEPT ![w] = AfterStatus(w)]
  /\ UNCHANGED <<now, saved, inRoom, invites, accept, recon, restore>>

\* The statement the state machine refused.  A failure rejects the handler; a
\* join catches it and goes on.
Legacy(w) ==
  /\ job[w].pc = "legacy"
  /\ \/ /\ row' = WrittenLegacy(row, job[w].to, now)
        /\ job' = [job EXCEPT ![w] = AfterStatus(w)]
        /\ UNCHANGED budget
     \/ /\ Fails("fail")
        /\ job' = [job EXCEPT ![w] = IF job[w].op = "join" THEN AfterStatus(w) ELSE NoJob]
        /\ UNCHANGED row
  /\ UNCHANGED <<now, mem, canon, saved, inRoom, invites, accept, recon, restore>>

-----------------------------------------------------------------------------
(* handleHostRemoveParticipant *)

\* Someone the engine does not have and who holds no row is not in the event.
Kick ==
  LET inEngine == mem.live /\ mem.state # "none" IN
  /\ job["guard"].pc = "idle"
  /\ budget.kicks < MaxKicks /\ Spend("kicks")
  /\ inEngine \/ row.status # "none"
  /\ job' = [job EXCEPT !["guard"] =
               [op |-> "kick", pc |-> "mark", to |-> "removed", direct |-> FALSE,
                inEngine |-> inEngine]]
  /\ UNCHANGED <<now, mem, row, canon, saved, inRoom, invites, accept, recon, restore>>

\* A removal is a row: someone the engine had and who has none gets one, and a
\* row already removed takes this kick's time.
Stamped(r, inEngine) ==
  CASE r.status = "removed" -> [r EXCEPT !.leftAt = now]
    [] r.status = "none" /\ inEngine -> [status |-> "removed", leftAt |-> now]
    [] OTHER -> r

KickStamp ==
  /\ job["guard"].pc = "stamp"
  /\ \/ row' = Stamped(row, job["guard"].inEngine) /\ UNCHANGED budget
     \/ Fails("fail") /\ UNCHANGED row
  /\ job' = [job EXCEPT !["guard"].pc = "revoke"]
  /\ UNCHANGED <<now, mem, canon, saved, inRoom, invites, accept, recon, restore>>

\* The person's invites are withdrawn, and the socket presence knows leaves the
\* room: a socket whose presence had lapsed stays in it.
KickRevoke ==
  /\ job["guard"].pc = "revoke"
  /\ \/ invites' = {} /\ UNCHANGED budget
     \/ Fails("fail") /\ UNCHANGED invites
  /\ IF mem.live /\ mem.present
     THEN /\ inRoom' = FALSE
          /\ mem' = [mem EXCEPT !.present = FALSE]
          /\ canon' = ConnLost
     ELSE UNCHANGED <<inRoom, mem, canon>>
  /\ job' = [job EXCEPT !["guard"] = NoJob]
  /\ UNCHANGED <<now, row, saved, accept, recon, restore>>

-----------------------------------------------------------------------------
(* handleJoinSession, handleLeaveSession, handleDisconnect, presence *)

\* A join recreates the session when memory lost it, registers the person and
\* is bounced when the row says removed.  Before the start of the event it
\* writes no status.
Join ==
  LET m == IF mem.live THEN mem ELSE [NoSession EXCEPT !.live = TRUE]
      renewed == row.status \in {"none", "left", "disconnected", "no_show"}
  IN
  /\ MoveBy("join")
  /\ job["guard"].pc = "idle"
  /\ IF row.status = "removed"
     THEN /\ inRoom' = FALSE
          /\ mem' = m
          /\ UNCHANGED <<row, canon, job>>
     ELSE /\ row' = IF renewed THEN Registered ELSE row
          /\ mem' = [(IF renewed THEN RegisteredIn(m) ELSE m) EXCEPT !.present = TRUE]
          /\ inRoom' = TRUE
          /\ canon' = "connected"
          /\ \E to \in {"in_main_room", "checked_in"}, pc \in {"mark", "reset"} :
               job' = [job EXCEPT !["guard"] =
                         [op |-> "join", pc |-> pc, to |-> to, direct |-> FALSE, inEngine |-> FALSE]]
  /\ UNCHANGED <<now, saved, invites, accept, recon, restore>>

\* FIX A: someone here whose row still says they are away returns to the main room.
JoinReset ==
  /\ job["guard"].pc = "reset"
  /\ job' = [job EXCEPT !["guard"] =
               IF row.status \in {"left", "disconnected", "in_round"}
               THEN [@ EXCEPT !.pc = "mark", !.to = "in_main_room", !.direct = TRUE]
               ELSE NoJob]
  /\ UNCHANGED <<now, mem, row, canon, saved, inRoom, invites, accept, recon, restore, budget>>

Leave ==
  /\ MoveBy("leave")
  /\ job["guard"].pc = "idle"
  /\ inRoom \/ row.status # "none"
  /\ inRoom' = FALSE
  /\ mem' = [mem EXCEPT !.present = FALSE]
  /\ IF mem.live THEN canon' = ConnLost ELSE UNCHANGED canon
  /\ job' = [job EXCEPT !["guard"] =
               [op |-> "leave", pc |-> "mark", to |-> "left", direct |-> FALSE, inEngine |-> FALSE]]
  /\ UNCHANGED <<now, row, saved, invites, accept, recon, restore>>

\* A dropped socket marks the person disconnected only when presence has them.
Disconnect ==
  /\ MoveBy("disconnect")
  /\ inRoom
  /\ inRoom' = FALSE
  /\ IF mem.live /\ mem.present
     THEN /\ job["drop"].pc = "idle"
          /\ mem' = [mem EXCEPT !.present = FALSE]
          /\ canon' = ConnLost
          /\ job' = [job EXCEPT !["drop"] =
                       [op |-> "disconnect", pc |-> "mark", to |-> "disconnected",
                        direct |-> FALSE, inEngine |-> FALSE]]
     ELSE UNCHANGED <<mem, canon, job>>
  /\ UNCHANGED <<now, row, saved, invites, accept, recon, restore>>

\* The stale-heartbeat sweep forgets a person who may still be in the room.
PresenceLapses ==
  /\ MoveBy("lapse")
  /\ mem.live /\ mem.present
  /\ mem' = [mem EXCEPT !.present = FALSE]
  /\ canon' = ConnLost
  /\ UNCHANGED <<now, row, saved, inRoom, invites, job, accept, recon, restore>>

Heartbeat ==
  /\ inRoom /\ mem.live
  /\ ~mem.present \/ canon # "connected"
  /\ mem' = [mem EXCEPT !.present = TRUE]
  /\ canon' = "connected"
  /\ UNCHANGED <<now, row, saved, inRoom, invites, job, accept, recon, restore, budget>>

-----------------------------------------------------------------------------
(* registerParticipant, from REST or from an invite accept *)

CreateInvite ==
  /\ budget.invites < MaxInvites /\ Spend("invites")
  /\ now' = now + 1
  /\ invites' = invites \cup {now'}
  /\ UNCHANGED <<mem, row, canon, saved, inRoom, job, accept, recon, restore>>

\* acceptInvite checks the invite in a transaction of its own and lets go of
\* it; a registration over REST, or by a shared link, carries no invite.
AcceptStart ==
  /\ accept.pc = "idle"
  /\ \/ MoveBy("accept") /\ \E i \in invites : accept' = [NoAccept EXCEPT !.pc = "select", !.invite = i]
     \/ MoveBy("register") /\ accept' = [NoAccept EXCEPT !.pc = "select"]
  /\ UNCHANGED <<now, mem, row, canon, saved, inRoom, invites, job, recon, restore>>

Refused == IF accept.invite = 0 THEN NoAccept ELSE [accept EXCEPT !.pc = "follow"]

AcceptSelect ==
  /\ accept.pc = "select"
  /\ CASE row.status \in {"registered", "checked_in", "in_lobby", "in_round"} ->
            \* already registered: the defensive insert still runs for an invite
            /\ accept' = IF accept.invite = 0 THEN NoAccept ELSE [accept EXCEPT !.pc = "insert"]
            /\ UNCHANGED <<mem, row>>
       [] row.status = "removed" /\ ~liftedByPersonalInvite(row.leftAt, accept.invite) ->
            accept' = Refused /\ UNCHANGED <<mem, row>>
       [] row.status = "none" ->
            /\ row' = Registered
            /\ mem' = RegisteredIn(mem)
            /\ accept' = [accept EXCEPT !.pc = "insert"]
       [] OTHER -> accept' = [accept EXCEPT !.pc = "update"] /\ UNCHANGED <<mem, row>>
  /\ UNCHANGED <<now, canon, saved, inRoom, invites, job, recon, restore, budget>>

\* Guarded like every status write: a kick may have landed since the read.
AcceptUpdate ==
  /\ accept.pc = "update"
  /\ IF row.status # "removed" \/ liftedByPersonalInvite(row.leftAt, accept.invite)
     THEN /\ row' = Registered
          /\ mem' = RegisteredIn(mem)
          /\ accept' = [accept EXCEPT !.pc = "insert"]
     ELSE accept' = Refused /\ UNCHANGED <<mem, row>>
  /\ UNCHANGED <<now, canon, saved, inRoom, invites, job, recon, restore, budget>>

\* The defensive insert: a row a kick has just removed is lifted by the invite only.
AcceptInsert ==
  /\ accept.pc = "insert"
  /\ row' = IF \/ accept.invite # 0 /\ row.status = "none"
               \/ row.status = "removed" /\ liftedByPersonalInvite(row.leftAt, accept.invite)
            THEN Registered ELSE row
  /\ accept' = Refused
  /\ UNCHANGED <<now, mem, canon, saved, inRoom, invites, job, recon, restore, budget>>

\* readmitAfterPersonalInvite: the row is read, and memory follows it.
AcceptFollow ==
  /\ accept.pc = "follow"
  /\ accept' = IF mem.live /\ row.status \notin {"none", "removed"}
               THEN [accept EXCEPT !.pc = "lift", !.seen = row.status]
               ELSE NoAccept
  /\ UNCHANGED <<now, mem, row, canon, saved, inRoom, invites, job, recon, restore, budget>>

AcceptLift ==
  /\ accept.pc = "lift"
  /\ mem' = readmitParticipant(mem, liftFromDbStatus(accept.seen), accept.invite)
  /\ IF Lifted(mem, mem') /\ canon = "removed" THEN canon' = "disconnected" ELSE UNCHANGED canon
  /\ accept' = NoAccept
  /\ UNCHANGED <<now, row, saved, inRoom, invites, job, recon, restore, budget>>

Unregister ==
  /\ MoveBy("unregister")
  /\ Held(row)
  /\ row' = NoRow
  /\ UNCHANGED <<now, mem, canon, saved, inRoom, invites, job, accept, recon, restore>>

-----------------------------------------------------------------------------
(* reconcileSessionStates, for this person *)

ReconRead ==
  /\ recon.pc = "idle" /\ mem.live
  /\ recon' = [NoRecon EXCEPT !.pc = "decide", !.seen = row.status,
                              !.unsaved = (mem.unsaved # 0), !.readAt = now + 1]
  /\ UNCHANGED <<now, mem, row, canon, saved, inRoom, invites, job, accept, restore, budget>>

\* A removal memory has finished: the row decides whether it stands.
FollowsRowAlways(m) == m.state = "removed"
FollowsRow(m) == m.state = "removed" /\ m.unsaved = 0

\* What the rows said, against memory as it is when they arrive.
ReconDecide ==
  /\ recon.pc = "decide"
  /\ CASE ~mem.live \/ mem.state = "none" \/ recon.seen = "none" ->
            recon' = NoRecon /\ UNCHANGED <<mem, canon>>
       [] mem.live /\ mem.state # "none" /\ recon.seen = "removed" ->
            \* a removal is terminal: memory follows the row
            /\ mem' = IF mem.state = "removed" THEN [mem EXCEPT !.unsaved = 0]
                      ELSE [mem EXCEPT !.state = "removed", !.at = now, !.unsaved = 0]
            /\ recon' = NoRecon
            /\ UNCHANGED canon
       [] mem.live /\ FollowsRow(mem)
            /\ recon.seen \notin {"none", "removed"} ->
            \* and memory never writes a removal of its own
            /\ mem' = IF recon.unsaved THEN mem
                      ELSE readmitParticipant(mem, liftFromDbStatus(recon.seen), recon.readAt)
            /\ IF Lifted(mem, mem') /\ canon = "removed" THEN canon' = "disconnected" ELSE UNCHANGED canon
            /\ recon' = NoRecon
       [] OTHER ->
            /\ recon' = IF projectToDbStatus(mem.state) = recon.seen THEN NoRecon
                        ELSE [recon EXCEPT !.pc = "write", !.to = projectToDbStatus(mem.state),
                                           !.kickedAt = mem.unsaved]
            /\ UNCHANGED <<mem, canon>>
  /\ UNCHANGED <<now, row, saved, inRoom, invites, job, accept, restore, budget>>

\* A kick whose own write never landed is written with the kick's own time;
\* any other status is written alone.
FinishesKick == recon.to = "removed" /\ recon.kickedAt # 0
ReconWrite ==
  /\ recon.pc = "write"
  /\ \/ /\ row' = IF Held(row)
                  THEN [status |-> recon.to, leftAt |-> IF FinishesKick THEN recon.kickedAt ELSE row.leftAt]
                  ELSE row
        /\ mem' = IF FinishesKick THEN Taken(mem, Held(row)) ELSE mem
        /\ UNCHANGED budget
     \/ Fails("fail") /\ UNCHANGED <<row, mem>>
  /\ recon' = NoRecon
  /\ UNCHANGED <<now, canon, saved, inRoom, invites, job, accept, restore>>

-----------------------------------------------------------------------------
(* The persisted copy, restarts and recovery *)

persistToRedis ==
  /\ mem.live
  /\ saved' = [has |-> TRUE, unsaved |-> mem.unsaved, present |-> mem.present]
  /\ saved' # saved
  /\ UNCHANGED <<now, mem, row, canon, inRoom, invites, job, accept, recon, restore, budget>>

Restart ==
  /\ Fails("restart")
  /\ mem' = NoSession
  /\ inRoom' = FALSE
  /\ job' = [w \in Workers |-> NoJob]
  /\ accept' = NoAccept
  /\ recon' = NoRecon
  /\ restore' = IF saved.has THEN [NoRestore EXCEPT !.pc = "boot"] ELSE NoRestore
  /\ UNCHANGED <<now, row, canon, saved, invites>>

\* The session replaces whatever a join has already recreated.
recoverActiveSession ==
  /\ restore.pc = "boot"
  /\ mem' = [NoSession EXCEPT !.live = TRUE, !.unsaved = saved.unsaved, !.present = saved.present]
  /\ restore' = [restore EXCEPT !.pc = "warm"]
  /\ UNCHANGED <<now, row, canon, saved, inRoom, invites, job, accept, recon, budget>>

WarmRead ==
  /\ restore.pc = "warm"
  /\ restore' = [pc |-> "apply", seen |-> row]
  /\ UNCHANGED <<now, mem, row, canon, saved, inRoom, invites, job, accept, recon, budget>>

\* The rows first, then the canonical document over them.
warmParticipantStatesOnRestore ==
  LET seen == restore.seen
      fromRow == IF seen.status = "none" THEN mem.state ELSE liftFromDbStatus(seen.status)
      atRow == IF seen.status = "removed" /\ seen.leftAt # 0 THEN seen.leftAt ELSE now
      state == IF canon = "none" THEN fromRow ELSE liftFromCanonical(canon, FALSE)
  IN
  /\ restore.pc = "apply"
  /\ mem' = [mem EXCEPT !.state = state,
                        !.at = IF state = "removed" /\ fromRow = "removed" THEN atRow ELSE now]
  /\ restore' = NoRestore
  /\ UNCHANGED <<now, row, canon, saved, inRoom, invites, job, accept, recon, budget>>

-----------------------------------------------------------------------------
StatusStep(w) == Mark(w) \/ Write(w) \/ Legacy(w)
GuardStep == KickStamp \/ KickRevoke \/ JoinReset
AcceptStep == AcceptSelect \/ AcceptUpdate \/ AcceptInsert \/ AcceptFollow \/ AcceptLift
RestoreStep == recoverActiveSession \/ WarmRead \/ warmParticipantStatesOnRestore

Next ==
  \/ \E w \in Workers : StatusStep(w)
  \/ GuardStep
  \/ Kick \/ Join \/ Leave \/ Disconnect \/ PresenceLapses \/ Heartbeat
  \/ CreateInvite \/ AcceptStart \/ AcceptStep \/ Unregister
  \/ ReconRead \/ ReconDecide \/ ReconWrite
  \/ persistToRedis \/ Restart \/ RestoreStep

\* In the event when the story begins, or not yet of it.
Init ==
  /\ now = 1
  /\ \/ /\ mem = [live |-> TRUE, state |-> "in_main_room", at |-> 1, unsaved |-> 0, present |-> TRUE]
        /\ row = [status |-> "in_lobby", leftAt |-> 0]
        /\ canon = "connected"
        /\ inRoom = TRUE
     \/ /\ mem = [NoSession EXCEPT !.live = TRUE]
        /\ row = NoRow
        /\ canon = "none"
        /\ inRoom = FALSE
  /\ saved = [has |-> FALSE, unsaved |-> 0, present |-> FALSE]
  /\ invites = {}
  /\ job = [w \in Workers |-> NoJob]
  /\ accept = NoAccept
  /\ recon = NoRecon
  /\ restore = NoRestore
  /\ budget = [kicks |-> 0, invites |-> 0, moves |-> 0, failures |-> 0]

Spec == Init /\ [][Next]_vars

\* Handlers run on and the reconciler ticks every 30 s; nobody is obliged to
\* kick, join, leave, heartbeat or accept.
FairSpec ==
  /\ Spec
  /\ \A w \in Workers : WF_vars(StatusStep(w))
  /\ WF_vars(GuardStep) /\ WF_vars(AcceptStep) /\ WF_vars(RestoreStep)
  /\ WF_vars(ReconRead) /\ WF_vars(ReconDecide) /\ WF_vars(ReconWrite)

-----------------------------------------------------------------------------
(* Properties *)

\* A kick stands: whatever joins, leaves, drops, registrations and ticks of the
\* reconciler were under way when it landed, a removed row comes back only
\* through an accept of a personal invite made after the removal.
RemovalStands ==
  [][row.status = "removed" /\ row'.status # "removed" =>
       accept.invite > row.leftAt]_vars

\* Once everyone is done the row is what memory projects to.
Converges ==
  <>[](mem.live /\ mem.state # "none" /\ row.status # "none" =>
         projectToDbStatus(mem.state) = row.status)

NewerInvite(t) == \E i \in Moments : i > t /\ (i \in invites \/ accept.invite = i)

\* A removal memory holds and the row does not is finished, unless the person
\* was invited back since, their row is gone, or the process stopped first.
KickLands ==
  \A t \in Moments :
    (mem.unsaved = t /\ mem.state = "removed") ~>
      (row.status \in {"removed", "none"} \/ NewerInvite(t) \/ ~mem.live)

-----------------------------------------------------------------------------
(* What a comment says and the code does not keep: no run checks it *)

\* The saved mark of an unfinished kick survives a restart for the reconciler
\* to finish it (session-state.ts, "so a restart still finishes them").
RestartFinishesKick ==
  \A t \in Moments :
    (mem.unsaved = t /\ saved.unsaved = t) ~>
      (row.status \in {"removed", "none"} \/ NewerInvite(t))
=============================================================================
