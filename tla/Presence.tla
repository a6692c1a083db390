------------------------------ MODULE Presence ------------------------------
(***************************************************************************)
(* The conversation of one round and the people in it: sockets that join,  *)
(* drop, fall silent and are evicted, the 15 s grace a leaver's partners   *)
(* wait for, and the end of the room or of the round.                      *)
(*                                                                         *)
(* Joins, leaves, the expiry of a grace and the ends of rounds run inside  *)
(* withSessionGuard.  A drop, a heartbeat, the stale sweep and the         *)
(* reconciler do not: they run between the guarded handlers' awaits.       *)
(*                                                                         *)
(* The session lives throughout and its statements succeed; failures and   *)
(* restarts, and the reconciler's convergence of the row to memory, are    *)
(* Removal's.  A timer that is armed may fire at any moment.               *)
(***************************************************************************)
EXTENDS ParticipantRecord, FiniteSets

CONSTANTS
  People,     \* who the round put in the conversation
  Tabs,       \* the sockets one person can open
  Actors,     \* what may happen in the instance, out of ActorKinds
  MaxMoves    \* bound: joins, leaves, drops, silences and skips together

ActorKinds == {"join", "leave", "back", "drop", "closing", "lapse", "stale", "end"}

ASSUME PeopleAssumption ==
  /\ IsFiniteSet(People) /\ Cardinality(People) \in 2..3
  /\ People \cap {"guard", "reconciler", "nobody"} = {}
ASSUME TabsAssumption == Tabs # {} /\ Tabs \cap {"none", "closed", "reconciled"} = {}
ASSUME ActorsAssumption == Actors \subseteq ActorKinds
ASSUME BoundAssumption == MaxMoves \in Nat

VARIABLES
  status,     \* the session's: the round is active, or over and rated
  match,      \* who is in the conversation's row, and its status
  room,       \* the sockets of each person in the event's room
  presence,   \* presenceMap: the socket each person is present by
  state,      \* participantStates
  row,        \* session_participants.status
  grace,      \* disconnectTimeouts: the 15 s timer is armed
  due,        \* it has fired and waits for the guard
  autoEnd,    \* a maybeAutoEndEmptyRound waits for the guard
  task,       \* the guard's holder, the reconciler, and each person's drop
  heard,      \* history: the last heard of each person is a join, not a departure
  moves

vars == <<status, match, room, presence, state, row, grace, due, autoEnd, task, heard, moves>>

Workers == {"guard", "reconciler"} \cup People
\* No socket, one that closed while it joined, one the reconciler stood in for.
Sockets == Tabs \cup {"none", "closed", "reconciled"}
Tasks ==
  [op : {"none", "join", "leave", "back", "grace", "end", "drop", "escalate"},
   pc : {"idle", "enter", "mark", "write", "legacy", "reset", "restore", "demote",
         "next", "timer", "check", "sockets"},
   then : {"idle", "reset", "restore", "next", "timer"},
   who : People \cup {"nobody"}, on : People \cup {"nobody"},
   tab : Sockets, to : ParticipantState, todo : SUBSET People]

NoTask ==
  [op |-> "none", pc |-> "idle", then |-> "idle", who |-> "nobody", on |-> "nobody",
   tab |-> "none", to |-> "in_main_room", todo |-> {}]

TypeOK ==
  /\ status \in {"round_active", "round_rating"}
  /\ match \in [slots : SUBSET People, status : {"active", "completed", "cancelled"}]
  /\ room \in [People -> SUBSET Tabs]
  /\ presence \in [People -> Sockets]
  /\ state \in [People -> ParticipantState]
  /\ row \in [People -> ParticipantStatus]
  /\ grace \in [People -> BOOLEAN]
  /\ due \in [People -> BOOLEAN]
  /\ autoEnd \in BOOLEAN
  /\ task \in [Workers -> Tasks]
  /\ heard \in [People -> BOOLEAN]
  /\ moves \in 0..MaxMoves

-----------------------------------------------------------------------------
(* Helpers *)

MoveBy(actor) == actor \in Actors /\ moves < MaxMoves /\ moves' = moves + 1
GuardFree == task["guard"].op = "none"
Begin(w, k) == task' = [task EXCEPT ![w] = k]
Goto(w, pc) == task' = [task EXCEPT ![w].pc = pc]
Done(w) == task' = [task EXCEPT ![w] = NoTask]

Talking(p) == match.status = "active" /\ p \in match.slots

\* What a task does once a status it set is written.
AfterStatus(k) == IF k.then = "idle" THEN NoTask ELSE [k EXCEPT !.pc = k.then]
WriteStatus(k, p, to, next) ==
  [k EXCEPT !.pc = "mark", !.on = p, !.to = to, !.then = next]

\* The round's end, the escalation and a join's reset call
\* transitionParticipant itself, which has no second way to write.
Direct(k) == k.op \in {"end", "escalate"} \/ (k.op = "join" /\ k.then = "restore")

-----------------------------------------------------------------------------
(* updateParticipantStatus and transitionParticipant *)

\* Memory first; a move the table refuses is only written to the row, or dropped.
Mark(w) ==
  LET k == task[w] IN
  /\ k.pc = "mark"
  /\ \/ /\ Accepted(state[k.on], k.to) /\ ~Idempotent(state[k.on], k.to)
        /\ state' = [state EXCEPT ![k.on] = k.to]
        /\ Goto(w, "write")
     \/ /\ ~Accepted(state[k.on], k.to) /\ ~Idempotent(state[k.on], k.to)
        /\ IF Direct(k) THEN Begin(w, AfterStatus(k)) ELSE Goto(w, "legacy")
        /\ UNCHANGED state
     \/ /\ Idempotent(state[k.on], k.to)
        /\ Begin(w, AfterStatus(k))
        /\ UNCHANGED state
  /\ UNCHANGED <<status, match, room, presence, row, grace, due, autoEnd, heard, moves>>

\* The row in a statement of its own; nobody is removed here, so it has no guard.
Write(w) ==
  LET k == task[w] IN
  /\ k.pc \in {"write", "legacy"}
  /\ row' = [row EXCEPT ![k.on] = projectToDbStatus(k.to)]
  /\ Begin(w, AfterStatus(k))
  /\ UNCHANGED <<status, match, room, presence, state, grace, due, autoEnd, heard, moves>>

\* The next person of a loop is moved to the main room.
NextPerson ==
  LET k == task["guard"] IN
  /\ k.pc = "next"
  /\ IF k.todo = {}
     THEN Done("guard")
     ELSE \E p \in k.todo :
            Begin("guard", WriteStatus([k EXCEPT !.todo = @ \ {p}], p, "in_main_room", "next"))
  /\ UNCHANGED <<status, match, room, presence, state, row, grace, due, autoEnd, heard, moves>>

-----------------------------------------------------------------------------
(* handleJoinSession *)

\* A drop that starts: presence forgets the person at once.
Dropping(p) == WriteStatus([NoTask EXCEPT !.op = "drop", !.who = p], p, "disconnected", "timer")

\* The socket presence knows is evicted, whose own disconnect starts here, and
\* the person's grace is called off.
Join(p, t) ==
  LET evicts == presence[p] \in room[p]
      k == [NoTask EXCEPT !.op = "join", !.pc = "enter", !.who = p, !.tab = t]
  IN
  /\ MoveBy("join")
  /\ GuardFree
  /\ t \notin room[p]
  /\ evicts => task[p].op = "none"
  /\ IF evicts
     THEN /\ room' = [room EXCEPT ![p] = @ \ {presence[p]}]
          /\ presence' = [presence EXCEPT ![p] = "none"]
          /\ heard' = [heard EXCEPT ![p] = FALSE]
          /\ task' = [task EXCEPT !["guard"] = k, ![p] = Dropping(p)]
     ELSE /\ UNCHANGED <<room, presence, heard>>
          /\ Begin("guard", k)
  /\ grace' = [grace EXCEPT ![p] = FALSE]
  /\ UNCHANGED <<status, match, state, row, due, autoEnd>>

\* A socket may close while its join awaits: presence does not have it yet, so
\* its disconnect does nothing.
JoiningSocketCloses ==
  /\ MoveBy("closing")
  /\ task["guard"].pc = "enter" /\ task["guard"].tab \in Tabs
  /\ task' = [task EXCEPT !["guard"].tab = "closed"]
  /\ UNCHANGED <<status, match, room, presence, state, row, grace, due, autoEnd, heard>>

\* Registered again, in the room and present, and back in the main room.
JoinEnters ==
  LET k == task["guard"] IN
  /\ k.pc = "enter"
  /\ row' = IF row[k.who] \in {"left", "disconnected", "no_show"}
            THEN [row EXCEPT ![k.who] = "registered"] ELSE row
  /\ presence' = [presence EXCEPT ![k.who] = k.tab]
  /\ room' = IF k.tab \in Tabs THEN [room EXCEPT ![k.who] = @ \cup {k.tab}] ELSE room
  /\ heard' = [heard EXCEPT ![k.who] = TRUE]
  /\ Begin("guard", WriteStatus(k, k.who,
        IF status = "round_active" THEN "in_main_room" ELSE "checked_in", "reset"))
  /\ UNCHANGED <<status, match, state, grace, due, autoEnd, moves>>

\* FIX A: someone here, in no conversation, whose row still says otherwise.
Stuck == {"left", "disconnected", "in_round"}
JoinReset ==
  LET k == task["guard"] IN
  /\ k.pc = "reset"
  /\ IF ~Talking(k.who) /\ row[k.who] \in Stuck
     THEN Begin("guard", WriteStatus(k, k.who, "in_main_room", "restore"))
     ELSE Goto("guard", "restore")
  /\ UNCHANGED <<status, match, room, presence, state, row, grace, due, autoEnd, heard, moves>>

\* Back into the conversation, if it goes on.
RestoredAnyway(p) == status = "round_active" /\ p \in match.slots
Restored(p) == status = "round_active" /\ Talking(p)
JoinRestore ==
  LET k == task["guard"] IN
  /\ k.pc = "restore"
  /\ IF Restored(k.who)
     THEN Begin("guard", WriteStatus(k, k.who, "in_breakout", "idle"))
     ELSE Done("guard")
  /\ UNCHANGED <<status, match, room, presence, state, row, grace, due, autoEnd, heard, moves>>

-----------------------------------------------------------------------------
(* handleLeaveSession, handleLeaveConversation *)

\* scheduleMatchEndGrace, mid-round: the partners wait for a leaver and for
\* someone who dropped alike.
Armed(p) ==
  IF status = "round_active" /\ Talking(p) THEN [grace EXCEPT ![p] = TRUE] ELSE grace
LeaveOrphans(p) == grace
LeaveArms(p) == Armed(p)

Leave(p, t) ==
  /\ MoveBy("leave")
  /\ GuardFree
  /\ t \in room[p]
  /\ room' = [room EXCEPT ![p] = @ \ {t}]
  /\ presence' = [presence EXCEPT ![p] = "none"]
  /\ heard' = [heard EXCEPT ![p] = FALSE]
  /\ grace' = LeaveArms(p)
  /\ Begin("guard", WriteStatus([NoTask EXCEPT !.op = "leave", !.who = p], p, "left", "idle"))
  /\ UNCHANGED <<status, match, state, row, due, autoEnd>>

\* "Back to Main Room": the room ends for a partner left alone.
LeaveConversation(p) ==
  /\ MoveBy("back")
  /\ GuardFree
  /\ room[p] # {}
  /\ Talking(p)
  /\ Begin("guard", [NoTask EXCEPT !.op = "back", !.pc = "demote", !.who = p])
  /\ UNCHANGED <<status, match, room, presence, state, row, grace, due, autoEnd, heard>>

\* demoteParticipantFromMatch: two who remain talk on, one does not.  A leaver
\* by choice is moved first; the survivors of a room that ends follow.
Demote ==
  LET k == task["guard"]
      remaining == IF match.status = "active" THEN match.slots \ {k.who} ELSE {}
      goesOn == Cardinality(remaining) >= 2
      after == [k EXCEPT !.pc = "next", !.todo = IF goesOn THEN {} ELSE remaining]
  IN
  /\ k.pc = "demote"
  /\ IF goesOn
     THEN match' = [match EXCEPT !.slots = remaining]
     ELSE IF match.status = "active"
          THEN \E s \in IF k.op = "grace" THEN {"completed", "cancelled"} ELSE {"completed"} :
                 match' = [match EXCEPT !.status = s]
          ELSE UNCHANGED match
  /\ autoEnd' = (autoEnd \/ ~goesOn)
  /\ Begin("guard", IF k.op = "back" THEN WriteStatus(after, k.who, "in_main_room", "next") ELSE after)
  /\ UNCHANGED <<status, room, presence, state, row, grace, due, heard, moves>>

-----------------------------------------------------------------------------
(* scheduleMatchEndGrace *)

GraceFires(p) ==
  /\ grace[p]
  /\ grace' = [grace EXCEPT ![p] = FALSE]
  /\ due' = [due EXCEPT ![p] = TRUE]
  /\ UNCHANGED <<status, match, room, presence, state, row, autoEnd, task, heard, moves>>

\* A join that called the timer off too late is seen by presence.
NeverBack(p) == FALSE
CameBack(p) == presence[p] # "none"
GraceExpires(p) ==
  /\ due[p] /\ GuardFree
  /\ due' = [due EXCEPT ![p] = FALSE]
  /\ IF CameBack(p) THEN UNCHANGED task
     ELSE Begin("guard", [NoTask EXCEPT !.op = "grace", !.pc = "demote", !.who = p])
  /\ UNCHANGED <<status, match, room, presence, state, row, grace, autoEnd, heard, moves>>

-----------------------------------------------------------------------------
(* handleDisconnect, handleHeartbeat, startHeartbeatStaleDetection *)

\* Presence is asked for the person, not for the socket that closed.
Disconnect(p, t) ==
  /\ MoveBy("drop")
  /\ t \in room[p]
  /\ room' = [room EXCEPT ![p] = @ \ {t}]
  /\ IF presence[p] # "none"
     THEN /\ task[p].op = "none"
          /\ presence' = [presence EXCEPT ![p] = "none"]
          /\ heard' = [heard EXCEPT ![p] = FALSE]
          /\ Begin(p, Dropping(p))
     ELSE UNCHANGED <<presence, heard, task>>
  /\ UNCHANGED <<status, match, state, row, grace, due, autoEnd>>

\* Its last step: mid-round the partners' grace starts, anew if one runs.
DropTimer(p) ==
  /\ task[p].pc = "timer"
  /\ grace' = Armed(p)
  /\ Done(p)
  /\ UNCHANGED <<status, match, room, presence, state, row, due, autoEnd, heard, moves>>

Heartbeat(p, t) ==
  /\ t \in room[p] /\ presence[p] # t
  /\ presence' = [presence EXCEPT ![p] = t]
  /\ UNCHANGED <<status, match, room, state, row, grace, due, autoEnd, task, heard, moves>>

\* 90 s of silence: presence forgets the person, and nothing else happens.  It
\* is longer than a join, and than an earlier drop with its grace.
PresenceLapses(p) ==
  /\ MoveBy("lapse")
  /\ presence[p] # "none"
  /\ task["guard"].who # p /\ task[p].op = "none" /\ ~grace[p] /\ ~due[p]
  /\ presence' = [presence EXCEPT ![p] = "none"]
  /\ UNCHANGED <<status, match, room, state, row, grace, due, autoEnd, task, heard>>

-----------------------------------------------------------------------------
(* endRound, maybeAutoEndEmptyRound *)

\* Everyone in a slot of the round's rows goes back to the main room.
EndRound ==
  /\ match' = IF match.status = "active" THEN [match EXCEPT !.status = "completed"] ELSE match
  /\ status' = "round_rating"
  /\ Begin("guard", [NoTask EXCEPT !.op = "end", !.pc = "next", !.todo = match.slots])

RoundEnds ==
  /\ "end" \in Actors
  /\ GuardFree /\ status = "round_active"
  /\ EndRound
  /\ UNCHANGED <<room, presence, state, row, grace, due, autoEnd, heard, moves>>

maybeAutoEndEmptyRound ==
  /\ autoEnd /\ GuardFree
  /\ autoEnd' = FALSE
  /\ IF status = "round_active" /\ match.status # "active"
     THEN EndRound
     ELSE UNCHANGED <<status, match, task>>
  /\ UNCHANGED <<room, presence, state, row, grace, due, heard, moves>>

-----------------------------------------------------------------------------
(* reconcileSessionStates: its second half takes stale people to left *)

EscalateRead(p) ==
  /\ "stale" \in Actors
  /\ task["reconciler"].op = "none"
  /\ row[p] = "disconnected" /\ ~Talking(p)
  /\ Begin("reconciler", [NoTask EXCEPT !.op = "escalate", !.pc = "check", !.who = p])
  /\ UNCHANGED <<status, match, room, presence, state, row, grace, due, autoEnd, heard, moves>>

EscalateCheck ==
  LET k == task["reconciler"] IN
  /\ k.pc = "check"
  /\ IF presence[k.who] = "none" /\ state[k.who] = "disconnected"
     THEN Goto("reconciler", "sockets") ELSE Done("reconciler")
  /\ UNCHANGED <<status, match, room, presence, state, row, grace, due, autoEnd, heard, moves>>

\* fetchSockets: a live socket makes the person present again; its answer may
\* be old when the move is made.
EscalateSockets ==
  LET k == task["reconciler"] IN
  /\ k.pc = "sockets"
  /\ IF room[k.who] # {}
     THEN presence' = [presence EXCEPT ![k.who] = "reconciled"] /\ Done("reconciler")
     ELSE Begin("reconciler", WriteStatus(k, k.who, "left", "idle")) /\ UNCHANGED presence
  /\ UNCHANGED <<status, match, room, state, row, grace, due, autoEnd, heard, moves>>

-----------------------------------------------------------------------------
StatusStep(w) == Mark(w) \/ Write(w)
GuardStep == JoinEnters \/ JoinReset \/ JoinRestore \/ Demote \/ NextPerson \/ StatusStep("guard")
DropStep(p) == StatusStep(p) \/ DropTimer(p)
ReconcilerStep ==
  EscalateCheck \/ EscalateSockets \/ StatusStep("reconciler")

Next ==
  \/ \E p \in People, t \in Tabs :
       Join(p, t) \/ Leave(p, t) \/ Disconnect(p, t) \/ Heartbeat(p, t)
  \/ \E p \in People :
       LeaveConversation(p) \/ PresenceLapses(p) \/ DropStep(p) \/ GraceFires(p) \/ GraceExpires(p)
  \/ JoiningSocketCloses \/ RoundEnds \/ maybeAutoEndEmptyRound \/ GuardStep
  \/ \E p \in People : EscalateRead(p)
  \/ ReconcilerStep

FirstTab == CHOOSE t \in Tabs : TRUE

Init ==
  /\ status = "round_active"
  /\ match = [slots |-> People, status |-> "active"]
  /\ room = [p \in People |-> {FirstTab}]
  /\ presence = [p \in People |-> FirstTab]
  /\ state = [p \in People |-> "in_breakout"]
  /\ row = [p \in People |-> "in_round"]
  /\ grace = [p \in People |-> FALSE]
  /\ due = [p \in People |-> FALSE]
  /\ autoEnd = FALSE
  /\ task = [w \in Workers |-> NoTask]
  /\ heard = [p \in People |-> TRUE]
  /\ moves = 0

Spec == Init /\ [][Next]_vars

\* Handlers run on, timers fire and reach the guard in turn; the host is not
\* obliged to let a round end (a paused one never does), nor anyone to come back.
FairSpec ==
  /\ Spec
  /\ WF_vars(GuardStep) /\ WF_vars(ReconcilerStep) /\ SF_vars(maybeAutoEndEmptyRound)
  /\ \A p \in People :
       WF_vars(DropStep(p)) /\ WF_vars(GraceFires(p)) /\ SF_vars(GraceExpires(p))

-----------------------------------------------------------------------------
(* Properties *)

\* A grace ends the conversation of nobody who joined again after they left or
\* dropped: a timer that fired while the join held the guard, or that a late
\* step of the drop armed, is called off when it runs.
GraceEndsOnlyForAbsent ==
  [][match' # match /\ task["guard"].op = "grace" => ~heard[task["guard"].who]]_vars

Away(p) == room[p] = {} /\ presence[p] = "none"
Leaving(p) == task[p].op = "drop" \/ (task["guard"].op = "leave" /\ task["guard"].who = p)

\* Nobody waits for ever for a partner who dropped or left: the room ends, or
\* goes on without them, or they come back.
SurvivorReleased ==
  \A p \in People : (Leaving(p) /\ Talking(p)) ~> (~Away(p) \/ ~Talking(p))

\* Once a conversation is over, and the handlers of joins and drops with it,
\* memory holds nobody who came back in it: they could not be matched again.
\* Of a pair; a trio that goes on without someone forgets them, row and all.
NobodyStranded ==
  match.status # "active" /\ GuardFree =>
    \A p \in People :
      heard[p] /\ task[p].op = "none" => state[p] # "in_breakout"

\* Someone who left the event stays gone until they join again.
LeaveStands ==
  [][\A p \in People :
       state[p] = "left" /\ state'[p] # "left" =>
         task["guard"].op = "join" /\ task["guard"].who = p]_vars

-----------------------------------------------------------------------------
(* What a comment says and the code does not keep: no run checks it *)

\* SurvivorReleased for whoever is gone: for someone the sweep forgot while they were
\* connected, and whose socket dropped after.
LapseReleasesSurvivor ==
  \A p \in People : (Away(p) /\ Talking(p)) ~> (~Away(p) \/ ~Talking(p))
=============================================================================
