----------------------------- MODULE PresenceProofs -----------------------------
(***************************************************************************)
(* The promises of the rounds' graces, for any number of joins, leaves,    *)
(* drops and silences, in a conversation of two or of three.               *)
(*                                                                         *)
(* That a grace ends nobody's conversation who is back rests on presence:  *)
(* while a timer or a drop is under way for someone presence forgot, no    *)
(* join of theirs was heard since.  That nobody is left behind in a        *)
(* conversation that is over rests on what the guard's holder still has to *)
(* do: whoever memory still holds there is about to be moved.              *)
(***************************************************************************)
EXTENDS Presence, TLAPS, FiniteSetTheorems

Held == task["guard"]
Writing == {"mark", "write", "legacy"}
Thens == {"idle", "reset", "restore", "next", "timer"}

\* What each worker may have under way.
GuardTask(k) ==
  /\ k.op = "none" => k = NoTask
  /\ k.op \in {"none", "join", "leave", "back", "grace", "end"}
  /\ k.op \in {"join", "leave", "back", "grace"} => k.who \in People
  /\ k.pc \in {"enter", "reset", "restore"} => k.op = "join"
  /\ k.pc = "enter" => k.tab \in Tabs \cup {"closed"}
  /\ k.pc = "demote" => k.op \in {"back", "grace"}
  /\ k.pc \in Writing => k.on \in People /\ (k.then \in {"reset", "restore"} => k.op = "join")
  /\ k.todo # {} => k.pc = "next" \/ (k.pc \in Writing /\ k.then = "next")
DropTask(p, k) ==
  /\ k.op \in {"none", "drop"} /\ (k.op = "none" => k = NoTask)
  /\ k.op = "drop" =>
       k.pc \in Writing \cup {"timer"} /\ k.on = p /\ k.to = "disconnected" /\ k.then = "timer"
EscalateTask(k) ==
  /\ k.op \in {"none", "escalate"} /\ (k.op = "none" => k = NoTask)
  /\ k.op = "escalate" => k.who \in People /\ k.pc \in {"check", "sockets"} \cup Writing
  /\ k.pc \in Writing => k.on \in People /\ k.to = "left" /\ k.then = "idle"
WorkerOK(w, k) ==
  /\ w = "guard" => GuardTask(k)
  /\ w \in People => DropTask(w, k)
  /\ w = "reconciler" => EscalateTask(k)

ShapeOK == TypeOK /\ \A w \in Workers : WorkerOK(w, task[w])

\* Nobody whom presence forgot, and a timer or a drop concerns, was heard since.
AbsentOK ==
  /\ \A p \in People :
       (grace[p] \/ due[p] \/ task[p].op = "drop") /\ presence[p] = "none" => ~heard[p]
  /\ Held.op = "grace" => ~heard[Held.who]

\* Whom a conversation that is over still holds in memory is about to be moved.
ToBeMoved(p) ==
  \/ p \in Held.todo
  \/ Held.pc = "mark" /\ Held.on = p /\ Held.to \in {"in_main_room", "left"}
  \/ task[p].pc = "mark"
ReleaseOK ==
  /\ match.status = "active" => status = "round_active"
  /\ Held.pc = "mark" /\ Held.to = "in_breakout" => match.status = "active"
  /\ match.status # "active" =>
       \A p \in match.slots : state[p] = "in_breakout" =>
         ToBeMoved(p) \/ (status = "round_active" /\ ~heard[p])

PresenceInv == ShapeOK /\ AbsentOK /\ ReleaseOK

\* Over, and with nobody of its row left in it.
RowReleased ==
  match.status # "active" /\ GuardFree =>
    \A p \in match.slots :
      heard[p] /\ task[p].op = "none" => state[p] # "in_breakout"

-----------------------------------------------------------------------------
(* Tasks *)

LEMMA WorkersApart ==
  /\ "guard" \in Workers /\ "reconciler" \in Workers /\ People \subseteq Workers
  /\ "guard" \notin People /\ "reconciler" \notin People /\ "nobody" \notin People
  BY PeopleAssumption DEF Workers

LEMMA NoTaskOK ==
  /\ NoTask \in Tasks /\ \A w : WorkerOK(w, NoTask)
  /\ NoTask.op = "none" /\ NoTask.pc = "idle" /\ NoTask.todo = {} /\ NoTask.then = "idle"
  BY DEF NoTask, Tasks, Sockets, ParticipantState, WorkerOK, GuardTask, DropTask, EscalateTask, Writing

\* A task that sets a status next.
LEMMA WriteStatusOf ==
  ASSUME NEW k \in Tasks, NEW p \in People, NEW to \in ParticipantState, NEW next \in Thens,
         NEW x, x = WriteStatus(k, p, to, next)
  PROVE  /\ x \in Tasks /\ x.pc = "mark" /\ x.on = p /\ x.to = to /\ x.then = next
         /\ x.op = k.op /\ x.who = k.who /\ x.todo = k.todo /\ x.tab = k.tab
  BY DEF WriteStatus, Tasks, Thens

\* A task that goes on within the writing of a status.
LEMMA WritingOn ==
  ASSUME NEW w \in Workers, NEW k \in Tasks, WorkerOK(w, k), k.pc \in Writing,
         NEW pc \in {"write", "legacy"}, NEW x, x = [k EXCEPT !.pc = pc]
  PROVE  /\ x \in Tasks /\ WorkerOK(w, x) /\ x.pc = pc
         /\ x.op = k.op /\ x.who = k.who /\ x.todo = k.todo
  <1>1. /\ x \in Tasks /\ x.pc = pc /\ x.op = k.op /\ x.who = k.who /\ x.todo = k.todo
        /\ x.on = k.on /\ x.to = k.to /\ x.then = k.then /\ x.tab = k.tab
    BY DEF Tasks
  <1>2. k.op # "none"
    BY NoTaskOK DEF WorkerOK, GuardTask, DropTask, EscalateTask, Writing, Workers
  <1>3. w = "guard" => GuardTask(x)
    BY <1>1, <1>2 DEF WorkerOK, GuardTask, Writing
  <1>4. w \in People => DropTask(w, x)
    BY <1>1, <1>2 DEF WorkerOK, DropTask, Writing
  <1>5. w = "reconciler" => EscalateTask(x)
    BY <1>1, <1>2 DEF WorkerOK, EscalateTask, Writing
  <1> QED BY <1>1, <1>3, <1>4, <1>5 DEF WorkerOK

\* ... and past it.
LEMMA AfterStatusOf ==
  ASSUME NEW w \in Workers, NEW k \in Tasks, WorkerOK(w, k), k.pc \in Writing,
         NEW x, x = AfterStatus(k)
  PROVE  /\ x \in Tasks /\ WorkerOK(w, x) /\ x.pc # "mark"
         /\ x.op = k.op \/ x.op = "none"
         /\ x.op # "none" => x.who = k.who
         /\ w = "guard" => x.todo = k.todo
  <1>1. k.op # "none"
    BY NoTaskOK DEF WorkerOK, GuardTask, DropTask, EscalateTask, Writing, Workers
  <1>2. CASE k.then = "idle"
    <2>1. x = NoTask
      BY <1>2 DEF AfterStatus
    <2>2. w = "guard" => k.todo = {}
      BY <1>2 DEF WorkerOK, GuardTask, Writing
    <2> QED BY <2>1, <2>2, NoTaskOK
  <1>3. CASE k.then # "idle"
    <2>1. x = [k EXCEPT !.pc = k.then]
      BY <1>3 DEF AfterStatus
    <2>2. k.then \in {"reset", "restore", "next", "timer"}
      BY <1>3 DEF Tasks
    <2>3. /\ x \in Tasks /\ x.pc = k.then /\ x.op = k.op /\ x.who = k.who /\ x.todo = k.todo
          /\ x.on = k.on /\ x.to = k.to /\ x.then = k.then /\ x.tab = k.tab
      BY <2>1, <2>2 DEF Tasks
    <2>4. w = "guard" => GuardTask(x)
      BY <1>1, <2>2, <2>3 DEF WorkerOK, GuardTask, Writing
    <2>5. w \in People => DropTask(w, x)
      BY <1>1, <2>2, <2>3 DEF WorkerOK, DropTask, Writing
    <2>6. w = "reconciler" => EscalateTask(x)
      BY <1>1, <1>3, <2>2, <2>3 DEF WorkerOK, EscalateTask, Writing
    <2> QED BY <2>2, <2>3, <2>4, <2>5, <2>6 DEF WorkerOK
  <1> QED BY <1>2, <1>3

\* A worker takes up a task: the others go on with theirs.
LEMMA BeginOf ==
  ASSUME ShapeOK, NEW w \in Workers, NEW k \in Tasks, WorkerOK(w, k), task' = [task EXCEPT ![w] = k]
  PROVE  /\ task' \in [Workers -> Tasks] /\ \A v \in Workers : WorkerOK(v, task'[v])
         /\ task'[w] = k /\ \A v \in Workers \ {w} : task'[v] = task[v]
  BY DEF ShapeOK, TypeOK

\* The tasks that begin.
LEMMA JoinTaskOK ==
  ASSUME NEW p \in People, NEW t \in Tabs,
         NEW k, k = [NoTask EXCEPT !.op = "join", !.pc = "enter", !.who = p, !.tab = t]
  PROVE  k \in Tasks /\ WorkerOK("guard", k) /\ k.op = "join" /\ k.pc = "enter" /\ k.todo = {}
  <1>1. /\ k \in Tasks /\ k.op = "join" /\ k.pc = "enter" /\ k.who = p /\ k.tab = t /\ k.todo = {}
    BY DEF NoTask, Tasks, Sockets, ParticipantState
  <1> QED BY <1>1, WorkersApart DEF WorkerOK, GuardTask, Writing

LEMMA EndTaskOK ==
  ASSUME NEW S \in SUBSET People, NEW k, k = [NoTask EXCEPT !.op = "end", !.pc = "next", !.todo = S]
  PROVE  k \in Tasks /\ WorkerOK("guard", k) /\ k.op = "end" /\ k.pc = "next" /\ k.todo = S
  <1>1. k \in Tasks /\ k.op = "end" /\ k.pc = "next" /\ k.todo = S
    BY DEF NoTask, Tasks, Sockets, ParticipantState
  <1> QED BY <1>1, WorkersApart DEF WorkerOK, GuardTask, Writing

LEMMA BackTaskOK ==
  ASSUME NEW p \in People, NEW k, k = [NoTask EXCEPT !.op = "back", !.pc = "demote", !.who = p]
  PROVE  /\ k \in Tasks /\ WorkerOK("guard", k)
         /\ k.op = "back" /\ k.pc = "demote" /\ k.who = p /\ k.todo = {}
  <1>1. k \in Tasks /\ k.op = "back" /\ k.pc = "demote" /\ k.who = p /\ k.todo = {}
    BY DEF NoTask, Tasks, Sockets, ParticipantState
  <1> QED BY <1>1, WorkersApart DEF WorkerOK, GuardTask, Writing

LEMMA GraceTaskOK ==
  ASSUME NEW p \in People, NEW k, k = [NoTask EXCEPT !.op = "grace", !.pc = "demote", !.who = p]
  PROVE  /\ k \in Tasks /\ WorkerOK("guard", k)
         /\ k.op = "grace" /\ k.pc = "demote" /\ k.who = p /\ k.todo = {}
  <1>1. k \in Tasks /\ k.op = "grace" /\ k.pc = "demote" /\ k.who = p /\ k.todo = {}
    BY DEF NoTask, Tasks, Sockets, ParticipantState
  <1> QED BY <1>1, WorkersApart DEF WorkerOK, GuardTask, Writing

LEMMA LeaveTaskOK ==
  ASSUME NEW p \in People, NEW k, k = WriteStatus([NoTask EXCEPT !.op = "leave", !.who = p], p, "left", "idle")
  PROVE  /\ k \in Tasks /\ WorkerOK("guard", k)
         /\ k.op = "leave" /\ k.pc = "mark" /\ k.on = p /\ k.to = "left"
  <1> DEFINE n == [NoTask EXCEPT !.op = "leave", !.who = p]
  <1>1. n \in Tasks /\ n.op = "leave" /\ n.who = p /\ n.todo = {}
    BY DEF NoTask, Tasks, Sockets, ParticipantState
  <1>2. k = WriteStatus(n, p, "left", "idle")
    OBVIOUS
  <1>3. "left" \in ParticipantState /\ "idle" \in Thens
    BY DEF ParticipantState, Thens
  <1> HIDE DEF n
  <1>4. /\ k \in Tasks /\ k.op = "leave" /\ k.pc = "mark" /\ k.on = p /\ k.to = "left"
        /\ k.todo = {} /\ k.who = p /\ k.then = "idle"
    BY <1>1, <1>2, <1>3, WriteStatusOf
  <1> QED BY <1>4, WorkersApart DEF WorkerOK, GuardTask, Writing

LEMMA DroppingOK ==
  ASSUME NEW p \in People, NEW k, k = Dropping(p)
  PROVE  k \in Tasks /\ WorkerOK(p, k) /\ k.op = "drop" /\ k.pc = "mark"
  <1> DEFINE n == [NoTask EXCEPT !.op = "drop", !.who = p]
  <1>1. n \in Tasks /\ n.op = "drop" /\ n.who = p /\ n.todo = {}
    BY DEF NoTask, Tasks, Sockets, ParticipantState
  <1>2. k = WriteStatus(n, p, "disconnected", "timer")
    BY DEF Dropping
  <1>3. "disconnected" \in ParticipantState /\ "timer" \in Thens
    BY DEF ParticipantState, Thens
  <1> HIDE DEF n
  <1>4. /\ k \in Tasks /\ k.op = "drop" /\ k.pc = "mark" /\ k.on = p /\ k.to = "disconnected"
        /\ k.todo = {} /\ k.who = p /\ k.then = "timer"
    BY <1>1, <1>2, <1>3, WriteStatusOf
  <1> QED BY <1>4, WorkersApart DEF WorkerOK, DropTask, Writing

-----------------------------------------------------------------------------
(* The writing of a status *)

LEMMA ProjectionType == \A s \in ParticipantState : projectToDbStatus(s) \in ParticipantStatus
  BY DEF projectToDbStatus, ParticipantState, ParticipantStatus

\* Out of the conversation every door is open.
LEMMA OutOfBreakout ==
  ASSUME NEW to \in {"in_main_room", "left", "disconnected"}
  PROVE  Accepted("in_breakout", to) /\ ~Idempotent("in_breakout", to)
  <1>1. LegalTransitions["in_breakout"] = {"in_rating", "in_main_room", "in_breakout"} \cup Ends
    BY DEF LegalTransitions, ParticipantState
  <1> QED BY <1>1 DEF Accepted, Idempotent, FromState, RewritesRemoval, Ends

\* Whom a status is set of, and to what.
LEMMA WritingOf ==
  ASSUME ShapeOK, NEW w \in Workers, task[w].pc \in Writing
  PROVE  /\ task[w] \in Tasks /\ WorkerOK(w, task[w]) /\ task[w].on \in People
         /\ task[w].to \in ParticipantState
         /\ w \in People => task[w].on = w /\ task[w].to = "disconnected"
         /\ w = "reconciler" => task[w].to = "left"
  <1>1. task[w] \in Tasks /\ WorkerOK(w, task[w])
    BY DEF ShapeOK, TypeOK
  <1>2. task[w].op # "none"
    BY <1>1, NoTaskOK DEF WorkerOK, GuardTask, DropTask, EscalateTask, Writing, Workers
  <1>3. task[w].to \in ParticipantState
    BY <1>1 DEF Tasks
  <1> QED BY <1>1, <1>2, <1>3 DEF WorkerOK, GuardTask, DropTask, EscalateTask, Workers

\* A worker past a mark or a write has the rest of its task as it was.
PastWriting(w) ==
  /\ task' \in [Workers -> Tasks] /\ \A v \in Workers : WorkerOK(v, task'[v])
  /\ \A v \in Workers \ {w} : task'[v] = task[v]
  /\ task'[w].pc # "mark"
  /\ task'[w].op = task[w].op \/ task'[w].op = "none"
  /\ task'[w].op # "none" => task'[w].who = task[w].who
  /\ w = "guard" => task'[w].todo = task[w].todo

LEMMA PastWritingOf ==
  ASSUME ShapeOK, NEW w \in Workers, task[w].pc \in Writing,
         \/ Begin(w, AfterStatus(task[w]))
         \/ Goto(w, "write") \/ Goto(w, "legacy")
  PROVE  PastWriting(w)
  <1>1. task[w] \in Tasks /\ WorkerOK(w, task[w])
    BY WritingOf
  <1>2. CASE Begin(w, AfterStatus(task[w]))
    <2>1. PICK x : x = AfterStatus(task[w])
      OBVIOUS
    <2>2. /\ x \in Tasks /\ WorkerOK(w, x) /\ x.pc # "mark"
          /\ x.op = task[w].op \/ x.op = "none"
          /\ x.op # "none" => x.who = task[w].who
          /\ w = "guard" => x.todo = task[w].todo
      BY <1>1, <2>1, AfterStatusOf
    <2>3. task' = [task EXCEPT ![w] = x]
      BY <1>2, <2>1 DEF Begin
    <2> QED BY <2>2, <2>3, BeginOf DEF PastWriting
  <1>3. ASSUME NEW pc \in {"write", "legacy"}, Goto(w, pc) PROVE PastWriting(w)
    <2>1. PICK x : x = [task[w] EXCEPT !.pc = pc]
      OBVIOUS
    <2>2. /\ x \in Tasks /\ WorkerOK(w, x) /\ x.pc = pc
          /\ x.op = task[w].op /\ x.who = task[w].who /\ x.todo = task[w].todo
      BY <1>1, <2>1, WritingOn
    <2>3. task' = [task EXCEPT ![w] = x]
      BY <1>3, <2>1 DEF Goto
    <2> QED BY <2>2, <2>3, BeginOf DEF PastWriting
  <1> QED BY <1>2, <1>3

LEMMA PastWritingKeepsAbsent ==
  ASSUME AbsentOK, NEW w \in Workers, PastWriting(w), UNCHANGED <<presence, grace, due, heard>>
  PROVE  AbsentOK'
  BY WorkersApart DEF AbsentOK, PastWriting, Held

\* Memory holds a person in the conversation only while it goes on; whoever is
\* about to be moved is moved.
LEMMA MarkKeeps ==
  ASSUME PresenceInv, NEW w \in Workers, Mark(w)
  PROVE  PresenceInv'
  <1>1. ShapeOK /\ AbsentOK /\ ReleaseOK /\ task[w].pc = "mark" /\ task[w].pc \in Writing
    BY DEF PresenceInv, Mark, Writing
  <1>2. /\ task[w].on \in People /\ task[w].to \in ParticipantState
        /\ w \in People => task[w].on = w /\ task[w].to = "disconnected"
        /\ w = "reconciler" => task[w].to = "left"
    BY <1>1, WritingOf
  <1>3. PastWriting(w)
    BY <1>1, PastWritingOf DEF Mark
  <1>4. UNCHANGED <<status, match, room, presence, row, grace, due, autoEnd, heard, moves>>
    BY DEF Mark
  <1> DEFINE on == task[w].on
             to == task[w].to
  <1>5. \/ state' = [state EXCEPT ![on] = to]
        \/ state' = state /\ (~Accepted(state[on], to) \/ Idempotent(state[on], to))
    BY DEF Mark
  <1>6. /\ state' \in [People -> ParticipantState]
        /\ \A p \in People \ {on} : state'[p] = state[p]
        /\ \/ state'[on] = to
           \/ state'[on] = state[on] /\ (~Accepted(state[on], to) \/ Idempotent(state[on], to))
    BY <1>1, <1>2, <1>5 DEF ShapeOK, TypeOK
  <1>7. ShapeOK'
    BY <1>1, <1>3, <1>4, <1>6 DEF ShapeOK, TypeOK, PastWriting
  <1>8. AbsentOK'
    BY <1>1, <1>3, <1>4, PastWritingKeepsAbsent
  <1>9. ReleaseOK'
    <2>1. Held'.pc = "mark" => w # "guard" /\ Held' = Held
      BY <1>3, WorkersApart DEF PastWriting, Held
    <2>2. Held'.todo = Held.todo
      BY <1>3, WorkersApart DEF PastWriting, Held
    <2>3. ASSUME NEW p \in match.slots, match.status # "active", state'[p] = "in_breakout"
          PROVE  ToBeMoved(p)' \/ (status = "round_active" /\ ~heard[p])
      <3>1. p \in People
        BY <1>1 DEF ShapeOK, TypeOK
      <3>2. p = on => to # "in_breakout"
        BY <1>1, <1>2, <2>3 DEF ReleaseOK, Held, Workers
      <3>3. state[p] = "in_breakout"
        BY <1>6, <2>3, <3>1, <3>2
      <3>4. ~(p = on /\ to \in {"in_main_room", "left", "disconnected"})
        BY <1>6, <2>3, <3>2, <3>3, OutOfBreakout
      <3>5. ToBeMoved(p) \/ (status = "round_active" /\ ~heard[p])
        BY <1>1, <2>3, <3>3 DEF ReleaseOK
      <3>6. CASE p \in Held.todo
        BY <2>2, <3>6 DEF ToBeMoved
      <3>7. CASE Held.pc = "mark" /\ Held.on = p /\ Held.to \in {"in_main_room", "left"}
        <4>1. w # "guard"
          BY <3>4, <3>7 DEF Held
        <4>2. Held' = Held
          BY <1>3, <4>1, WorkersApart DEF PastWriting, Held
        <4> QED BY <3>7, <4>2 DEF ToBeMoved
      <3>8. CASE task[p].pc = "mark"
        <4>1. w # p
          BY <1>2, <3>1, <3>4
        <4>2. task'[p] = task[p]
          BY <1>3, <3>1, <4>1, WorkersApart DEF PastWriting
        <4> QED BY <3>8, <4>2 DEF ToBeMoved
      <3> QED BY <3>5, <3>6, <3>7, <3>8 DEF ToBeMoved
    <2> QED BY <1>1, <1>4, <2>1, <2>3 DEF ReleaseOK
  <1> QED BY <1>7, <1>8, <1>9 DEF PresenceInv

\* The row is nobody's concern here.
LEMMA WriteKeeps ==
  ASSUME PresenceInv, NEW w \in Workers, Write(w)
  PROVE  PresenceInv'
  <1>1. ShapeOK /\ AbsentOK /\ ReleaseOK /\ task[w].pc \in {"write", "legacy"} /\ task[w].pc \in Writing
    BY DEF PresenceInv, Write, Writing
  <1>2. PastWriting(w)
    BY <1>1, PastWritingOf DEF Write
  <1>3. UNCHANGED <<status, match, room, presence, state, grace, due, autoEnd, heard, moves>>
    BY DEF Write
  <1>4. row' \in [People -> ParticipantStatus]
    <2>1. projectToDbStatus(task[w].to) \in ParticipantStatus
      BY <1>1, WritingOf, ProjectionType
    <2>2. row' = [row EXCEPT ![task[w].on] = projectToDbStatus(task[w].to)]
      BY DEF Write
    <2> QED BY <1>1, <2>1, <2>2 DEF ShapeOK, TypeOK
  <1>5. ShapeOK'
    BY <1>1, <1>2, <1>3, <1>4 DEF ShapeOK, TypeOK, PastWriting
  <1>6. AbsentOK'
    BY <1>1, <1>2, <1>3, PastWritingKeepsAbsent
  <1>7. ReleaseOK'
    <2>1. Held'.pc = "mark" => Held' = Held
      BY <1>2, WorkersApart DEF PastWriting, Held
    <2>2. Held'.todo = Held.todo /\ (Held.pc = "mark" => Held' = Held)
      BY <1>1, <1>2, WorkersApart DEF PastWriting, Held
    <2>3. \A p \in People : task[p].pc = "mark" => task'[p] = task[p]
      BY <1>1, <1>2, WorkersApart DEF PastWriting
    <2>4. \A p \in People : ToBeMoved(p) => ToBeMoved(p)'
      BY <2>2, <2>3 DEF ToBeMoved
    <2>5. match.slots \subseteq People
      BY <1>1 DEF ShapeOK, TypeOK
    <2> QED BY <1>1, <1>3, <2>1, <2>4, <2>5 DEF ReleaseOK
  <1> QED BY <1>5, <1>6, <1>7 DEF PresenceInv

-----------------------------------------------------------------------------
(* The guard's holder goes on *)

LEMMA GuardGoes ==
  ASSUME ShapeOK, NEW k \in Tasks, WorkerOK("guard", k), task' = [task EXCEPT !["guard"] = k]
  PROVE  /\ task' \in [Workers -> Tasks] /\ \A v \in Workers : WorkerOK(v, task'[v])
         /\ Held' = k /\ \A p \in People : task'[p] = task[p]
  BY BeginOf, WorkersApart DEF Held

LEMMA HeldOf ==
  ASSUME ShapeOK
  PROVE  /\ Held \in Tasks /\ WorkerOK("guard", Held) /\ GuardTask(Held)
         /\ GuardFree => Held.pc = "idle" /\ Held.todo = {}
         /\ Held.pc # "idle" => Held.op # "none"
  BY WorkersApart, NoTaskOK DEF ShapeOK, TypeOK, WorkerOK, GuardTask, Held, GuardFree

\* Memory, the row and the round as they were: whoever was to be moved still is.
LEMMA ReleaseStays ==
  ASSUME ShapeOK, ReleaseOK, UNCHANGED <<status, match, state>>,
         \A p \in People : heard'[p] => heard[p],
         Held'.pc = "mark" /\ Held'.to = "in_breakout" => match.status = "active",
         \A p \in People : ToBeMoved(p) => ToBeMoved(p)'
  PROVE  ReleaseOK'
  <1>1. match.slots \subseteq People
    BY DEF ShapeOK, TypeOK
  <1> QED BY <1>1 DEF ReleaseOK

LEMMA NextPersonKeeps ==
  ASSUME PresenceInv, NextPerson
  PROVE  PresenceInv'
  <1>1. ShapeOK /\ AbsentOK /\ ReleaseOK /\ Held.pc = "next"
    BY DEF PresenceInv, NextPerson, Held
  <1>2. Held \in Tasks /\ GuardTask(Held) /\ Held.op # "none"
    BY <1>1, HeldOf
  <1>3. UNCHANGED <<status, match, room, presence, state, row, grace, due, autoEnd, heard, moves>>
    BY DEF NextPerson
  <1>4. PICK k \in Tasks :
          /\ WorkerOK("guard", k) /\ task' = [task EXCEPT !["guard"] = k]
          /\ k.op # "none" => k.op = Held.op /\ k.who = Held.who
          /\ k.pc = "mark" => k.to = "in_main_room"
          /\ \A p \in Held.todo : p \in k.todo \/ (k.pc = "mark" /\ k.on = p)
    <2>1. CASE Held.todo = {}
      BY <2>1, NoTaskOK DEF NextPerson, Done, Held
    <2>2. CASE Held.todo # {}
      <3>1. PICK p \in Held.todo :
              Begin("guard", WriteStatus([Held EXCEPT !.todo = @ \ {p}], p, "in_main_room", "next"))
        BY <2>2 DEF NextPerson, Held
      <3>2. PICK n : n = [Held EXCEPT !.todo = Held.todo \ {p}]
        OBVIOUS
      <3>3. PICK x : x = WriteStatus(n, p, "in_main_room", "next")
        OBVIOUS
      <3>4. Held.todo \subseteq People /\ p \in People
        BY <1>2 DEF Tasks
      <3>5. /\ n \in Tasks /\ n.op = Held.op /\ n.who = Held.who /\ n.todo = Held.todo \ {p}
            /\ n.tab = Held.tab
        BY <1>2, <3>2, <3>4 DEF Tasks
      <3>6. "in_main_room" \in ParticipantState /\ "next" \in Thens
        BY DEF ParticipantState, Thens
      <3>7. /\ x \in Tasks /\ x.pc = "mark" /\ x.on = p /\ x.to = "in_main_room" /\ x.then = "next"
            /\ x.op = Held.op /\ x.who = Held.who /\ x.todo = Held.todo \ {p}
        BY <3>3, <3>4, <3>5, <3>6, WriteStatusOf
      <3>8. GuardTask(x)
        BY <1>2, <3>4, <3>7 DEF GuardTask, Writing
      <3>9. task' = [task EXCEPT !["guard"] = x]
        BY <3>1, <3>2, <3>3 DEF Begin
      <3> QED BY <3>7, <3>8, <3>9, WorkersApart DEF WorkerOK
    <2> QED BY <2>1, <2>2
  <1>5. /\ task' \in [Workers -> Tasks] /\ \A v \in Workers : WorkerOK(v, task'[v])
        /\ Held' = k /\ \A p \in People : task'[p] = task[p]
    BY <1>1, <1>4, GuardGoes
  <1>6. ShapeOK'
    BY <1>1, <1>3, <1>5 DEF ShapeOK, TypeOK
  <1>7. AbsentOK'
    BY <1>1, <1>3, <1>4, <1>5 DEF AbsentOK
  <1>8. ReleaseOK'
    BY <1>1, <1>3, <1>4, <1>5, ReleaseStays DEF ToBeMoved
  <1> QED BY <1>6, <1>7, <1>8 DEF PresenceInv

\* From the middle of a join to a status it sets, or past one it need not.
LEMMA JoinMarksOf ==
  ASSUME ShapeOK, Held.pc \in {"enter", "reset", "restore"},
         NEW to \in ParticipantState, NEW then \in {"idle", "reset", "restore"},
         NEW k, k = WriteStatus(Held, Held.who, to, then)
  PROVE  /\ k \in Tasks /\ WorkerOK("guard", k)
         /\ k.op = "join" /\ k.who = Held.who /\ k.pc = "mark" /\ k.on = Held.who /\ k.to = to
         /\ k.todo = {}
  <1>1. Held \in Tasks /\ GuardTask(Held)
    BY HeldOf
  <1>2. Held.op = "join" /\ Held.who \in People /\ Held.todo = {}
    BY <1>1 DEF GuardTask, Writing
  <1>3. then \in Thens
    BY DEF Thens
  <1>4. /\ k \in Tasks /\ k.pc = "mark" /\ k.on = Held.who /\ k.to = to /\ k.then = then
        /\ k.op = "join" /\ k.who = Held.who /\ k.todo = {} /\ k.tab = Held.tab
    BY <1>1, <1>2, <1>3, WriteStatusOf
  <1>5. GuardTask(k)
    BY <1>2, <1>4 DEF GuardTask, Writing
  <1> QED BY <1>4, <1>5, WorkersApart DEF WorkerOK

LEMMA JoinResetKeeps ==
  ASSUME PresenceInv, JoinReset
  PROVE  PresenceInv'
  <1>1. ShapeOK /\ AbsentOK /\ ReleaseOK /\ Held.pc = "reset"
    BY DEF PresenceInv, JoinReset, Held
  <1>2. Held \in Tasks /\ GuardTask(Held)
    BY <1>1, HeldOf
  <1>3. Held.op = "join" /\ Held.todo = {} /\ Held.who \in People
    BY <1>1, <1>2 DEF GuardTask, Writing
  <1>4. UNCHANGED <<status, match, room, presence, state, row, grace, due, autoEnd, heard, moves>>
    BY DEF JoinReset
  <1>5. PICK k \in Tasks :
          /\ WorkerOK("guard", k) /\ task' = [task EXCEPT !["guard"] = k]
          /\ k.op = "join" /\ (k.pc = "mark" => k.to = "in_main_room")
    <2>1. CASE Begin("guard", WriteStatus(Held, Held.who, "in_main_room", "restore"))
      <3>1. PICK k : k = WriteStatus(Held, Held.who, "in_main_room", "restore")
        OBVIOUS
      <3>2. "in_main_room" \in ParticipantState
        BY DEF ParticipantState
      <3>3. k \in Tasks /\ WorkerOK("guard", k) /\ k.op = "join" /\ k.pc = "mark" /\ k.to = "in_main_room"
        BY <1>1, <3>1, <3>2, JoinMarksOf
      <3> QED BY <2>1, <3>1, <3>3 DEF Begin
    <2>2. CASE Goto("guard", "restore")
      <3>1. PICK k : k = [Held EXCEPT !.pc = "restore"]
        OBVIOUS
      <3>2. k \in Tasks /\ k.op = "join" /\ k.pc = "restore" /\ k.who = Held.who /\ k.todo = {}
        BY <1>2, <1>3, <3>1 DEF Tasks
      <3>3. WorkerOK("guard", k)
        BY <1>3, <3>2, WorkersApart DEF WorkerOK, GuardTask, Writing
      <3> QED BY <2>2, <3>1, <3>2, <3>3 DEF Goto, Held
    <2> QED BY <2>1, <2>2 DEF JoinReset, Held
  <1>6. /\ task' \in [Workers -> Tasks] /\ \A v \in Workers : WorkerOK(v, task'[v])
        /\ Held' = k /\ \A p \in People : task'[p] = task[p]
    BY <1>1, <1>5, GuardGoes
  <1>7. ShapeOK'
    BY <1>1, <1>4, <1>6 DEF ShapeOK, TypeOK
  <1>8. AbsentOK'
    BY <1>1, <1>4, <1>5, <1>6 DEF AbsentOK
  <1>9. ReleaseOK'
    BY <1>1, <1>3, <1>4, <1>5, <1>6, ReleaseStays DEF ToBeMoved
  <1> QED BY <1>7, <1>8, <1>9 DEF PresenceInv

\* Back into the conversation only while it goes on.
LEMMA JoinRestoreKeeps ==
  ASSUME PresenceInv, JoinRestore
  PROVE  PresenceInv'
  <1>1. ShapeOK /\ AbsentOK /\ ReleaseOK /\ Held.pc = "restore"
    BY DEF PresenceInv, JoinRestore, Held
  <1>2. Held \in Tasks /\ GuardTask(Held)
    BY <1>1, HeldOf
  <1>3. Held.op = "join" /\ Held.todo = {} /\ Held.who \in People
    BY <1>1, <1>2 DEF GuardTask, Writing
  <1>4. UNCHANGED <<status, match, room, presence, state, row, grace, due, autoEnd, heard, moves>>
    BY DEF JoinRestore
  <1>5. PICK k \in Tasks :
          /\ WorkerOK("guard", k) /\ task' = [task EXCEPT !["guard"] = k]
          /\ k.op \in {"join", "none"} /\ (k.pc = "mark" => match.status = "active")
    <2>1. CASE Restored(Held.who)
      <3>1. PICK k : k = WriteStatus(Held, Held.who, "in_breakout", "idle")
        OBVIOUS
      <3>2. "in_breakout" \in ParticipantState
        BY DEF ParticipantState
      <3>3. k \in Tasks /\ WorkerOK("guard", k) /\ k.op = "join"
        BY <1>1, <3>1, <3>2, JoinMarksOf
      <3> QED BY <2>1, <3>1, <3>3 DEF JoinRestore, Held, Begin, Restored, Talking
    <2>2. CASE ~Restored(Held.who)
      BY <2>2, NoTaskOK DEF JoinRestore, Held, Done
    <2> QED BY <2>1, <2>2
  <1>6. /\ task' \in [Workers -> Tasks] /\ \A v \in Workers : WorkerOK(v, task'[v])
        /\ Held' = k /\ \A p \in People : task'[p] = task[p]
    BY <1>1, <1>5, GuardGoes
  <1>7. ShapeOK'
    BY <1>1, <1>4, <1>6 DEF ShapeOK, TypeOK
  <1>8. AbsentOK'
    BY <1>1, <1>4, <1>5, <1>6 DEF AbsentOK
  <1>9. ReleaseOK'
    BY <1>1, <1>3, <1>4, <1>5, <1>6, ReleaseStays DEF ToBeMoved
  <1> QED BY <1>7, <1>8, <1>9 DEF PresenceInv

\* A join that enters takes its person out of the conversation first, wherever
\* the round still goes on.
LEMMA JoinEntersKeeps ==
  ASSUME PresenceInv, JoinEnters
  PROVE  PresenceInv'
  <1>1. ShapeOK /\ AbsentOK /\ ReleaseOK /\ Held.pc = "enter"
    BY DEF PresenceInv, JoinEnters, Held
  <1>2. Held \in Tasks /\ GuardTask(Held)
    BY <1>1, HeldOf
  <1>3. /\ Held.op = "join" /\ Held.todo = {} /\ Held.who \in People
        /\ Held.tab \in Tabs \cup {"closed"} /\ Held.tab # "none"
    BY <1>1, <1>2, TabsAssumption DEF GuardTask, Writing
  <1> DEFINE to == IF status = "round_active" THEN "in_main_room" ELSE "checked_in"
  <1>4. /\ UNCHANGED <<status, match, state, grace, due, autoEnd, moves>>
        /\ row' = IF row[Held.who] \in {"left", "disconnected", "no_show"}
                  THEN [row EXCEPT ![Held.who] = "registered"] ELSE row
        /\ presence' = [presence EXCEPT ![Held.who] = Held.tab]
        /\ room' = IF Held.tab \in Tabs THEN [room EXCEPT ![Held.who] = @ \cup {Held.tab}] ELSE room
        /\ heard' = [heard EXCEPT ![Held.who] = TRUE]
        /\ Begin("guard", WriteStatus(Held, Held.who, to, "reset"))
    BY DEF JoinEnters, Held
  <1>5. PICK k : k = WriteStatus(Held, Held.who, to, "reset")
    OBVIOUS
  <1>6. /\ k \in Tasks /\ WorkerOK("guard", k) /\ k.op = "join" /\ k.pc = "mark"
        /\ k.on = Held.who /\ k.to = to
    <2>1. to \in ParticipantState
      BY DEF ParticipantState
    <2> QED BY <1>1, <1>5, <2>1, JoinMarksOf
  <1>7. /\ task' \in [Workers -> Tasks] /\ \A v \in Workers : WorkerOK(v, task'[v])
        /\ Held' = k /\ \A p \in People : task'[p] = task[p]
    BY <1>1, <1>4, <1>5, <1>6, GuardGoes DEF Begin
  <1>8. /\ row' \in [People -> ParticipantStatus] /\ presence' \in [People -> Sockets]
        /\ room' \in [People -> SUBSET Tabs] /\ heard' \in [People -> BOOLEAN]
        /\ presence'[Held.who] = Held.tab
        /\ \A p \in People \ {Held.who} : presence'[p] = presence[p] /\ heard'[p] = heard[p]
    <2>1. "registered" \in ParticipantStatus
      BY DEF ParticipantStatus
    <2>2. row' \in [People -> ParticipantStatus]
      BY <1>1, <1>4, <2>1 DEF ShapeOK, TypeOK
    <2>3. room' \in [People -> SUBSET Tabs]
      BY <1>1, <1>3, <1>4 DEF ShapeOK, TypeOK
    <2> QED BY <1>1, <1>3, <1>4, <2>2, <2>3 DEF ShapeOK, TypeOK, Sockets
  <1>9. ShapeOK'
    BY <1>1, <1>4, <1>7, <1>8 DEF ShapeOK, TypeOK
  <1>10. AbsentOK'
    BY <1>1, <1>3, <1>4, <1>6, <1>7, <1>8 DEF AbsentOK
  <1>11. ReleaseOK'
    <2>1. to # "in_breakout"
      OBVIOUS
    <2>2. ASSUME NEW p \in match.slots, match.status # "active", state[p] = "in_breakout"
          PROVE  ToBeMoved(p)' \/ (status = "round_active" /\ ~heard'[p])
      <3>1. p \in People
        BY <1>1 DEF ShapeOK, TypeOK
      <3>2. ToBeMoved(p) \/ (status = "round_active" /\ ~heard[p])
        BY <1>1, <2>2 DEF ReleaseOK
      <3>3. ToBeMoved(p) => ToBeMoved(p)'
        BY <1>1, <1>3, <1>7, <3>1 DEF ToBeMoved
      <3>4. p = Held.who /\ status = "round_active" => ToBeMoved(p)'
        BY <1>6, <1>7 DEF ToBeMoved
      <3> QED BY <1>8, <3>1, <3>2, <3>3, <3>4
    <2> QED BY <1>1, <1>4, <1>6, <1>7, <2>1, <2>2 DEF ReleaseOK
  <1> QED BY <1>9, <1>10, <1>11 DEF PresenceInv

-----------------------------------------------------------------------------
(* The guard is taken *)

\* A task that begins with nobody left to move, and marks nobody in it.
LEMMA GuardTakenKeepsRelease ==
  ASSUME ShapeOK, ReleaseOK, GuardFree, UNCHANGED <<status, match, state>>,
         \A p \in People : heard'[p] => heard[p],
         Held'.pc = "mark" => Held'.to # "in_breakout",
         \A p \in People : task'[p] = task[p] \/ task'[p].pc = "mark"
  PROVE  ReleaseOK'
  <1>1. Held.pc = "idle" /\ Held.todo = {}
    BY HeldOf
  <1>2. \A p \in People : ToBeMoved(p) => ToBeMoved(p)'
    BY <1>1 DEF ToBeMoved
  <1> QED BY <1>2, ReleaseStays

LEMMA JoinKeeps ==
  ASSUME PresenceInv, NEW p \in People, NEW t \in Tabs, Join(p, t)
  PROVE  PresenceInv'
  <1>1. ShapeOK /\ AbsentOK /\ ReleaseOK /\ GuardFree
    BY DEF PresenceInv, Join
  <1>2. PICK k : k = [NoTask EXCEPT !.op = "join", !.pc = "enter", !.who = p, !.tab = t]
    OBVIOUS
  <1>3. k \in Tasks /\ WorkerOK("guard", k) /\ k.op = "join" /\ k.pc = "enter" /\ k.todo = {}
    BY <1>2, JoinTaskOK
  <1>4. PICK d : d = Dropping(p)
    OBVIOUS
  <1>5. d \in Tasks /\ WorkerOK(p, d) /\ d.op = "drop" /\ d.pc = "mark"
    BY <1>4, DroppingOK
  <1>6. /\ UNCHANGED <<status, match, state, row, due, autoEnd>>
        /\ grace' = [grace EXCEPT ![p] = FALSE] /\ moves < MaxMoves /\ moves' = moves + 1
    BY DEF Join, MoveBy
  <1>7. \/ /\ room' = [room EXCEPT ![p] = room[p] \ {presence[p]}]
           /\ presence' = [presence EXCEPT ![p] = "none"]
           /\ heard' = [heard EXCEPT ![p] = FALSE]
           /\ task' = [task EXCEPT !["guard"] = k, ![p] = d]
        \/ UNCHANGED <<room, presence, heard>> /\ task' = [task EXCEPT !["guard"] = k]
    BY <1>2, <1>4 DEF Join, Begin
  <1>8. /\ task' \in [Workers -> Tasks] /\ \A v \in Workers : WorkerOK(v, task'[v])
        /\ Held' = k /\ \A q \in People \ {p} : task'[q] = task[q]
        /\ task'[p] = task[p] \/ (task'[p] = d /\ heard'[p] = FALSE)
    <2>1. CASE /\ heard' = [heard EXCEPT ![p] = FALSE]
               /\ task' = [task EXCEPT !["guard"] = k, ![p] = d]
      BY <1>1, <1>3, <1>5, <2>1, WorkersApart DEF ShapeOK, TypeOK, Held
    <2>2. CASE task' = [task EXCEPT !["guard"] = k]
      BY <1>1, <1>3, <2>2, GuardGoes
    <2> QED BY <1>7, <2>1, <2>2
  <1>9. /\ room' \in [People -> SUBSET Tabs] /\ presence' \in [People -> Sockets]
        /\ heard' \in [People -> BOOLEAN] /\ grace' \in [People -> BOOLEAN]
        /\ moves' \in 0..MaxMoves
        /\ \A q \in People : heard'[q] => heard[q]
        /\ \A q \in People : heard'[q] /\ presence'[q] = "none" => presence[q] = "none"
        /\ \A q \in People : grace'[q] => grace[q]
    <2>1. moves' \in 0..MaxMoves
      BY <1>1, <1>6, BoundAssumption DEF ShapeOK, TypeOK
    <2>2. "none" \in Sockets
      BY DEF Sockets
    <2>3. room' \in [People -> SUBSET Tabs]
      BY <1>1, <1>6, <1>7 DEF ShapeOK, TypeOK
    <2>4. presence' \in [People -> Sockets]
      BY <1>1, <1>6, <1>7, <2>2 DEF ShapeOK, TypeOK
    <2>5. heard' \in [People -> BOOLEAN] /\ \A q \in People : heard'[q] => heard[q]
      BY <1>1, <1>6, <1>7 DEF ShapeOK, TypeOK
    <2>6. \A q \in People : heard'[q] /\ presence'[q] = "none" => presence[q] = "none"
      BY <1>1, <1>6, <1>7 DEF ShapeOK, TypeOK
    <2>7. grace' \in [People -> BOOLEAN] /\ \A q \in People : grace'[q] => grace[q]
      BY <1>1, <1>6 DEF ShapeOK, TypeOK
    <2> QED BY <2>1, <2>3, <2>4, <2>5, <2>6, <2>7
  <1>10. ShapeOK'
    BY <1>1, <1>6, <1>8, <1>9 DEF ShapeOK, TypeOK
  <1>11. AbsentOK'
    BY <1>1, <1>3, <1>6, <1>8, <1>9 DEF AbsentOK
  <1>12. ReleaseOK'
    BY <1>1, <1>3, <1>5, <1>6, <1>8, <1>9, GuardTakenKeepsRelease
  <1> QED BY <1>10, <1>11, <1>12 DEF PresenceInv

LEMMA LeaveKeeps ==
  ASSUME PresenceInv, NEW p \in People, NEW t \in Tabs, Leave(p, t)
  PROVE  PresenceInv'
  <1>1. ShapeOK /\ AbsentOK /\ ReleaseOK /\ GuardFree
    BY DEF PresenceInv, Leave
  <1>2. PICK k : k = WriteStatus([NoTask EXCEPT !.op = "leave", !.who = p], p, "left", "idle")
    OBVIOUS
  <1>3. /\ k \in Tasks /\ WorkerOK("guard", k)
        /\ k.op = "leave" /\ k.pc = "mark" /\ k.on = p /\ k.to = "left"
    BY <1>2, LeaveTaskOK
  <1>4. /\ UNCHANGED <<status, match, state, row, due, autoEnd>>
        /\ moves < MaxMoves /\ moves' = moves + 1
        /\ room' = [room EXCEPT ![p] = room[p] \ {t}]
        /\ presence' = [presence EXCEPT ![p] = "none"]
        /\ heard' = [heard EXCEPT ![p] = FALSE]
        /\ grace' = grace \/ grace' = [grace EXCEPT ![p] = TRUE]
        /\ task' = [task EXCEPT !["guard"] = k]
    BY <1>2 DEF Leave, MoveBy, Begin, LeaveArms, Armed
  <1>5. /\ task' \in [Workers -> Tasks] /\ \A v \in Workers : WorkerOK(v, task'[v])
        /\ Held' = k /\ \A q \in People : task'[q] = task[q]
    BY <1>1, <1>3, <1>4, GuardGoes
  <1>6. /\ room' \in [People -> SUBSET Tabs] /\ presence' \in [People -> Sockets]
        /\ heard' \in [People -> BOOLEAN] /\ grace' \in [People -> BOOLEAN]
        /\ moves' \in 0..MaxMoves /\ ~heard'[p]
        /\ \A q \in People : heard'[q] => heard[q]
        /\ \A q \in People \ {p} : presence'[q] = presence[q] /\ grace'[q] = grace[q]
    <2>1. moves' \in 0..MaxMoves
      BY <1>1, <1>4, BoundAssumption DEF ShapeOK, TypeOK
    <2>2. "none" \in Sockets
      BY DEF Sockets
    <2> QED BY <1>1, <1>4, <2>1, <2>2 DEF ShapeOK, TypeOK
  <1>7. ShapeOK'
    BY <1>1, <1>4, <1>5, <1>6 DEF ShapeOK, TypeOK
  <1>8. AbsentOK'
    BY <1>1, <1>3, <1>4, <1>5, <1>6 DEF AbsentOK
  <1>9. ReleaseOK'
    BY <1>1, <1>3, <1>4, <1>5, <1>6, GuardTakenKeepsRelease
  <1> QED BY <1>7, <1>8, <1>9 DEF PresenceInv

LEMMA LeaveConversationKeeps ==
  ASSUME PresenceInv, NEW p \in People, LeaveConversation(p)
  PROVE  PresenceInv'
  <1>1. ShapeOK /\ AbsentOK /\ ReleaseOK /\ GuardFree
    BY DEF PresenceInv, LeaveConversation
  <1>2. PICK k : k = [NoTask EXCEPT !.op = "back", !.pc = "demote", !.who = p]
    OBVIOUS
  <1>3. k \in Tasks /\ WorkerOK("guard", k) /\ k.op = "back" /\ k.pc = "demote"
    BY <1>2, BackTaskOK
  <1>4. /\ UNCHANGED <<status, match, room, presence, state, row, grace, due, autoEnd, heard>>
        /\ moves < MaxMoves /\ moves' = moves + 1 /\ task' = [task EXCEPT !["guard"] = k]
    BY <1>2 DEF LeaveConversation, MoveBy, Begin
  <1>5. /\ task' \in [Workers -> Tasks] /\ \A v \in Workers : WorkerOK(v, task'[v])
        /\ Held' = k /\ \A q \in People : task'[q] = task[q]
    BY <1>1, <1>3, <1>4, GuardGoes
  <1>6. moves' \in 0..MaxMoves
    BY <1>1, <1>4, BoundAssumption DEF ShapeOK, TypeOK
  <1>7. ShapeOK'
    BY <1>1, <1>4, <1>5, <1>6 DEF ShapeOK, TypeOK
  <1>8. AbsentOK'
    BY <1>1, <1>3, <1>4, <1>5 DEF AbsentOK
  <1>9. ReleaseOK'
    BY <1>1, <1>3, <1>4, <1>5, GuardTakenKeepsRelease
  <1> QED BY <1>7, <1>8, <1>9 DEF PresenceInv

\* A grace that fired reaches the guard: presence knows nobody who is back.
LEMMA GraceExpiresKeeps ==
  ASSUME PresenceInv, NEW p \in People, GraceExpires(p)
  PROVE  PresenceInv'
  <1>1. ShapeOK /\ AbsentOK /\ ReleaseOK /\ GuardFree /\ due[p]
    BY DEF PresenceInv, GraceExpires
  <1>2. PICK k : k = [NoTask EXCEPT !.op = "grace", !.pc = "demote", !.who = p]
    OBVIOUS
  <1>3. k \in Tasks /\ WorkerOK("guard", k) /\ k.op = "grace" /\ k.pc = "demote" /\ k.who = p
    BY <1>2, GraceTaskOK
  <1>4. /\ UNCHANGED <<status, match, room, presence, state, row, grace, autoEnd, heard, moves>>
        /\ due' = [due EXCEPT ![p] = FALSE]
        /\ task' = task \/ (presence[p] = "none" /\ task' = [task EXCEPT !["guard"] = k])
    BY <1>2 DEF GraceExpires, Begin, CameBack
  <1>5. /\ due' \in [People -> BOOLEAN] /\ \A q \in People : due'[q] => due[q]
    BY <1>1, <1>4 DEF ShapeOK, TypeOK
  <1>6. /\ task' \in [Workers -> Tasks] /\ \A v \in Workers : WorkerOK(v, task'[v])
        /\ Held' = Held \/ (Held' = k /\ presence[p] = "none")
        /\ \A q \in People : task'[q] = task[q]
    <2>1. CASE task' = task
      BY <1>1, <2>1 DEF ShapeOK, TypeOK, Held
    <2>2. CASE presence[p] = "none" /\ task' = [task EXCEPT !["guard"] = k]
      BY <1>1, <1>3, <2>2, GuardGoes
    <2> QED BY <1>4, <2>1, <2>2
  <1>7. ShapeOK'
    BY <1>1, <1>4, <1>5, <1>6 DEF ShapeOK, TypeOK
  <1>8. AbsentOK'
    BY <1>1, <1>3, <1>4, <1>5, <1>6 DEF AbsentOK
  <1>9. ReleaseOK'
    BY <1>1, <1>3, <1>4, <1>6, HeldOf, GuardTakenKeepsRelease
  <1> QED BY <1>7, <1>8, <1>9 DEF PresenceInv

-----------------------------------------------------------------------------
(* What runs beside the guard *)

LEMMA JoiningSocketClosesKeeps ==
  ASSUME PresenceInv, JoiningSocketCloses
  PROVE  PresenceInv'
  <1>1. ShapeOK /\ AbsentOK /\ ReleaseOK /\ Held.pc = "enter"
    BY DEF PresenceInv, JoiningSocketCloses, Held
  <1>2. Held \in Tasks /\ GuardTask(Held)
    BY <1>1, HeldOf
  <1>3. PICK k : k = [Held EXCEPT !.tab = "closed"]
    OBVIOUS
  <1>4. /\ k \in Tasks /\ k.op = Held.op /\ k.who = Held.who /\ k.pc = Held.pc
        /\ k.todo = Held.todo /\ k.tab = "closed"
    BY <1>2, <1>3 DEF Tasks, Sockets
  <1>5. WorkerOK("guard", k)
    <2>1. Held.op = "join"
      BY <1>1, <1>2 DEF GuardTask
    <2> QED BY <1>1, <1>2, <1>4, <2>1, WorkersApart DEF WorkerOK, GuardTask, Writing
  <1>6. /\ UNCHANGED <<status, match, room, presence, state, row, grace, due, autoEnd, heard>>
        /\ moves < MaxMoves /\ moves' = moves + 1 /\ task' = [task EXCEPT !["guard"] = k]
    BY <1>3 DEF JoiningSocketCloses, MoveBy, Held
  <1>7. /\ task' \in [Workers -> Tasks] /\ \A v \in Workers : WorkerOK(v, task'[v])
        /\ Held' = k /\ \A q \in People : task'[q] = task[q]
    BY <1>1, <1>4, <1>5, <1>6, GuardGoes
  <1>8. moves' \in 0..MaxMoves
    BY <1>1, <1>6, BoundAssumption DEF ShapeOK, TypeOK
  <1>9. ShapeOK'
    BY <1>1, <1>6, <1>7, <1>8 DEF ShapeOK, TypeOK
  <1>10. AbsentOK'
    BY <1>1, <1>4, <1>6, <1>7 DEF AbsentOK
  <1>11. ReleaseOK'
    BY <1>1, <1>4, <1>6, <1>7, ReleaseStays DEF ToBeMoved
  <1> QED BY <1>9, <1>10, <1>11 DEF PresenceInv

LEMMA DisconnectKeeps ==
  ASSUME PresenceInv, NEW p \in People, NEW t \in Tabs, Disconnect(p, t)
  PROVE  PresenceInv'
  <1>1. ShapeOK /\ AbsentOK /\ ReleaseOK
    BY DEF PresenceInv
  <1>2. PICK d : d = Dropping(p)
    OBVIOUS
  <1>3. d \in Tasks /\ WorkerOK(p, d) /\ d.op = "drop" /\ d.pc = "mark"
    BY <1>2, DroppingOK
  <1>4. /\ UNCHANGED <<status, match, state, row, grace, due, autoEnd>>
        /\ moves < MaxMoves /\ moves' = moves + 1
        /\ room' = [room EXCEPT ![p] = room[p] \ {t}]
        /\ \/ /\ presence' = [presence EXCEPT ![p] = "none"]
              /\ heard' = [heard EXCEPT ![p] = FALSE]
              /\ task' = [task EXCEPT ![p] = d]
           \/ UNCHANGED <<presence, heard, task>>
    BY <1>2 DEF Disconnect, MoveBy, Begin
  <1>5. /\ task' \in [Workers -> Tasks] /\ \A v \in Workers : WorkerOK(v, task'[v])
        /\ Held' = Held /\ \A q \in People \ {p} : task'[q] = task[q]
        /\ task'[p] = task[p] \/ (task'[p] = d /\ heard'[p] = FALSE)
    <2>1. CASE task' = [task EXCEPT ![p] = d] /\ heard' = [heard EXCEPT ![p] = FALSE]
      BY <1>1, <1>3, <2>1, BeginOf, WorkersApart DEF ShapeOK, TypeOK, Held
    <2>2. CASE task' = task
      BY <1>1, <2>2 DEF ShapeOK, TypeOK, Held
    <2> QED BY <1>4, <2>1, <2>2
  <1>6. /\ room' \in [People -> SUBSET Tabs] /\ presence' \in [People -> Sockets]
        /\ heard' \in [People -> BOOLEAN] /\ moves' \in 0..MaxMoves
        /\ \A q \in People : heard'[q] => heard[q]
        /\ \A q \in People : heard'[q] /\ presence'[q] = "none" => presence[q] = "none"
    <2>1. moves' \in 0..MaxMoves
      BY <1>1, <1>4, BoundAssumption DEF ShapeOK, TypeOK
    <2>2. "none" \in Sockets
      BY DEF Sockets
    <2>3. room' \in [People -> SUBSET Tabs]
      BY <1>1, <1>4 DEF ShapeOK, TypeOK
    <2>4. presence' \in [People -> Sockets]
      BY <1>1, <1>4, <2>2 DEF ShapeOK, TypeOK
    <2>5. heard' \in [People -> BOOLEAN] /\ \A q \in People : heard'[q] => heard[q]
      BY <1>1, <1>4 DEF ShapeOK, TypeOK
    <2>6. \A q \in People : heard'[q] /\ presence'[q] = "none" => presence[q] = "none"
      BY <1>1, <1>4 DEF ShapeOK, TypeOK
    <2> QED BY <2>1, <2>3, <2>4, <2>5, <2>6
  <1>7. ShapeOK'
    BY <1>1, <1>4, <1>5, <1>6 DEF ShapeOK, TypeOK
  <1>8. AbsentOK'
    <2>1. Held.op = "grace" => Held.who \in People
      BY <1>1, HeldOf DEF GuardTask
    <2> QED BY <1>1, <1>4, <1>5, <1>6, <2>1 DEF AbsentOK
  <1>9. ReleaseOK'
    <2>1. \A q \in People : ToBeMoved(q) => ToBeMoved(q)'
      BY <1>3, <1>5 DEF ToBeMoved
    <2>2. Held.pc = "mark" /\ Held.to = "in_breakout" => match.status = "active"
      BY <1>1 DEF ReleaseOK
    <2> QED BY <1>1, <1>4, <1>5, <1>6, <2>1, <2>2, ReleaseStays
  <1> QED BY <1>7, <1>8, <1>9 DEF PresenceInv

LEMMA GraceFiresKeeps ==
  ASSUME PresenceInv, NEW p \in People, GraceFires(p)
  PROVE  PresenceInv'
  <1>1. ShapeOK /\ AbsentOK /\ ReleaseOK /\ grace[p]
    BY DEF PresenceInv, GraceFires
  <1>2. /\ UNCHANGED <<status, match, room, presence, state, row, autoEnd, task, heard, moves>>
        /\ grace' = [grace EXCEPT ![p] = FALSE] /\ due' = [due EXCEPT ![p] = TRUE]
    BY DEF GraceFires
  <1>3. /\ grace' \in [People -> BOOLEAN] /\ due' \in [People -> BOOLEAN]
        /\ \A q \in People : grace'[q] \/ due'[q] => grace[q] \/ due[q]
    BY <1>1, <1>2 DEF ShapeOK, TypeOK
  <1>4. ShapeOK'
    BY <1>1, <1>2, <1>3 DEF ShapeOK, TypeOK
  <1>5. AbsentOK'
    BY <1>1, <1>2, <1>3 DEF AbsentOK, Held
  <1>6. ReleaseOK'
    BY <1>1, <1>2 DEF ReleaseOK, ToBeMoved, Held
  <1> QED BY <1>4, <1>5, <1>6 DEF PresenceInv

\* The drop that arms the grace concerned the same person until now.
LEMMA DropTimerKeeps ==
  ASSUME PresenceInv, NEW p \in People, DropTimer(p)
  PROVE  PresenceInv'
  <1>1. ShapeOK /\ AbsentOK /\ ReleaseOK /\ task[p].pc = "timer"
    BY DEF PresenceInv, DropTimer
  <1>2. /\ UNCHANGED <<status, match, room, presence, state, row, due, autoEnd, heard, moves>>
        /\ grace' = grace \/ grace' = [grace EXCEPT ![p] = TRUE]
        /\ task' = [task EXCEPT ![p] = NoTask]
    BY DEF DropTimer, Done, Armed
  <1>3. task[p].op = "drop"
    <2>1. DropTask(p, task[p])
      BY <1>1, WorkersApart DEF ShapeOK, WorkerOK
    <2> QED BY <1>1, <2>1, NoTaskOK DEF DropTask
  <1>4. /\ task' \in [Workers -> Tasks] /\ \A v \in Workers : WorkerOK(v, task'[v])
        /\ Held' = Held /\ task'[p] = NoTask /\ \A q \in People \ {p} : task'[q] = task[q]
    BY <1>1, <1>2, NoTaskOK, BeginOf, WorkersApart DEF Held
  <1>5. grace' \in [People -> BOOLEAN] /\ \A q \in People \ {p} : grace'[q] = grace[q]
    BY <1>1, <1>2 DEF ShapeOK, TypeOK
  <1>6. ShapeOK'
    BY <1>1, <1>2, <1>4, <1>5 DEF ShapeOK, TypeOK
  <1>7. AbsentOK'
    BY <1>1, <1>2, <1>3, <1>4, <1>5, NoTaskOK DEF AbsentOK
  <1>8. ReleaseOK'
    <2>1. \A q \in People : ToBeMoved(q) => ToBeMoved(q)'
      BY <1>1, <1>4 DEF ToBeMoved
    <2>2. Held.pc = "mark" /\ Held.to = "in_breakout" => match.status = "active"
      BY <1>1 DEF ReleaseOK
    <2> QED BY <1>1, <1>2, <1>4, <2>1, <2>2, ReleaseStays
  <1> QED BY <1>6, <1>7, <1>8 DEF PresenceInv

\* A heartbeat stands for a socket in the room: presence only learns of people.
LEMMA HeartbeatKeeps ==
  ASSUME PresenceInv, NEW p \in People, NEW t \in Tabs, Heartbeat(p, t)
  PROVE  PresenceInv'
  <1>1. ShapeOK /\ AbsentOK /\ ReleaseOK
    BY DEF PresenceInv
  <1>2. /\ UNCHANGED <<status, match, room, state, row, grace, due, autoEnd, task, heard, moves>>
        /\ presence' = [presence EXCEPT ![p] = t]
    BY DEF Heartbeat
  <1>3. t # "none" /\ t \in Sockets
    BY TabsAssumption DEF Sockets
  <1>4. /\ presence' \in [People -> Sockets]
        /\ \A q \in People : presence'[q] = "none" => presence[q] = "none"
    BY <1>1, <1>2, <1>3 DEF ShapeOK, TypeOK
  <1>5. ShapeOK'
    BY <1>1, <1>2, <1>4 DEF ShapeOK, TypeOK
  <1>6. AbsentOK'
    BY <1>1, <1>2, <1>4 DEF AbsentOK, Held
  <1>7. ReleaseOK'
    BY <1>1, <1>2 DEF ReleaseOK, ToBeMoved, Held
  <1> QED BY <1>5, <1>6, <1>7 DEF PresenceInv

\* Presence lapses only of people nothing is under way for.
LEMMA PresenceLapsesKeeps ==
  ASSUME PresenceInv, NEW p \in People, PresenceLapses(p)
  PROVE  PresenceInv'
  <1>1. /\ ShapeOK /\ AbsentOK /\ ReleaseOK
        /\ task[p].op = "none" /\ ~grace[p] /\ ~due[p]
    BY DEF PresenceInv, PresenceLapses
  <1>2. /\ UNCHANGED <<status, match, room, state, row, grace, due, autoEnd, task, heard>>
        /\ presence' = [presence EXCEPT ![p] = "none"]
        /\ moves < MaxMoves /\ moves' = moves + 1
    BY DEF PresenceLapses, MoveBy
  <1>3. moves' \in 0..MaxMoves
    BY <1>1, <1>2, BoundAssumption DEF ShapeOK, TypeOK
  <1>4. /\ presence' \in [People -> Sockets]
        /\ \A q \in People \ {p} : presence'[q] = presence[q]
    BY <1>1, <1>2 DEF ShapeOK, TypeOK, Sockets
  <1>5. ShapeOK'
    BY <1>1, <1>2, <1>3, <1>4 DEF ShapeOK, TypeOK
  <1>6. AbsentOK'
    BY <1>1, <1>2, <1>4 DEF AbsentOK, Held
  <1>7. ReleaseOK'
    BY <1>1, <1>2 DEF ReleaseOK, ToBeMoved, Held
  <1> QED BY <1>5, <1>6, <1>7 DEF PresenceInv

\* Without a place in ReleaseOK, the reconciler's task may change as it will.
LEMMA ReconcilerGoes ==
  ASSUME PresenceInv, NEW k \in Tasks, WorkerOK("reconciler", k),
         task' = [task EXCEPT !["reconciler"] = k],
         UNCHANGED <<status, match, room, state, row, grace, due, autoEnd, heard, moves>>,
         presence' \in [People -> Sockets],
         \A q \in People : presence'[q] = "none" => presence[q] = "none"
  PROVE  PresenceInv'
  <1>1. ShapeOK /\ AbsentOK /\ ReleaseOK
    BY DEF PresenceInv
  <1>2. /\ task' \in [Workers -> Tasks] /\ \A v \in Workers : WorkerOK(v, task'[v])
        /\ Held' = Held /\ \A q \in People : task'[q] = task[q]
    BY <1>1, BeginOf, WorkersApart DEF Held
  <1>3. ShapeOK'
    BY <1>1, <1>2 DEF ShapeOK, TypeOK
  <1>4. AbsentOK'
    BY <1>1, <1>2 DEF AbsentOK
  <1>5. ReleaseOK'
    <2>1. \A q \in People : ToBeMoved(q) => ToBeMoved(q)'
      BY <1>2 DEF ToBeMoved
    <2>2. Held.pc = "mark" /\ Held.to = "in_breakout" => match.status = "active"
      BY <1>1 DEF ReleaseOK
    <2> QED BY <1>1, <1>2, <2>1, <2>2, ReleaseStays
  <1> QED BY <1>3, <1>4, <1>5 DEF PresenceInv

LEMMA EscalateReadKeeps ==
  ASSUME PresenceInv, NEW p \in People, EscalateRead(p)
  PROVE  PresenceInv'
  <1>1. PICK k : k = [NoTask EXCEPT !.op = "escalate", !.pc = "check", !.who = p]
    OBVIOUS
  <1>2. k \in Tasks /\ k.op = "escalate" /\ k.pc = "check" /\ k.who = p
    BY <1>1 DEF NoTask, Tasks, Sockets, ParticipantState
  <1>3. WorkerOK("reconciler", k)
    BY <1>2, WorkersApart DEF WorkerOK, EscalateTask, Writing
  <1>4. task' = [task EXCEPT !["reconciler"] = k]
    BY <1>1 DEF EscalateRead, Begin
  <1>5. UNCHANGED <<status, match, room, presence, state, row, grace, due, autoEnd, heard, moves>>
    BY DEF EscalateRead
  <1>6. presence \in [People -> Sockets]
    BY DEF PresenceInv, ShapeOK, TypeOK
  <1> QED BY <1>2, <1>3, <1>4, <1>5, <1>6, ReconcilerGoes

LEMMA EscalationOf ==
  ASSUME PresenceInv, task["reconciler"].pc \in {"check", "sockets"}
  PROVE  /\ task["reconciler"] \in Tasks /\ task["reconciler"].op = "escalate"
         /\ task["reconciler"].who \in People /\ presence \in [People -> Sockets]
  <1>1. task["reconciler"] \in Tasks /\ EscalateTask(task["reconciler"]) /\ presence \in [People -> Sockets]
    BY WorkersApart DEF PresenceInv, ShapeOK, TypeOK, WorkerOK
  <1> QED BY <1>1, NoTaskOK DEF EscalateTask

LEMMA EscalateCheckKeeps ==
  ASSUME PresenceInv, EscalateCheck
  PROVE  PresenceInv'
  <1> DEFINE r == task["reconciler"]
  <1>1. r \in Tasks /\ r.op = "escalate" /\ r.who \in People /\ presence \in [People -> Sockets]
    BY EscalationOf DEF EscalateCheck
  <1>2. PICK k \in Tasks : WorkerOK("reconciler", k) /\ task' = [task EXCEPT !["reconciler"] = k]
    <2>1. CASE Goto("reconciler", "sockets")
      <3>1. PICK k : k = [r EXCEPT !.pc = "sockets"]
        OBVIOUS
      <3>2. k \in Tasks /\ k.op = "escalate" /\ k.pc = "sockets" /\ k.who \in People
        BY <1>1, <3>1 DEF Tasks
      <3>3. WorkerOK("reconciler", k)
        BY <3>2, WorkersApart DEF WorkerOK, EscalateTask, Writing
      <3> QED BY <2>1, <3>1, <3>2, <3>3 DEF Goto
    <2>2. CASE Done("reconciler")
      BY <2>2, NoTaskOK DEF Done
    <2> QED BY <2>1, <2>2 DEF EscalateCheck
  <1>3. UNCHANGED <<status, match, room, presence, state, row, grace, due, autoEnd, heard, moves>>
    BY DEF EscalateCheck
  <1> QED BY <1>1, <1>2, <1>3, ReconcilerGoes

LEMMA EscalateSocketsKeeps ==
  ASSUME PresenceInv, EscalateSockets
  PROVE  PresenceInv'
  <1> DEFINE r == task["reconciler"]
  <1>1. r \in Tasks /\ r.op = "escalate" /\ r.who \in People /\ presence \in [People -> Sockets]
    BY EscalationOf DEF EscalateSockets
  <1>2. UNCHANGED <<status, match, room, state, row, grace, due, autoEnd, heard, moves>>
    BY DEF EscalateSockets
  <1>3. CASE presence' = [presence EXCEPT ![r.who] = "reconciled"] /\ Done("reconciler")
    <2>1. /\ presence' \in [People -> Sockets]
          /\ \A q \in People : presence'[q] = "none" => presence[q] = "none"
      BY <1>1, <1>3 DEF Sockets
    <2>2. task' = [task EXCEPT !["reconciler"] = NoTask]
      BY <1>3 DEF Done
    <2> QED BY <1>2, <2>1, <2>2, NoTaskOK, ReconcilerGoes
  <1>4. CASE Begin("reconciler", WriteStatus(r, r.who, "left", "idle")) /\ UNCHANGED presence
    <2>1. PICK k : k = WriteStatus(r, r.who, "left", "idle")
      OBVIOUS
    <2>2. "left" \in ParticipantState /\ "idle" \in Thens
      BY DEF ParticipantState, Thens
    <2>3. PICK who : who = r.who
      OBVIOUS
    <2>4. /\ k \in Tasks /\ k.op = "escalate" /\ k.pc = "mark" /\ k.on = who /\ k.to = "left"
          /\ k.then = "idle" /\ k.who = who
      BY <1>1, <2>1, <2>2, <2>3, WriteStatusOf
    <2>5. WorkerOK("reconciler", k)
      BY <1>1, <2>3, <2>4, WorkersApart DEF WorkerOK, EscalateTask, Writing
    <2>6. task' = [task EXCEPT !["reconciler"] = k]
      BY <1>4, <2>1 DEF Begin
    <2> QED BY <1>1, <1>2, <1>4, <2>4, <2>5, <2>6, ReconcilerGoes
  <1> QED BY <1>3, <1>4 DEF EscalateSockets

-----------------------------------------------------------------------------
(* The conversation ends *)

\* Whoever a room that ends held is handed to the loop that moves them, is
\* moved at once, or is the absent one the grace waited for.
LEMMA DemoteKeeps ==
  ASSUME PresenceInv, Demote
  PROVE  PresenceInv'
  <1>1. ShapeOK /\ AbsentOK /\ ReleaseOK /\ Held.pc = "demote"
    BY DEF PresenceInv, Demote, Held
  <1>2. /\ Held \in Tasks /\ Held.op \in {"back", "grace"} /\ Held.who \in People /\ Held.todo = {}
        /\ match \in [slots : SUBSET People, status : {"active", "completed", "cancelled"}]
    BY <1>1, HeldOf DEF GuardTask, Writing, ShapeOK, TypeOK
  <1> DEFINE remaining == IF match.status = "active" THEN match.slots \ {Held.who} ELSE {}
             goesOn == Cardinality(remaining) >= 2
             todo == IF goesOn THEN {} ELSE remaining
  <1>3. /\ UNCHANGED <<status, room, presence, state, row, grace, due, heard, moves>>
        /\ autoEnd' = (autoEnd \/ ~goesOn)
    BY DEF Demote, Held
  <1>4. goesOn => match.status = "active"
    BY FS_EmptySet
  <1>5. /\ match' \in [slots : SUBSET People, status : {"active", "completed", "cancelled"}]
        /\ match'.status = "active" => match.status = "active"
        /\ match'.status # "active" /\ match.status = "active" => ~goesOn /\ match'.slots = match.slots
        /\ match.status # "active" => match' = match
    <2>1. CASE goesOn
      <3>1. match' = [match EXCEPT !.slots = remaining]
        BY <2>1 DEF Demote, Held
      <3>2. remaining \in SUBSET People
        BY <1>2
      <3> HIDE DEF remaining
      <3>3. match'.slots = remaining /\ match'.status = match.status
        BY <1>2, <3>1
      <3>4. match' \in [slots : SUBSET People, status : {"active", "completed", "cancelled"}]
        BY <1>2, <3>1, <3>2
      <3> QED BY <1>4, <2>1, <3>3, <3>4
    <2>2. CASE ~goesOn /\ match.status = "active"
      <3>1. PICK s \in {"completed", "cancelled"} : match' = [match EXCEPT !.status = s]
        BY <2>2 DEF Demote, Held
      <3> HIDE DEF goesOn
      <3> QED BY <1>2, <2>2, <3>1
    <2>3. CASE ~goesOn /\ match.status # "active"
      <3>1. match' = match
        BY <2>3 DEF Demote, Held
      <3> HIDE DEF goesOn
      <3> QED BY <1>2, <2>3, <3>1
    <2> QED BY <2>1, <2>2, <2>3
  <1>6. PICK k \in Tasks :
          /\ WorkerOK("guard", k) /\ task' = [task EXCEPT !["guard"] = k]
          /\ k.op = Held.op /\ k.who = Held.who /\ k.todo = todo
          /\ k.pc = "mark" => k.to = "in_main_room"
          /\ Held.op = "back" => k.pc = "mark" /\ k.on = Held.who
    <2>1. PICK n : n = [Held EXCEPT !.pc = "next", !.todo = IF goesOn THEN {} ELSE remaining]
      OBVIOUS
    <2>2. PICK S : S = todo
      OBVIOUS
    <2>3. S \in SUBSET People
      BY <1>2, <2>2
    <2>4. n = [Held EXCEPT !.pc = "next", !.todo = S]
      BY <2>1, <2>2
    <2>5. /\ n \in Tasks /\ n.op = Held.op /\ n.who = Held.who /\ n.pc = "next" /\ n.todo = S
          /\ n.on = Held.on /\ n.to = Held.to /\ n.then = Held.then /\ n.tab = Held.tab
      BY <1>2, <2>3, <2>4 DEF Tasks
    <2>6. task' = [task EXCEPT !["guard"] =
                     IF Held.op = "back" THEN WriteStatus(n, Held.who, "in_main_room", "next") ELSE n]
      BY <2>1 DEF Demote, Begin, Held
    <2>7. CASE Held.op = "back"
      <3>1. PICK x : x = WriteStatus(n, Held.who, "in_main_room", "next")
        OBVIOUS
      <3>2. "in_main_room" \in ParticipantState /\ "next" \in Thens
        BY DEF ParticipantState, Thens
      <3>3. PICK who : who = Held.who
        OBVIOUS
      <3>4. /\ x \in Tasks /\ x.pc = "mark" /\ x.on = who /\ x.to = "in_main_room"
            /\ x.then = "next" /\ x.op = Held.op /\ x.who = who /\ x.todo = S
        BY <1>2, <2>5, <3>1, <3>2, <3>3, WriteStatusOf
      <3>5. WorkerOK("guard", x)
        BY <1>2, <2>7, <3>3, <3>4, WorkersApart DEF WorkerOK, GuardTask, Writing
      <3>6. task' = [task EXCEPT !["guard"] = x]
        BY <2>6, <2>7, <3>1
      <3> QED BY <2>2, <3>3, <3>4, <3>5, <3>6
    <2>8. CASE Held.op = "grace"
      <3>1. WorkerOK("guard", n)
        BY <1>2, <2>5, <2>8, WorkersApart DEF WorkerOK, GuardTask, Writing
      <3>2. task' = [task EXCEPT !["guard"] = n]
        BY <2>6, <2>8
      <3> QED BY <2>2, <2>5, <2>8, <3>1, <3>2
    <2> QED BY <1>2, <2>7, <2>8
  <1>7. /\ task' \in [Workers -> Tasks] /\ \A v \in Workers : WorkerOK(v, task'[v])
        /\ Held' = k /\ \A p \in People : task'[p] = task[p]
    BY <1>1, <1>6, GuardGoes
  <1>8. ShapeOK'
    <2>1. autoEnd' \in BOOLEAN
      BY <1>1, <1>3 DEF ShapeOK, TypeOK
    <2> QED BY <1>1, <1>3, <1>5, <1>7, <2>1 DEF ShapeOK, TypeOK
  <1>9. AbsentOK'
    BY <1>1, <1>3, <1>6, <1>7 DEF AbsentOK
  <1>10. ReleaseOK'
    <2>1. match'.status = "active" => status' = "round_active"
      BY <1>1, <1>3, <1>5 DEF ReleaseOK
    <2>2. Held'.pc = "mark" => Held'.to # "in_breakout"
      BY <1>6, <1>7
    <2>3. ASSUME NEW p \in match'.slots, match'.status # "active", state'[p] = "in_breakout"
          PROVE  ToBeMoved(p)' \/ (status' = "round_active" /\ ~heard'[p])
      <3>1. p \in People
        BY <1>5, <2>3
      <3>2. CASE match.status # "active"
        <4>1. ToBeMoved(p) \/ (status = "round_active" /\ ~heard[p])
          BY <1>1, <1>3, <1>5, <2>3, <3>2 DEF ReleaseOK
        <4>2. ToBeMoved(p) => ToBeMoved(p)'
          BY <1>1, <1>2, <1>7, <3>1 DEF ToBeMoved
        <4> QED BY <1>3, <4>1, <4>2
      <3>3. CASE match.status = "active" /\ p # Held.who
        <4>1. p \in todo
          BY <1>5, <2>3, <3>3
        <4> QED BY <1>6, <1>7, <4>1 DEF ToBeMoved
      <3>4. CASE match.status = "active" /\ p = Held.who
        <4>1. status = "round_active"
          BY <1>1, <3>4 DEF ReleaseOK
        <4>2. CASE Held.op = "back"
          BY <1>6, <1>7, <3>4, <4>2 DEF ToBeMoved
        <4>3. CASE Held.op = "grace"
          BY <1>1, <1>3, <3>4, <4>1, <4>3 DEF AbsentOK
        <4> QED BY <1>2, <4>2, <4>3
      <3> QED BY <3>2, <3>3, <3>4
    <2> QED BY <2>1, <2>2, <2>3 DEF ReleaseOK
  <1> QED BY <1>8, <1>9, <1>10 DEF PresenceInv

\* The end of the round moves everyone in the row.
LEMMA EndRoundKeeps ==
  ASSUME PresenceInv, GuardFree, EndRound, autoEnd' \in BOOLEAN,
         UNCHANGED <<room, presence, state, row, grace, due, heard, moves>>
  PROVE  PresenceInv'
  <1>1. ShapeOK /\ AbsentOK /\ ReleaseOK
    BY DEF PresenceInv
  <1>2. match \in [slots : SUBSET People, status : {"active", "completed", "cancelled"}]
    BY <1>1 DEF ShapeOK, TypeOK
  <1>3. PICK S : S = match.slots
    OBVIOUS
  <1>4. PICK k : k = [NoTask EXCEPT !.op = "end", !.pc = "next", !.todo = S]
    OBVIOUS
  <1>5. k \in Tasks /\ WorkerOK("guard", k) /\ k.op = "end" /\ k.pc = "next" /\ k.todo = S
    BY <1>2, <1>3, <1>4, EndTaskOK
  <1>6. /\ status' = "round_rating" /\ task' = [task EXCEPT !["guard"] = k]
        /\ match' = IF match.status = "active" THEN [match EXCEPT !.status = "completed"] ELSE match
    BY <1>3, <1>4 DEF EndRound, Begin
  <1>7. /\ match' \in [slots : SUBSET People, status : {"active", "completed", "cancelled"}]
        /\ match'.slots = match.slots /\ match'.status # "active"
    BY <1>2, <1>6
  <1>8. /\ task' \in [Workers -> Tasks] /\ \A v \in Workers : WorkerOK(v, task'[v])
        /\ Held' = k /\ \A q \in People : task'[q] = task[q]
    BY <1>1, <1>5, <1>6, GuardGoes
  <1>9. ShapeOK'
    BY <1>1, <1>6, <1>7, <1>8 DEF ShapeOK, TypeOK
  <1>10. AbsentOK'
    BY <1>1, <1>5, <1>8 DEF AbsentOK
  <1>11. ReleaseOK'
    BY <1>3, <1>5, <1>7, <1>8 DEF ReleaseOK, ToBeMoved
  <1> QED BY <1>9, <1>10, <1>11 DEF PresenceInv

LEMMA RoundEndsKeeps ==
  ASSUME PresenceInv, RoundEnds
  PROVE  PresenceInv'
  <1>1. /\ GuardFree /\ EndRound /\ autoEnd' = autoEnd
        /\ UNCHANGED <<room, presence, state, row, grace, due, heard, moves>>
    BY DEF RoundEnds
  <1>2. autoEnd \in BOOLEAN
    BY DEF PresenceInv, ShapeOK, TypeOK
  <1> QED BY <1>1, <1>2, EndRoundKeeps

LEMMA AutoEndKeeps ==
  ASSUME PresenceInv, maybeAutoEndEmptyRound
  PROVE  PresenceInv'
  <1>1. /\ GuardFree /\ autoEnd' = FALSE
        /\ UNCHANGED <<room, presence, state, row, grace, due, heard, moves>>
        /\ EndRound \/ UNCHANGED <<status, match, task>>
    BY DEF maybeAutoEndEmptyRound
  <1>2. CASE EndRound
    BY <1>1, <1>2, EndRoundKeeps
  <1>3. CASE UNCHANGED <<status, match, task>>
    <2>1. ShapeOK /\ AbsentOK /\ ReleaseOK
      BY DEF PresenceInv
    <2>2. ShapeOK'
      BY <1>1, <1>3, <2>1 DEF ShapeOK, TypeOK
    <2>3. AbsentOK'
      BY <1>1, <1>3, <2>1 DEF AbsentOK, Held
    <2>4. ReleaseOK'
      BY <1>1, <1>3, <2>1 DEF ReleaseOK, ToBeMoved, Held
    <2> QED BY <2>2, <2>3, <2>4 DEF PresenceInv
  <1> QED BY <1>1, <1>2, <1>3

-----------------------------------------------------------------------------
(* Always *)

LEMMA InitHolds == Init => PresenceInv
  <1> SUFFICES ASSUME Init PROVE PresenceInv
    OBVIOUS
  <1>1. FirstTab \in Tabs /\ FirstTab # "none"
    BY TabsAssumption DEF FirstTab
  <1>2. task \in [Workers -> Tasks] /\ \A w \in Workers : task[w] = NoTask /\ WorkerOK(w, task[w])
    BY NoTaskOK DEF Init
  <1>3. TypeOK
    <2>1. /\ status \in {"round_active", "round_rating"} /\ autoEnd \in BOOLEAN
          /\ match \in [slots : SUBSET People, status : {"active", "completed", "cancelled"}]
          /\ grace \in [People -> BOOLEAN] /\ due \in [People -> BOOLEAN] /\ heard \in [People -> BOOLEAN]
      BY DEF Init
    <2>2. room \in [People -> SUBSET Tabs] /\ presence \in [People -> Sockets]
      BY <1>1 DEF Init, Sockets
    <2>3. state \in [People -> ParticipantState] /\ row \in [People -> ParticipantStatus]
      BY DEF Init, ParticipantState, ParticipantStatus
    <2>4. moves \in 0..MaxMoves
      BY BoundAssumption DEF Init
    <2> QED BY <1>2, <2>1, <2>2, <2>3, <2>4 DEF TypeOK
  <1>4. AbsentOK
    BY <1>1, <1>2, NoTaskOK, WorkersApart DEF AbsentOK, Init, Held
  <1>5. ReleaseOK
    BY <1>2, NoTaskOK, WorkersApart DEF ReleaseOK, Init, Held
  <1> QED BY <1>2, <1>3, <1>4, <1>5 DEF PresenceInv, ShapeOK

LEMMA StatusStepKeeps ==
  ASSUME PresenceInv, NEW w \in Workers, StatusStep(w)
  PROVE  PresenceInv'
  BY MarkKeeps, WriteKeeps DEF StatusStep

LEMMA NextHolds == PresenceInv /\ [Next]_vars => PresenceInv'
  <1> SUFFICES ASSUME PresenceInv, [Next]_vars PROVE PresenceInv'
    OBVIOUS
  <1>1. ASSUME NEW p \in People, NEW t \in Tabs,
               Join(p, t) \/ Leave(p, t) \/ Disconnect(p, t) \/ Heartbeat(p, t)
        PROVE  PresenceInv'
    BY <1>1, JoinKeeps, LeaveKeeps, DisconnectKeeps, HeartbeatKeeps
  <1>2. ASSUME NEW p \in People,
               LeaveConversation(p) \/ PresenceLapses(p) \/ GraceFires(p) \/ GraceExpires(p)
        PROVE  PresenceInv'
    BY <1>2, LeaveConversationKeeps, PresenceLapsesKeeps, GraceFiresKeeps, GraceExpiresKeeps
  <1>3. ASSUME NEW p \in People, DropStep(p)
        PROVE  PresenceInv'
    BY <1>3, StatusStepKeeps, DropTimerKeeps, WorkersApart DEF DropStep
  <1>4. CASE GuardStep
    BY <1>4, JoinEntersKeeps, JoinResetKeeps, JoinRestoreKeeps, DemoteKeeps, NextPersonKeeps,
       StatusStepKeeps, WorkersApart DEF GuardStep
  <1>5. CASE ReconcilerStep
    BY <1>5, EscalateCheckKeeps, EscalateSocketsKeeps, StatusStepKeeps, WorkersApart DEF ReconcilerStep
  <1>6. CASE JoiningSocketCloses \/ RoundEnds \/ maybeAutoEndEmptyRound
    BY <1>6, JoiningSocketClosesKeeps, RoundEndsKeeps, AutoEndKeeps
  <1>7. ASSUME NEW p \in People, EscalateRead(p)
        PROVE  PresenceInv'
    BY <1>7, EscalateReadKeeps
  <1>8. CASE UNCHANGED vars
    BY <1>8 DEF PresenceInv, ShapeOK, TypeOK, AbsentOK, ReleaseOK, ToBeMoved, Held, vars
  <1> QED BY <1>1, <1>2, <1>3, <1>4, <1>5, <1>6, <1>7, <1>8 DEF Next

LEMMA Always == Spec => []PresenceInv
  BY InitHolds, NextHolds, PTL DEF Spec

\* The state keeps its type, whatever joins, drops and ends.
THEOREM TypeCorrect == Spec => []TypeOK
  <1>1. PresenceInv => TypeOK
    BY DEF PresenceInv, ShapeOK
  <1> QED BY <1>1, Always, PTL

\* Whoever the row of a conversation that is over still lists, and who came
\* back, is out of it in memory: endRound and demoteParticipantFromMatch move
\* everyone they should, whatever interleaves with their loops.
THEOREM RowIsReleased == Spec => []RowReleased
  <1>1. PresenceInv => RowReleased
    <2> SUFFICES ASSUME PresenceInv, match.status # "active", GuardFree,
                        NEW p \in match.slots, heard[p], task[p].op = "none"
                 PROVE  state[p] # "in_breakout"
      BY DEF RowReleased
    <2>1. ShapeOK /\ ReleaseOK /\ p \in People
      BY DEF PresenceInv, ShapeOK, TypeOK
    <2>2. Held.pc = "idle" /\ Held.todo = {}
      BY <2>1, HeldOf
    <2>3. task[p].pc # "mark"
      <3>1. DropTask(p, task[p])
        BY <2>1, WorkersApart DEF ShapeOK, WorkerOK
      <3> QED BY <3>1, NoTaskOK DEF DropTask
    <2> QED BY <2>1, <2>2, <2>3 DEF ReleaseOK, ToBeMoved
  <1> QED BY <1>1, Always, PTL

\* A pair's conversation ends as a whole: its row lists both to the end.
LEMMA PairStaysWhole ==
  ASSUME Cardinality(People) = 2
  PROVE  Spec => [](match.slots = People)
  <1>1. Init => match.slots = People
    BY DEF Init
  <1>2. PresenceInv /\ match.slots = People /\ [Next]_vars => (match.slots = People)'
    <2> SUFFICES ASSUME PresenceInv, match.slots = People, [Next]_vars PROVE match'.slots = People
      OBVIOUS
    <2>1. match \in [slots : SUBSET People, status : {"active", "completed", "cancelled"}]
      BY DEF PresenceInv, ShapeOK, TypeOK
    <2>2. CASE Demote /\ GuardTask(Held)
      <3>1. Held.who \in People
        BY <2>2 DEF Demote, GuardTask, Held
      <3>2. Cardinality(People \ {Held.who}) = 1
        <4>1. IsFiniteSet(People)
          BY PeopleAssumption
        <4>2. Cardinality(People \ {Held.who}) = Cardinality(People) - 1
          BY <3>1, <4>1, FS_RemoveElement
        <4> QED BY <4>2
      <3>3. Cardinality({}) = 0
        BY FS_EmptySet
      <3> DEFINE remaining == IF match.status = "active" THEN match.slots \ {Held.who} ELSE {}
      <3>4. ~(Cardinality(remaining) >= 2)
        BY <3>2, <3>3
      <3>5. match' = match \/ \E s \in {"completed", "cancelled"} : match' = [match EXCEPT !.status = s]
        BY <2>2, <3>4 DEF Demote, Held
      <3> QED BY <2>1, <3>5
    <2>3. CASE EndRound
      BY <2>1, <2>3 DEF EndRound
    <2>4. match' = match \/ Demote \/ EndRound
      BY DEF Next, Join, Leave, Disconnect, Heartbeat, LeaveConversation, PresenceLapses, DropStep,
             GraceFires, GraceExpires, JoiningSocketCloses, RoundEnds, maybeAutoEndEmptyRound,
             GuardStep, JoinEnters, JoinReset, JoinRestore, NextPerson, EscalateRead, ReconcilerStep,
             EscalateCheck, EscalateSockets, StatusStep, Mark, Write, DropTimer, vars
    <2>5. GuardTask(Held)
      BY HeldOf DEF PresenceInv
    <2> QED BY <2>2, <2>3, <2>4, <2>5
  <1> QED BY <1>1, <1>2, Always, PTL DEF Spec

\* Two people who talked are both free again once it is over: whoever came back
\* and has no drop under way can be matched again.  Of three it does not hold:
\* the row forgets who was taken from a trio that went on.
THEOREM PairReleased ==
  ASSUME Cardinality(People) = 2
  PROVE  Spec => []NobodyStranded
  <1>1. match.slots = People /\ RowReleased => NobodyStranded
    BY DEF RowReleased, NobodyStranded
  <1> QED BY <1>1, PairStaysWhole, RowIsReleased, PTL

\* A grace ends the conversation of nobody who joined again since they dropped.
THEOREM GraceForAbsent == Spec => GraceEndsOnlyForAbsent
  <1>1. PresenceInv => (match' # match /\ task["guard"].op = "grace" => ~heard[task["guard"].who])
    BY DEF PresenceInv, AbsentOK, Held
  <1> QED BY <1>1, Always, PTL DEF GraceEndsOnlyForAbsent
=============================================================================
