---------------------------- MODULE SessionLocks ----------------------------
(***************************************************************************)
(* The two promise locks of one event, and the repairs of the plan that    *)
(* queue behind one of them.                                               *)
(*                                                                         *)
(* withSessionGuard and withMatchGenerationLock are the same loop: while   *)
(* the map holds a promise, await it; then put a promise of one's own,     *)
(* run, delete it and resolve it.  Everyone who awaited that promise is    *)
(* resumed, in order, and looks again; a call that a continuation already  *)
(* queued makes in between finds the map empty and overtakes them.         *)
(*                                                                         *)
(* A join or a leave changes who is to be paired and starts, without       *)
(* awaiting it, a repair of the rounds to come; at most one per 5 s, and   *)
(* one more when a throttled window closes.                                *)
(***************************************************************************)
EXTENDS Naturals, Sequences

CONSTANTS
  Callers,    \* the tasks of hosts, participants and timers
  Repairs,    \* the tasks a repair runs in
  MaxCalls,   \* bound: calls of the callers
  MaxRoster   \* bound: joins and leaves

ASSUME TasksAssumption ==
  Callers \cap Repairs = {} /\ "nobody" \notin Callers \cup Repairs
ASSUME BoundsAssumption == MaxCalls \in Nat /\ MaxRoster \in Nat

VARIABLES
  holder,     \* whose promise each map holds
  waiters,    \* who awaits it, in order
  ready,      \* the microtask queue: who is resumed next
  call,       \* what each task is doing, and how many of its locks it holds
  calls,      \* calls made so far
  roster,     \* how many times the participants have changed
  planned,    \* the change the rounds to come were last planned for
  failed,     \* history: the last change a repair counted and failed to plan for
  throttle    \* the 5 s window, and the repair that waits for its end

vars == <<holder, waiters, ready, call, calls, roster, planned, failed, throttle>>

Tasks == Callers \cup Repairs
Locks == {"guard", "gen"}
Nobody == "nobody"
Kinds == {"handler", "generate", "confirm", "repair"}
Calls ==
  [kind : Kinds, pc : {"idle", "waiting", "running", "leaving"}, held : 0..2,
   seen : 0..MaxRoster]
NoCall == [kind |-> "handler", pc |-> "idle", held |-> 0, seen |-> 0]

\* The locks of a call, outermost first.  Handlers of hosts and participants
\* and timer callbacks take the guard, matching takes the generation lock, and
\* Confirm is the one site that takes both.
NeedsAwaitingRepair(kind) ==
  CASE kind = "handler" -> <<"guard", "gen">>
    [] kind = "confirm" -> <<"gen", "guard">>
    [] OTHER -> <<"gen">>
Needs(kind) ==
  CASE kind = "handler" -> <<"guard">>
    [] kind = "confirm" -> <<"gen", "guard">>
    [] OTHER -> <<"gen">>

TypeOK ==
  /\ holder \in [Locks -> Tasks \cup {Nobody}]
  /\ waiters \in [Locks -> Seq(Tasks)]
  /\ ready \in Seq(Tasks)
  /\ call \in [Tasks -> Calls]
  /\ calls \in 0..MaxCalls
  /\ roster \in 0..MaxRoster
  /\ planned \in 0..MaxRoster /\ failed \in 0..MaxRoster
  /\ throttle \in [shut : BOOLEAN, trailing : {"none", "armed", "due"}]

-----------------------------------------------------------------------------
(* The loop *)

Wanted(k) == Needs(k.kind)[k.held + 1]

\* One look at the map, by a task that is called or resumed.
WaitsOnce(l, resumed) == holder[l] # Nobody /\ ~resumed
Waits(l, resumed) == holder[l] # Nobody

Look(c, k, resumed) ==
  LET l == Wanted(k) IN
  IF Waits(l, resumed)
  THEN /\ waiters' = [waiters EXCEPT ![l] = Append(@, c)]
       /\ call' = [call EXCEPT ![c] = [k EXCEPT !.pc = "waiting"]]
       /\ UNCHANGED holder
  ELSE /\ holder' = [holder EXCEPT ![l] = c]
       /\ call' = [call EXCEPT ![c] = [k EXCEPT !.pc = "running", !.held = @ + 1]]
       /\ UNCHANGED waiters

Call(c, kind) ==
  /\ calls < MaxCalls
  /\ call[c].pc = "idle"
  /\ calls' = calls + 1
  /\ Look(c, [NoCall EXCEPT !.kind = kind], FALSE)
  /\ UNCHANGED <<ready, roster, planned, failed, throttle>>

Resume ==
  /\ ready # <<>>
  /\ ready' = Tail(ready)
  /\ Look(Head(ready), call[Head(ready)], TRUE)
  /\ UNCHANGED <<calls, roster, planned, failed, throttle>>

\* Inside the first of its locks Confirm asks for the second.
TakeInner(c) ==
  /\ call[c].pc = "running" /\ call[c].held < Len(Needs(call[c].kind))
  /\ Look(c, call[c], FALSE)
  /\ UNCHANGED <<ready, calls, roster, planned, failed, throttle>>

\* It runs to its end inside all of them, and gives them back from the inside out.
Innermost(c) == Needs(call[c].kind)[call[c].held]
Released(k) == IF k.held = 1 THEN NoCall ELSE [k EXCEPT !.pc = "leaving", !.held = @ - 1]

Release(c) ==
  LET l == Innermost(c) IN
  /\ \/ call[c].pc = "leaving"
     \/ call[c].pc = "running" /\ call[c].kind # "repair" /\ call[c].held = Len(Needs(call[c].kind))
  /\ holder' = [holder EXCEPT ![l] = Nobody]
  /\ waiters' = [waiters EXCEPT ![l] = <<>>]
  /\ ready' = ready \o waiters[l]
  /\ call' = [call EXCEPT ![c] = Released(@)]
  /\ planned' = IF call[c].kind = "repair" THEN call[c].seen ELSE planned
  /\ UNCHANGED <<calls, roster, failed, throttle>>

-----------------------------------------------------------------------------
(* maybeRepairFutureRounds and runRepair *)

\* A repair reads who is present inside the lock.
Started == [NoCall EXCEPT !.kind = "repair"]
BeforeLock(c) == call[c].seen
InsideLock(c) == roster

RunRepair(c, changed) ==
  /\ call[c].pc = "idle"
  /\ Look(c, [Started EXCEPT !.seen = changed], FALSE)

ReadRoster(c) ==
  /\ call[c].kind = "repair" /\ call[c].pc = "running"
  /\ call' = [call EXCEPT ![c].pc = "leaving", ![c].seen = InsideLock(c)]
  /\ UNCHANGED <<holder, waiters, ready, calls, roster, planned, failed, throttle>>

\* A repair that fails is logged and not tried again; the plan stays what it was.
RepairFails(c) ==
  /\ call[c].kind = "repair" /\ call[c].pc = "running"
  /\ call' = [call EXCEPT ![c].pc = "leaving", ![c].seen = planned]
  /\ failed' = InsideLock(c)
  /\ UNCHANGED <<holder, waiters, ready, calls, roster, planned, throttle>>

\* Throttled: one repair is left for the end of the window.
Dropped(t) == t
Throttled(t) == IF t.trailing = "none" THEN [t EXCEPT !.trailing = "armed"] ELSE t

\* A join or a leave, inside its guard.
ChangeRoster(c) ==
  /\ call[c].kind = "handler" /\ call[c].pc = "running"
  /\ roster < MaxRoster
  /\ roster' = roster + 1
  /\ IF throttle.shut
     THEN throttle' = Throttled(throttle) /\ UNCHANGED <<holder, waiters, call>>
     ELSE /\ throttle' = [throttle EXCEPT !.shut = TRUE]
          /\ \E r \in Repairs : RunRepair(r, roster')
  /\ UNCHANGED <<ready, calls, planned, failed>>

WindowOpens ==
  /\ throttle.shut
  /\ throttle' = [shut |-> FALSE,
                  trailing |-> IF throttle.trailing = "armed" THEN "due" ELSE throttle.trailing]
  /\ UNCHANGED <<holder, waiters, ready, call, calls, roster, planned, failed>>

TrailingRepair ==
  /\ throttle.trailing = "due"
  /\ throttle' = [throttle EXCEPT !.trailing = "none"]
  /\ \E r \in Repairs : RunRepair(r, roster)
  /\ UNCHANGED <<ready, calls, roster, planned, failed>>

-----------------------------------------------------------------------------
TaskStep(c) == TakeInner(c) \/ ReadRoster(c) \/ RepairFails(c) \/ Release(c)

Next ==
  \/ \E c \in Callers, kind \in {"handler", "generate", "confirm"} : Call(c, kind)
  \/ \E c \in Callers : ChangeRoster(c)
  \/ \E c \in Tasks : TaskStep(c)
  \/ Resume \/ WindowOpens \/ TrailingRepair

Init ==
  /\ holder = [l \in Locks |-> Nobody]
  /\ waiters = [l \in Locks |-> <<>>]
  /\ ready = <<>>
  /\ call = [c \in Tasks |-> NoCall]
  /\ calls = 0
  /\ roster = 0 /\ planned = 0 /\ failed = 0
  /\ throttle = [shut |-> FALSE, trailing |-> "none"]

Spec == Init /\ [][Next]_vars

\* Microtasks are run, handlers end, timers fire; nobody is obliged to call.
LockFairness ==
  /\ WF_vars(Resume) /\ WF_vars(WindowOpens) /\ WF_vars(TrailingRepair)
  /\ \A c \in Tasks : WF_vars(TaskStep(c))

-----------------------------------------------------------------------------
(* Properties *)

Holds(k, l) == \E i \in 1..k.held : Needs(k.kind)[i] = l
Inside(c, l) == Holds(call[c], l)

\* Two tasks never run inside the same lock, whoever is resumed or overtakes.
MutualExclusion ==
  \A l \in Locks, c, d \in Tasks : Inside(c, l) /\ Inside(d, l) => c = d

\* Everyone who waits gets in: no pair of locks is taken in both orders, and no
\* resumption is lost.
Served == \A c \in Tasks : (call[c].pc = "waiting") ~> (call[c].pc # "waiting")

\* Every join and leave, throttled or not, is planned for in the end, unless a
\* repair that counted it failed: none is lost to the throttle or the queue.
RosterIsPlanned == \A n \in 1..MaxRoster : (roster >= n) ~> (planned >= n \/ failed >= n)

\* A repair that was overtaken in the queue does not plan for an older roster.
PlanNeverGoesBack == [][planned' >= planned]_planned
=============================================================================
