-------------------------- MODULE SessionLocksProofs --------------------------
(***************************************************************************)
(* That the two loops of session-state.ts are locks, for any number of     *)
(* tasks, calls and repairs, and that the repairs plan in order.           *)
(*                                                                         *)
(* MutualExclusion alone is not inductive: a task that was resumed twice   *)
(* would take a lock it did not ask for.  The invariant says that the      *)
(* queues hold each waiting task once, and nobody else.                    *)
(***************************************************************************)
EXTENDS SessionLocks, TLAPS, SequenceTheorems

Elems(s) == {s[i] : i \in 1..Len(s)}
Distinct(s) == \A i, j \in 1..Len(s) : s[i] = s[j] => i = j

\* Who is about to be resumed, and who awaits a promise.
Queued == Elems(ready) \cup Elems(waiters["guard"]) \cup Elems(waiters["gen"])

QueuesOK ==
  /\ ready \in Seq(Tasks) /\ Distinct(ready)
  /\ waiters \in [Locks -> Seq(Tasks)]
  /\ \A l \in Locks : Distinct(waiters[l]) /\ Elems(ready) \cap Elems(waiters[l]) = {}
  /\ Elems(waiters["guard"]) \cap Elems(waiters["gen"]) = {}

CallOK(k) ==
  /\ k.held <= Len(Needs(k.kind))
  /\ k.pc \in {"running", "leaving"} => k.held >= 1
  /\ k.pc = "idle" => k.held = 0
  /\ k.pc = "waiting" => k.held < Len(Needs(k.kind))
CallsOK == call \in [Tasks -> Calls] /\ \A c \in Tasks : CallOK(call[c])

WaitingOnly == \A c \in Queued : call[c].pc = "waiting"

HoldersOK ==
  /\ holder \in [Locks -> Tasks \cup {Nobody}]
  /\ \A l \in Locks, c \in Tasks : Inside(c, l) => holder[l] = c

IInv == QueuesOK /\ CallsOK /\ WaitingOnly /\ HoldersOK

PlanOK ==
  /\ calls \in 0..MaxCalls /\ roster \in 0..MaxRoster /\ planned \in 0..MaxRoster /\ failed \in 0..MaxRoster
  /\ throttle \in [shut : BOOLEAN, trailing : {"none", "armed", "due"}]

-----------------------------------------------------------------------------
(* Sequences without repetitions *)

\* Appending someone new keeps a queue free of repetitions.
LEMMA AppendQueue ==
  ASSUME NEW T, NEW s \in Seq(T), NEW x \in T, Distinct(s), x \notin Elems(s)
  PROVE  /\ Append(s, x) \in Seq(T)
         /\ Distinct(Append(s, x))
         /\ Elems(Append(s, x)) = Elems(s) \cup {x}
  <1>1. /\ Append(s, x) \in Seq(T)
        /\ Len(Append(s, x)) = Len(s) + 1
        /\ \A i \in 1..Len(s) : Append(s, x)[i] = s[i]
        /\ Append(s, x)[Len(s) + 1] = x
    BY AppendProperties
  <1>2. Len(s) \in Nat
    OBVIOUS
  <1>3. Distinct(Append(s, x))
    BY <1>1, <1>2 DEF Distinct, Elems
  <1>4. Elems(Append(s, x)) = Elems(s) \cup {x}
    <2>1. 1..(Len(s) + 1) = 1..Len(s) \cup {Len(s) + 1}
      BY <1>2
    <2> QED BY <1>1, <2>1 DEF Elems
  <1> QED BY <1>1, <1>3, <1>4

\* So does joining two queues that share nobody.
LEMMA ConcatQueues ==
  ASSUME NEW T, NEW s \in Seq(T), NEW t \in Seq(T), Distinct(s), Distinct(t),
         Elems(s) \cap Elems(t) = {}
  PROVE  /\ s \o t \in Seq(T)
         /\ Distinct(s \o t)
         /\ Elems(s \o t) = Elems(s) \cup Elems(t)
  <1>1. /\ s \o t \in Seq(T)
        /\ Len(s \o t) = Len(s) + Len(t)
        /\ \A i \in 1..(Len(s) + Len(t)) :
             (s \o t)[i] = IF i <= Len(s) THEN s[i] ELSE t[i - Len(s)]
    BY ConcatProperties
  <1>2. Len(s) \in Nat /\ Len(t) \in Nat
    OBVIOUS
  <1>3. \A i \in 1..Len(s) : i \in 1..(Len(s) + Len(t)) /\ (s \o t)[i] = s[i]
    BY <1>1, <1>2
  <1>4. \A i \in 1..Len(t) :
          Len(s) + i \in 1..(Len(s) + Len(t)) /\ (s \o t)[Len(s) + i] = t[i]
    <2> TAKE i \in 1..Len(t)
    <2>1. Len(s) + i \in 1..(Len(s) + Len(t)) /\ ~(Len(s) + i <= Len(s)) /\ (Len(s) + i) - Len(s) = i
      BY <1>2
    <2> QED BY <1>1, <2>1
  <1>5. \A i \in 1..(Len(s) + Len(t)) : i \in 1..Len(s) \/ \E j \in 1..Len(t) : i = Len(s) + j
    <2> TAKE i \in 1..(Len(s) + Len(t))
    <2>1. i > Len(s) => i - Len(s) \in 1..Len(t) /\ i = Len(s) + (i - Len(s))
      BY <1>2
    <2>2. CASE i > Len(s)
      <3>1. i - Len(s) \in 1..Len(t) /\ i = Len(s) + (i - Len(s))
        BY <2>1, <2>2
      <3> QED BY <3>1, Zenon
    <2>3. CASE ~(i > Len(s))
      BY <1>2, <2>3
    <2> QED BY <2>2, <2>3
  <1>6. Distinct(s \o t)
    <2> SUFFICES ASSUME NEW i \in 1..(Len(s) + Len(t)), NEW j \in 1..(Len(s) + Len(t)),
                        (s \o t)[i] = (s \o t)[j]
                 PROVE  i = j
      BY <1>1 DEF Distinct
    <2>1. CASE i \in 1..Len(s) /\ j \in 1..Len(s)
      BY <1>3, <2>1 DEF Distinct
    <2>2. ASSUME NEW k \in 1..Len(t), NEW m \in 1..Len(t), i = Len(s) + k, j = Len(s) + m
          PROVE  i = j
      <3>1. t[k] = t[m]
        BY <1>4, <2>2
      <3> QED BY <2>2, <3>1 DEF Distinct
    <2>3. \A k \in 1..Len(s), m \in 1..Len(t) : (s \o t)[k] # (s \o t)[Len(s) + m]
      <3>1. \A k \in 1..Len(s), m \in 1..Len(t) : s[k] # t[m]
        BY DEF Elems
      <3> QED BY <1>3, <1>4, <3>1
    <2>5. CASE i \in 1..Len(s)
      <3>1. CASE j \notin 1..Len(s)
        <4>1. PICK m \in 1..Len(t) : j = Len(s) + m
          BY <1>5, <3>1
        <4> QED BY <2>3, <2>5, <4>1
      <3> QED BY <2>1, <2>5, <3>1
    <2>6. CASE i \notin 1..Len(s)
      <3>1. PICK k \in 1..Len(t) : i = Len(s) + k
        BY <1>5, <2>6
      <3>2. CASE j \in 1..Len(s)
        BY <2>3, <3>1, <3>2
      <3>3. CASE j \notin 1..Len(s)
        <4>1. PICK m \in 1..Len(t) : j = Len(s) + m
          BY <1>5, <3>3
        <4> QED BY <2>2, <3>1, <4>1
      <3> QED BY <3>2, <3>3
    <2> QED BY <2>5, <2>6
  <1>7. Elems(s \o t) = Elems(s) \cup Elems(t)
    <2>1. ASSUME NEW i \in 1..(Len(s) + Len(t)) PROVE (s \o t)[i] \in Elems(s) \cup Elems(t)
      BY <1>3, <1>4, <1>5 DEF Elems
    <2>2. ASSUME NEW i \in 1..Len(s) PROVE s[i] \in Elems(s \o t)
      BY <1>1, <1>3 DEF Elems
    <2>3. ASSUME NEW i \in 1..Len(t) PROVE t[i] \in Elems(s \o t)
      BY <1>1, <1>4 DEF Elems
    <2> QED BY <1>1, <2>1, <2>2, <2>3 DEF Elems
  <1> QED BY <1>1, <1>6, <1>7

\* The head of a queue is not in its tail.
LEMMA TailQueue ==
  ASSUME NEW T, NEW s \in Seq(T), Distinct(s), s # <<>>
  PROVE  /\ Head(s) \in T /\ Head(s) \in Elems(s)
         /\ Tail(s) \in Seq(T)
         /\ Distinct(Tail(s))
         /\ Elems(Tail(s)) = Elems(s) \ {Head(s)}
  <1>1. /\ Len(s) \in Nat \ {0} /\ Head(s) = s[1] /\ Head(s) \in T
        /\ Tail(s) \in Seq(T) /\ Len(Tail(s)) = Len(s) - 1
        /\ \A i \in 1..(Len(s) - 1) : Tail(s)[i] = s[i + 1]
    BY HeadTailProperties, EmptySeq
  <1>2. \A i \in 1..(Len(s) - 1) : i + 1 \in 1..Len(s) /\ i + 1 # 1
    BY <1>1
  <1>3. \A i \in 1..Len(s) : i = 1 \/ (i - 1 \in 1..(Len(s) - 1) /\ i = (i - 1) + 1)
    BY <1>1
  <1>4. 1 \in 1..Len(s)
    BY <1>1
  <1>5. Distinct(Tail(s))
    BY <1>1, <1>2 DEF Distinct
  <1>6. Elems(Tail(s)) = Elems(s) \ {Head(s)}
    BY <1>1, <1>2, <1>3, <1>4 DEF Elems, Distinct
  <1> QED BY <1>1, <1>4, <1>5, <1>6 DEF Elems
-----------------------------------------------------------------------------
(* The locks of a call *)

\* A call needs one or two locks, and never the same one twice.
LEMMA NeedsType ==
  ASSUME NEW kind \in Kinds
  PROVE  /\ Len(Needs(kind)) \in {1, 2}
         /\ \A i \in 1..Len(Needs(kind)) : Needs(kind)[i] \in Locks
         /\ \A i, j \in 1..Len(Needs(kind)) : Needs(kind)[i] = Needs(kind)[j] => i = j
  BY DEF Needs, Kinds, Locks

\* One look at the map, by a task that stands in no queue, keeps the invariant.
LEMMA LookKeeps ==
  ASSUME IInv, NEW c \in Tasks, NEW k \in Calls, NEW resumed,
         k.held < Len(Needs(k.kind)), \A l \in Locks : Holds(k, l) <=> Inside(c, l),
         ready' \in Seq(Tasks), Distinct(ready'), Elems(ready') \subseteq Elems(ready) \ {c},
         c \notin Elems(waiters["guard"]) \cup Elems(waiters["gen"]),
         Look(c, k, resumed)
  PROVE  IInv'
  <1> DEFINE l == Wanted(k)
  <1>1. k.kind \in Kinds /\ k.held \in 0..2 /\ k.held + 1 \in 1..Len(Needs(k.kind))
    BY NeedsType DEF Calls
  <1>2. l \in Locks
    BY <1>1, NeedsType DEF Wanted
  <1> HIDE DEF l
  <1>3. CASE Waits(l, resumed)
    <2>1. /\ waiters' = [waiters EXCEPT ![l] = Append(@, c)]
          /\ call' = [call EXCEPT ![c] = [k EXCEPT !.pc = "waiting"]]
          /\ holder' = holder
      BY <1>3 DEF Look, l
    <2>2. waiters[l] \in Seq(Tasks) /\ Distinct(waiters[l]) /\ c \notin Elems(waiters[l])
      BY <1>2 DEF IInv, QueuesOK, Locks
    <2>3. /\ waiters'[l] \in Seq(Tasks) /\ Distinct(waiters'[l])
          /\ Elems(waiters'[l]) = Elems(waiters[l]) \cup {c}
      BY <1>2, <2>1, <2>2, AppendQueue DEF IInv, QueuesOK
    <2>4. \A m \in Locks \ {l} : waiters'[m] = waiters[m]
      BY <2>1 DEF IInv, QueuesOK
    <2>5. QueuesOK'
      BY <1>2, <2>1, <2>2, <2>3, <2>4 DEF IInv, QueuesOK, Locks
    <2>6. CallsOK'
      <3>1. [k EXCEPT !.pc = "waiting"] \in Calls
        BY DEF Calls
      <3>2. call'[c] = [k EXCEPT !.pc = "waiting"] /\ \A d \in Tasks \ {c} : call'[d] = call[d]
        BY <2>1 DEF IInv, CallsOK
      <3>3. call'[c].pc = "waiting" /\ call'[c].held = k.held /\ call'[c].kind = k.kind
        BY <3>2 DEF Calls
      <3>4. call' \in [Tasks -> Calls]
        BY <2>1, <3>1 DEF IInv, CallsOK
      <3>5. CallOK(call'[c])
        BY <1>1, <3>3, NeedsType DEF CallOK
      <3> QED BY <3>2, <3>4, <3>5 DEF IInv, CallsOK
    <2>7. WaitingOnly'
      <3>1. Queued' \subseteq Queued \cup {c}
        BY <1>2, <2>3, <2>4 DEF Queued, Locks
      <3>2. Queued \subseteq Tasks
        BY DEF IInv, QueuesOK, Queued, Elems, Locks
      <3>3. call'[c].pc = "waiting" /\ \A d \in Tasks \ {c} : call'[d] = call[d]
        BY <2>1 DEF IInv, CallsOK, Calls
      <3> QED BY <3>1, <3>2, <3>3 DEF IInv, WaitingOnly
    <2>8. HoldersOK'
      <3>1. \A m \in Locks : Inside(c, m)' <=> Inside(c, m)
        BY <2>1 DEF IInv, CallsOK, Calls, Inside, Holds
      <3>2. \A d \in Tasks \ {c}, m \in Locks : Inside(d, m)' <=> Inside(d, m)
        BY <2>1 DEF IInv, CallsOK, Inside, Holds
      <3> QED BY <2>1, <3>1, <3>2 DEF IInv, HoldersOK
    <2> QED BY <2>5, <2>6, <2>7, <2>8 DEF IInv
  <1>4. CASE ~Waits(l, resumed)
    <2>1. /\ holder' = [holder EXCEPT ![l] = c]
          /\ call' = [call EXCEPT ![c] = [k EXCEPT !.pc = "running", !.held = @ + 1]]
          /\ waiters' = waiters
          /\ holder[l] = Nobody
      BY <1>4 DEF Look, l, Waits
    <2>2. QueuesOK'
      BY <2>1 DEF IInv, QueuesOK, Locks
    <2>3. CallsOK'
      <3>1. k.held + 1 \in 0..2
        BY <1>1, NeedsType
      <3>2. [k EXCEPT !.pc = "running", !.held = @ + 1] \in Calls
        BY <3>1 DEF Calls
      <3>3. /\ call'[c] = [k EXCEPT !.pc = "running", !.held = @ + 1]
            /\ \A d \in Tasks \ {c} : call'[d] = call[d]
        BY <2>1 DEF IInv, CallsOK
      <3>4. call'[c].pc = "running" /\ call'[c].held = k.held + 1 /\ call'[c].kind = k.kind
        BY <3>3 DEF Calls
      <3>5. call' \in [Tasks -> Calls]
        BY <2>1, <3>2 DEF IInv, CallsOK
      <3>6. CallOK(call'[c])
        BY <1>1, <3>4 DEF CallOK
      <3> QED BY <3>3, <3>5, <3>6 DEF IInv, CallsOK
    <2>4. WaitingOnly'
      <3>1. Queued' \subseteq Queued \ {c}
        BY <2>1 DEF IInv, QueuesOK, Queued
      <3>2. Queued \subseteq Tasks
        BY DEF IInv, QueuesOK, Queued, Elems, Locks
      <3> QED BY <2>1, <3>1, <3>2 DEF IInv, WaitingOnly, CallsOK
    <2>5. HoldersOK'
      <3>1. \A m \in Locks : Inside(c, m)' => Inside(c, m) \/ m = l
        <4> TAKE m \in Locks
        <4>1. call'[c].held = k.held + 1 /\ call'[c].kind = k.kind
          BY <2>1 DEF IInv, CallsOK, Calls
        <4>2. \A i \in 1..(k.held + 1) : i \in 1..k.held \/ i = k.held + 1
          BY <1>1
        <4>3. Needs(k.kind)[k.held + 1] = l
          BY DEF l, Wanted
        <4> QED BY <4>1, <4>2, <4>3 DEF Inside, Holds
      <3>2. \A d \in Tasks \ {c}, m \in Locks : Inside(d, m)' <=> Inside(d, m)
        BY <2>1 DEF IInv, CallsOK, Inside, Holds
      <3>3. \A d \in Tasks : ~Inside(d, l)
        BY <1>2, <2>1, TasksAssumption DEF IInv, HoldersOK, Nobody, Tasks
      <3> QED BY <1>2, <2>1, <3>1, <3>2, <3>3 DEF IInv, HoldersOK
    <2> QED BY <2>2, <2>3, <2>4, <2>5 DEF IInv
  <1> QED BY <1>3, <1>4

-----------------------------------------------------------------------------
(* Each action *)

\* Only who waits stands in a queue.
LEMMA OthersNotQueued ==
  ASSUME IInv, NEW c \in Tasks, call[c].pc # "waiting"
  PROVE  c \notin Elems(ready) \cup Elems(waiters["guard"]) \cup Elems(waiters["gen"])
  BY DEF IInv, WaitingOnly, Queued

\* A task that starts holds nothing.
LEMMA StartKeeps ==
  ASSUME IInv, NEW c \in Tasks, call[c].pc = "idle", NEW k \in Calls, k.held = 0,
         UNCHANGED ready, Look(c, k, FALSE)
  PROVE  IInv'
  <1>1. call[c].held = 0
    BY DEF IInv, CallsOK, CallOK
  <1>2. \A l \in Locks : Holds(k, l) <=> Inside(c, l)
    BY <1>1 DEF Holds, Inside
  <1>3. k.kind \in Kinds
    BY DEF Calls
  <1>4. k.held < Len(Needs(k.kind))
    BY <1>3, NeedsType
  <1> QED BY <1>2, <1>4, OthersNotQueued, LookKeeps DEF IInv, QueuesOK

\* A call of a host, a participant or a timer.
LEMMA CallKeeps ==
  ASSUME IInv, NEW c \in Callers, NEW kind \in {"handler", "generate", "confirm"}, Call(c, kind)
  PROVE  IInv'
  <1> DEFINE k == [NoCall EXCEPT !.kind = kind]
  <1>1. k \in Calls /\ k.held = 0
    BY BoundsAssumption DEF NoCall, Calls, Kinds
  <1>2. c \in Tasks /\ call[c].pc = "idle" /\ UNCHANGED ready /\ Look(c, k, FALSE)
    BY DEF Call, Tasks
  <1> HIDE DEF k
  <1> QED BY <1>1, <1>2, StartKeeps

\* A repair that starts, at once or at the end of the window.
LEMMA RunRepairKeeps ==
  ASSUME IInv, NEW c \in Repairs, NEW changed \in 0..MaxRoster, UNCHANGED ready, RunRepair(c, changed)
  PROVE  IInv'
  <1> DEFINE k == [Started EXCEPT !.seen = changed]
  <1>1. k \in Calls /\ k.held = 0
    <2>1. Started = [kind |-> "repair", pc |-> "idle", held |-> 0, seen |-> 0]
      BY DEF Started, NoCall
    <2>2. k = [kind |-> "repair", pc |-> "idle", held |-> 0, seen |-> changed]
      BY <2>1
    <2> QED BY <2>2 DEF Calls, Kinds
  <1>2. c \in Tasks /\ call[c].pc = "idle" /\ Look(c, k, FALSE)
    BY DEF RunRepair, Tasks
  <1> HIDE DEF k
  <1> QED BY <1>1, <1>2, StartKeeps

\* Whoever is resumed leaves the microtask queue and looks again.
LEMMA ResumeKeeps == ASSUME IInv, Resume PROVE IInv'
  <1> DEFINE c == Head(ready)
  <1>1. /\ c \in Tasks /\ c \in Elems(ready)
        /\ Tail(ready) \in Seq(Tasks) /\ Distinct(Tail(ready))
        /\ Elems(Tail(ready)) = Elems(ready) \ {c}
    BY TailQueue DEF IInv, QueuesOK, Resume
  <1>2. ready' = Tail(ready) /\ Look(c, call[c], TRUE)
    BY DEF Resume
  <1> HIDE DEF c
  <1>3. call[c].pc = "waiting"
    BY <1>1 DEF IInv, WaitingOnly, Queued
  <1>4. call[c] \in Calls /\ call[c].held < Len(Needs(call[c].kind))
    BY <1>1, <1>3 DEF IInv, CallsOK, CallOK
  <1>5. c \notin Elems(waiters["guard"]) \cup Elems(waiters["gen"])
    BY <1>1 DEF IInv, QueuesOK, Locks
  <1> QED BY <1>1, <1>2, <1>4, <1>5, LookKeeps DEF Inside

\* Confirm asks for the guard inside the generation lock.
LEMMA TakeInnerKeeps == ASSUME IInv, NEW c \in Tasks, TakeInner(c) PROVE IInv'
  <1>1. /\ call[c].pc = "running" /\ call[c].held < Len(Needs(call[c].kind))
        /\ Look(c, call[c], FALSE) /\ ready' = ready
    BY DEF TakeInner
  <1>2. call[c] \in Calls
    BY DEF IInv, CallsOK
  <1> QED BY <1>1, <1>2, OthersNotQueued, LookKeeps DEF Inside, IInv, QueuesOK

\* Giving a lock back empties its queue and resumes everyone who stood in it.
LEMMA ReleaseKeeps == ASSUME IInv, NEW c \in Tasks, Release(c) PROVE IInv'
  <1> DEFINE k == call[c]
             l == Innermost(c)
  <1>1. k \in Calls /\ k.kind \in Kinds /\ k.held \in 1..Len(Needs(k.kind)) /\ k.pc # "waiting"
    <2>1. k \in Calls /\ CallOK(k)
      BY DEF IInv, CallsOK
    <2>2. k.kind \in Kinds /\ k.held \in 0..2
      BY <2>1 DEF Calls
    <2>3. k.pc \in {"running", "leaving"}
      BY DEF Release
    <2> HIDE DEF k
    <2> QED BY <2>1, <2>2, <2>3, NeedsType DEF CallOK
  <1>2. l \in Locks /\ l = Needs(k.kind)[k.held]
    BY <1>1, NeedsType DEF Innermost
  <1>3. /\ holder' = [holder EXCEPT ![l] = Nobody]
        /\ waiters' = [waiters EXCEPT ![l] = <<>>]
        /\ ready' = ready \o waiters[l]
        /\ call' = [call EXCEPT ![c] = Released(@)]
    BY DEF Release
  <1>4. \A d \in Tasks \ {c} : call'[d] = call[d]
    BY <1>3 DEF IInv, CallsOK
  <1>5. call'[c] = Released(k) /\ call' \in [Tasks -> Calls]
    <2>1. Released(k) \in Calls
      <3>1. NoCall \in Calls
        BY BoundsAssumption DEF NoCall, Calls, Kinds
      <3>2. ASSUME k.held # 1 PROVE [k EXCEPT !.pc = "leaving", !.held = @ - 1] \in Calls
        <4>1. k.held - 1 \in 0..2
          BY <1>1, <3>2, NeedsType
        <4> QED BY <1>1, <4>1 DEF Calls
      <3> QED BY <3>1, <3>2 DEF Released
    <2> QED BY <1>3, <2>1 DEF IInv, CallsOK
  <1>6. /\ call'[c].held = k.held - 1 /\ call'[c].pc \in {"idle", "leaving"}
        /\ call'[c].pc = "idle" <=> call'[c].held = 0
        /\ call'[c].held > 0 => call'[c].kind = k.kind
    BY <1>1, <1>5, NeedsType DEF Released, NoCall, Calls
  <1> HIDE DEF k, l
  <1>7. QueuesOK'
    <2>1. /\ ready \in Seq(Tasks) /\ waiters[l] \in Seq(Tasks)
          /\ Distinct(ready) /\ Distinct(waiters[l])
          /\ Elems(ready) \cap Elems(waiters[l]) = {}
      BY <1>2 DEF IInv, QueuesOK
    <2>2. /\ ready' \in Seq(Tasks) /\ Distinct(ready')
          /\ Elems(ready') = Elems(ready) \cup Elems(waiters[l])
      BY <1>3, <2>1, ConcatQueues
    <2>3. /\ waiters' \in [Locks -> Seq(Tasks)] /\ Distinct(waiters'[l]) /\ Elems(waiters'[l]) = {}
          /\ \A m \in Locks \ {l} : waiters'[m] = waiters[m]
      BY <1>2, <1>3 DEF IInv, QueuesOK, Distinct, Elems
    <2> QED BY <1>2, <2>2, <2>3 DEF IInv, QueuesOK, Locks
  <1>8. CallsOK'
    <2>1. call'[c].held \in Nat /\ call'[c].kind \in Kinds
      BY <1>5 DEF Calls
    <2>2. CallOK(call'[c])
      BY <1>1, <1>6, <2>1, NeedsType DEF CallOK
    <2> QED BY <1>4, <1>5, <2>2 DEF IInv, CallsOK
  <1>9. WaitingOnly'
    <2>1. Elems(ready') = Elems(ready) \cup Elems(waiters[l])
      BY <1>2, <1>3, ConcatQueues DEF IInv, QueuesOK
    <2>2. Elems(waiters'[l]) = {} /\ \A m \in Locks \ {l} : waiters'[m] = waiters[m]
      BY <1>2, <1>3 DEF IInv, QueuesOK, Elems
    <2>3. Queued' \subseteq Queued
      BY <1>2, <2>1, <2>2 DEF Queued, Locks
    <2>4. Queued \subseteq Tasks /\ c \notin Queued
      BY <1>1 DEF IInv, QueuesOK, WaitingOnly, Queued, Elems, Locks, k
    <2> QED BY <1>4, <2>3, <2>4 DEF IInv, WaitingOnly
  <1>10. HoldersOK'
    <2>1. \A m \in Locks : Inside(c, m)' => Inside(c, m) /\ m # l
      <3> SUFFICES ASSUME NEW m \in Locks, NEW i \in 1..call'[c].held,
                          Needs(call'[c].kind)[i] = m
                   PROVE  Inside(c, m) /\ m # l
        BY DEF Inside, Holds
      <3>1. call'[c].kind = k.kind /\ i \in 1..(k.held - 1)
        BY <1>1, <1>6
      <3>2. i \in 1..k.held /\ i \in 1..Len(Needs(k.kind)) /\ i # k.held
        BY <1>1, <3>1
      <3> QED BY <1>1, <1>2, <3>1, <3>2, NeedsType DEF Inside, Holds, k
    <2>2. \A d \in Tasks \ {c}, m \in Locks : Inside(d, m)' <=> Inside(d, m)
      BY <1>4 DEF Inside, Holds
    <2>3. Inside(c, l)
      BY <1>1, <1>2 DEF Inside, Holds, k
    <2>4. \A d \in Tasks \ {c} : ~Inside(d, l)
      BY <1>2, <2>3 DEF IInv, HoldersOK
    <2>5. /\ holder' \in [Locks -> Tasks \cup {Nobody}]
          /\ \A m \in Locks \ {l} : holder'[m] = holder[m]
      BY <1>3 DEF IInv, HoldersOK
    <2>6. \A m \in Locks, d \in Tasks : Inside(d, m)' => m # l /\ Inside(d, m)
      BY <2>1, <2>2, <2>4
    <2> QED BY <2>5, <2>6 DEF IInv, HoldersOK
  <1> QED BY <1>7, <1>8, <1>9, <1>10 DEF IInv

\* A repair settles what it plans for inside the lock.
LEMMA SettlesKeeps ==
  ASSUME IInv, NEW c \in Tasks, call[c].pc = "running", NEW n \in 0..MaxRoster,
         call' = [call EXCEPT ![c].pc = "leaving", ![c].seen = n],
         UNCHANGED <<holder, waiters, ready>>
  PROVE  IInv'
  <1> DEFINE k == [call[c] EXCEPT !.pc = "leaving", !.seen = n]
  <1>1. call' = [call EXCEPT ![c] = k]
    BY DEF IInv, CallsOK
  <1>2. k \in Calls /\ k.held = call[c].held /\ k.kind = call[c].kind /\ k.pc = "leaving"
    BY DEF IInv, CallsOK, Calls
  <1>3. call[c].pc = "running" /\ CallOK(call[c])
    BY DEF IInv, CallsOK
  <1> HIDE DEF k
  <1>4. call' \in [Tasks -> Calls] /\ call'[c] = k /\ \A d \in Tasks \ {c} : call'[d] = call[d]
    BY <1>1, <1>2 DEF IInv, CallsOK
  <1>5. CallsOK'
    BY <1>2, <1>3, <1>4 DEF IInv, CallsOK, CallOK
  <1>6. WaitingOnly'
    <2>1. c \notin Queued /\ Queued \subseteq Tasks
      BY <1>3 DEF IInv, QueuesOK, WaitingOnly, Queued, Elems, Locks
    <2> QED BY <1>1, <1>4, <2>1 DEF IInv, WaitingOnly, Queued
  <1>7. HoldersOK'
    <2>1. \A d \in Tasks, m \in Locks : Inside(d, m)' <=> Inside(d, m)
      BY <1>2, <1>4 DEF Inside, Holds
    <2> QED BY <1>1, <2>1 DEF IInv, HoldersOK
  <1> QED BY <1>1, <1>5, <1>6, <1>7 DEF IInv, QueuesOK

\* It reads the roster there, or fails and plans for nothing new.
LEMMA ReadRosterKeeps ==
  ASSUME IInv, PlanOK, NEW c \in Tasks, ReadRoster(c) \/ RepairFails(c)
  PROVE  IInv'
  <1>1. PICK n \in {roster, planned} : call' = [call EXCEPT ![c].pc = "leaving", ![c].seen = n]
    BY DEF ReadRoster, RepairFails, InsideLock
  <1>2. n \in 0..MaxRoster
    BY <1>1 DEF PlanOK
  <1> QED BY <1>1, <1>2, SettlesKeeps DEF ReadRoster, RepairFails

\* The throttle and the counters are no part of the locks.
LEMMA LocksUntouched ==
  ASSUME IInv, UNCHANGED <<holder, waiters, ready, call>>
  PROVE  IInv'
  BY DEF IInv, QueuesOK, CallsOK, WaitingOnly, Queued, HoldersOK, Inside

\* A join or a leave starts a repair, or leaves one for the end of the window.
LEMMA ChangeRosterKeeps ==
  ASSUME IInv, PlanOK, NEW c \in Callers, ChangeRoster(c)
  PROVE  IInv'
  <1>1. roster' \in 0..MaxRoster /\ UNCHANGED ready
    BY BoundsAssumption DEF ChangeRoster, PlanOK
  <1>2. CASE \E r \in Repairs : RunRepair(r, roster')
    BY <1>1, <1>2, RunRepairKeeps
  <1>3. CASE UNCHANGED <<holder, waiters, call>>
    BY <1>1, <1>3, LocksUntouched
  <1> QED BY <1>2, <1>3 DEF ChangeRoster

\* What is counted keeps its bounds.
LEMMA PlanKeeps == ASSUME IInv, PlanOK, [Next]_vars PROVE PlanOK'
  <1> USE BoundsAssumption DEF PlanOK
  <1>1. ASSUME NEW c \in Callers, NEW kind \in {"handler", "generate", "confirm"}, Call(c, kind)
        PROVE  PlanOK'
    BY <1>1 DEF Call
  <1>2. ASSUME NEW c \in Callers, ChangeRoster(c) PROVE PlanOK'
    <2>1. throttle' \in [shut : BOOLEAN, trailing : {"none", "armed", "due"}]
      BY <1>2 DEF ChangeRoster, Throttled
    <2> QED BY <1>2, <2>1 DEF ChangeRoster
  <1>3. ASSUME NEW c \in Tasks, TaskStep(c) PROVE PlanOK'
    <2>1. call[c].seen \in 0..MaxRoster
      BY DEF IInv, CallsOK, Calls
    <2> QED BY <1>3, <2>1 DEF TaskStep, TakeInner, ReadRoster, RepairFails, InsideLock, Release
  <1>4. CASE Resume
    BY <1>4 DEF Resume
  <1>5. CASE WindowOpens
    <2>1. throttle' \in [shut : BOOLEAN, trailing : {"none", "armed", "due"}]
      BY <1>5 DEF WindowOpens
    <2> QED BY <1>5, <2>1 DEF WindowOpens
  <1>6. CASE TrailingRepair
    <2>1. throttle' \in [shut : BOOLEAN, trailing : {"none", "armed", "due"}]
      BY <1>6 DEF TrailingRepair
    <2> QED BY <1>6, <2>1 DEF TrailingRepair
  <1>7. CASE UNCHANGED vars
    BY <1>7 DEF vars
  <1> QED BY <1>1, <1>2, <1>3, <1>4, <1>5, <1>6, <1>7 DEF Next

-----------------------------------------------------------------------------
(* The theorems *)

\* Nobody runs and nobody waits at the start.
LEMMA InitIInv == Init => IInv /\ PlanOK
  <1> SUFFICES ASSUME Init PROVE IInv /\ PlanOK
    OBVIOUS
  <1>1. NoCall \in Calls /\ CallOK(NoCall) /\ NoCall.held = 0
    <2>1. NoCall \in Calls /\ NoCall.held = 0 /\ NoCall.pc = "idle" /\ NoCall.kind \in Kinds
      BY BoundsAssumption DEF NoCall, Calls, Kinds
    <2> QED BY <2>1, NeedsType DEF CallOK
  <1>2. Elems(<<>>) = {} /\ Distinct(<<>>) /\ <<>> \in Seq(Tasks)
    BY DEF Elems, Distinct
  <1>3. QueuesOK /\ WaitingOnly
    BY <1>2 DEF Init, QueuesOK, WaitingOnly, Queued, Locks
  <1>4. CallsOK
    BY <1>1 DEF Init, CallsOK
  <1>5. HoldersOK
    <2>1. \A c \in Tasks, l \in Locks : ~Inside(c, l)
      BY <1>1 DEF Init, Inside, Holds
    <2> QED BY <2>1 DEF Init, HoldersOK
  <1>6. PlanOK
    BY BoundsAssumption DEF Init, PlanOK
  <1> QED BY <1>3, <1>4, <1>5, <1>6 DEF IInv

\* Every step keeps the invariant.
LEMMA NextIInv == ASSUME IInv, PlanOK, [Next]_vars PROVE (IInv /\ PlanOK)'
  <1>1. IInv'
    <2>1. CASE WindowOpens \/ UNCHANGED vars
      BY <2>1, LocksUntouched DEF WindowOpens, vars
    <2>2. CASE TrailingRepair
      BY <2>2, RunRepairKeeps DEF TrailingRepair, PlanOK
    <2>3. CASE \E c \in Tasks : TaskStep(c)
      BY <2>3, TakeInnerKeeps, ReadRosterKeeps, ReleaseKeeps DEF TaskStep
    <2> QED BY <2>1, <2>2, <2>3, CallKeeps, ChangeRosterKeeps, ResumeKeeps DEF Next
  <1> QED BY <1>1, PlanKeeps

\* Every variable keeps its type.
THEOREM TypeCorrect == Spec => []TypeOK
  <1>1. IInv /\ PlanOK => TypeOK
    BY DEF IInv, QueuesOK, CallsOK, HoldersOK, PlanOK, TypeOK
  <1> QED BY <1>1, InitIInv, NextIInv, PTL DEF Spec

\* The loops of session-state.ts exclude each other, for any number of tasks.
THEOREM LocksExclude == Spec => []MutualExclusion
  <1>1. IInv => MutualExclusion
    BY DEF IInv, HoldersOK, MutualExclusion
  <1> QED BY <1>1, InitIInv, NextIInv, PTL DEF Spec

-----------------------------------------------------------------------------
(* The plan *)

\* A repair that has read the roster read it after what is planned was read.
Fresh ==
  /\ planned <= roster
  /\ \A c \in Tasks : call[c].kind = "repair" /\ call[c].pc = "leaving" =>
       planned <= call[c].seen /\ call[c].seen <= roster

\* A repair that is about to leave is inside the generation lock, alone.
LEMMA LeavingAlone ==
  ASSUME IInv, NEW c \in Tasks, NEW d \in Tasks,
         call[c].kind = "repair", call[c].pc \in {"running", "leaving"},
         call[d].kind = "repair", call[d].pc \in {"running", "leaving"}
  PROVE  c = d /\ call[c].held = 1
  <1>1. Needs("repair") = <<"gen">> /\ Len(Needs("repair")) = 1 /\ Needs("repair")[1] = "gen"
    BY DEF Needs
  <1>2. call[c] \in Calls /\ CallOK(call[c]) /\ call[d] \in Calls /\ CallOK(call[d])
    BY DEF IInv, CallsOK
  <1>3. call[c].held \in 0..2 /\ call[d].held \in 0..2
    BY <1>2 DEF Calls
  <1>4. call[c].held = 1 /\ call[d].held = 1
    BY <1>1, <1>2, <1>3 DEF CallOK
  <1>5. Inside(c, "gen") /\ Inside(d, "gen")
    BY <1>1, <1>4 DEF Inside, Holds
  <1> QED BY <1>4, <1>5 DEF IInv, HoldersOK, Locks

\* Whoever looks at a lock runs or waits.
LEMMA LookFresh ==
  ASSUME IInv, PlanOK, Fresh, NEW c \in Tasks, NEW k \in Calls, NEW resumed \in BOOLEAN,
         Look(c, k, resumed), roster' \in Nat, roster' >= roster, planned' = planned
  PROVE  Fresh' /\ planned' >= planned
  <1>1. call'[c].pc \in {"waiting", "running"} /\ \A d \in Tasks \ {c} : call'[d] = call[d]
    BY DEF Look, IInv, CallsOK, Calls
  <1>2. planned \in Nat /\ roster \in Nat /\ \A d \in Tasks : call[d].seen \in Nat
    BY BoundsAssumption DEF PlanOK, IInv, CallsOK, Calls
  <1> QED BY <1>1, <1>2 DEF Fresh

\* Every step keeps what was read in order.
LEMMA NextFresh ==
  ASSUME IInv, PlanOK, Fresh, [Next]_vars
  PROVE  Fresh' /\ planned' >= planned
  <1>0. planned \in Nat /\ roster \in Nat /\ \A d \in Tasks : call[d] \in Calls /\ call[d].seen \in Nat
    BY BoundsAssumption DEF PlanOK, IInv, CallsOK, Calls
  <1>1. ASSUME NEW c \in Callers, NEW kind \in {"handler", "generate", "confirm"}, Call(c, kind)
        PROVE  Fresh' /\ planned' >= planned
    <2>1. [NoCall EXCEPT !.kind = kind] \in Calls
      BY BoundsAssumption DEF NoCall, Calls, Kinds
    <2>2. UNCHANGED <<roster, planned>> /\ Look(c, [NoCall EXCEPT !.kind = kind], FALSE) /\ c \in Tasks
      BY <1>1 DEF Call, Tasks
    <2>3. roster' \in Nat /\ roster' >= roster /\ planned' = planned
      BY <1>0, <2>2
    <2> QED BY <2>1, <2>2, <2>3, LookFresh
  <1>2. ASSUME NEW c \in Repairs, NEW changed \in 0..MaxRoster, RunRepair(c, changed),
               roster' \in Nat, roster' >= roster, planned' = planned
        PROVE  Fresh' /\ planned' >= planned
    <2>1. [Started EXCEPT !.seen = changed] \in Calls
      <3>1. Started = [kind |-> "repair", pc |-> "idle", held |-> 0, seen |-> 0]
        BY DEF Started, NoCall
      <3> QED BY <3>1 DEF Calls, Kinds
    <2>2. Look(c, [Started EXCEPT !.seen = changed], FALSE) /\ c \in Tasks
      BY <1>2 DEF RunRepair, Tasks
    <2> QED BY <1>2, <2>1, <2>2, LookFresh
  <1>3. ASSUME NEW c \in Callers, ChangeRoster(c)
        PROVE  Fresh' /\ planned' >= planned
    <2>1. roster' = roster + 1 /\ roster' \in 0..MaxRoster /\ planned' = planned
      BY <1>3, BoundsAssumption DEF ChangeRoster, PlanOK
    <2>2. CASE UNCHANGED call
      BY <1>0, <2>1, <2>2 DEF Fresh
    <2>3. CASE \E r \in Repairs : RunRepair(r, roster')
      BY <1>0, <1>2, <2>1, <2>3
    <2> QED BY <1>3, <2>2, <2>3 DEF ChangeRoster
  <1>4. CASE Resume
    <2>1. Head(ready) \in Tasks
      BY <1>4, TailQueue DEF Resume, IInv, QueuesOK
    <2>2. UNCHANGED <<roster, planned>> /\ Look(Head(ready), call[Head(ready)], TRUE)
      BY <1>4 DEF Resume
    <2>3. roster' \in Nat /\ roster' >= roster /\ planned' = planned /\ call[Head(ready)] \in Calls
      BY <1>0, <2>1, <2>2
    <2> QED BY <2>1, <2>2, <2>3, LookFresh
  <1>5. ASSUME NEW c \in Tasks, TakeInner(c) PROVE Fresh' /\ planned' >= planned
    <2>1. UNCHANGED <<roster, planned>> /\ Look(c, call[c], FALSE)
      BY <1>5 DEF TakeInner
    <2>2. roster' \in Nat /\ roster' >= roster /\ planned' = planned /\ call[c] \in Calls
      BY <1>0, <2>1
    <2> QED BY <2>1, <2>2, LookFresh
  <1>6. ASSUME NEW c \in Tasks, ReadRoster(c) PROVE Fresh' /\ planned' >= planned
    <2>1. /\ call'[c].seen = roster /\ \A d \in Tasks \ {c} : call'[d] = call[d]
          /\ UNCHANGED <<roster, planned>>
      BY <1>6 DEF ReadRoster, InsideLock, IInv, CallsOK, Calls
    <2> QED BY <1>0, <2>1 DEF Fresh
  <1>10. ASSUME NEW c \in Tasks, RepairFails(c) PROVE Fresh' /\ planned' >= planned
    <2>1. /\ call'[c].seen = planned /\ \A d \in Tasks \ {c} : call'[d] = call[d]
          /\ UNCHANGED <<roster, planned>>
      BY <1>10 DEF RepairFails, IInv, CallsOK, Calls
    <2> QED BY <1>0, <2>1 DEF Fresh
  <1>7. ASSUME NEW c \in Tasks, Release(c) PROVE Fresh' /\ planned' >= planned
    <2>1. \A d \in Tasks \ {c} : call'[d] = call[d]
      BY <1>7 DEF Release, IInv, CallsOK
    <2>2. call'[c] = Released(call[c]) /\ roster' = roster
      BY <1>7 DEF Release, IInv, CallsOK
    <2>3. CASE call[c].kind = "repair"
      <3>1. call[c].pc = "leaving" /\ planned' = call[c].seen
        BY <1>7, <2>3 DEF Release
      <3>2. \A d \in Tasks \ {c} : ~(call[d].kind = "repair" /\ call[d].pc = "leaving")
        BY <2>3, <3>1, LeavingAlone
      <3>3. call'[c].pc = "idle"
        BY <2>2, <2>3, <3>1, LeavingAlone DEF Released, NoCall
      <3> QED BY <1>0, <2>1, <2>2, <2>3, <3>1, <3>2, <3>3 DEF Fresh
    <2>4. CASE call[c].kind # "repair"
      <3>1. call'[c].kind # "repair"
        BY <1>0, <2>2, <2>4 DEF Released, NoCall, Calls
      <3>2. planned' = planned
        BY <1>7, <2>4 DEF Release
      <3> QED BY <1>0, <2>1, <2>2, <3>1, <3>2 DEF Fresh
    <2> QED BY <2>3, <2>4
  <1>8. CASE WindowOpens \/ UNCHANGED vars
    BY <1>0, <1>8 DEF WindowOpens, vars, Fresh
  <1>9. CASE TrailingRepair
    BY <1>0, <1>2, <1>9 DEF TrailingRepair, PlanOK
  <1> QED BY <1>1, <1>3, <1>4, <1>5, <1>6, <1>7, <1>8, <1>9, <1>10 DEF Next, TaskStep

\* What the repairs of participant-flow.ts plan for is never older than what was
\* planned before, in whatever order they get the lock.
THEOREM PlanMovesForward == Spec => PlanNeverGoesBack
  <1>1. Init => Fresh
    <2>1. ASSUME NEW c \in Tasks, Init PROVE call[c].pc # "leaving"
      BY <2>1 DEF Init, NoCall
    <2> QED BY <2>1 DEF Init, Fresh
  <1>2. IInv /\ PlanOK /\ Fresh /\ [Next]_vars => (IInv /\ PlanOK /\ Fresh)' /\ [planned' >= planned]_planned
    BY NextIInv, NextFresh
  <1> QED BY <1>1, <1>2, InitIInv, PTL DEF Spec, PlanNeverGoesBack
=============================================================================
