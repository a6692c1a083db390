--------------------------- MODULE AdmissionProofs ---------------------------
(***************************************************************************)
(* That the promises of Admission hold for any number of people, requests  *)
(* and invites, whatever is kicked, withdrawn, declined, ended or broken   *)
(* off between the commits.                                                *)
(*                                                                         *)
(* None of them is inductive alone.  What makes them so is what a request  *)
(* under way still knows: the approval that holds a request's lock is the  *)
(* only one and finds it pending; a registration past its row has the      *)
(* person in, or has seen that nobody had written the row.  For accepts    *)
(* beyond an invite's count it is how many are still to come: once it is   *)
(* used up or withdrawn, only those already past the check.                *)
(***************************************************************************)
EXTENDS Admission, TLAPS, FiniteSetTheorems

CallRecords ==
  [op : Ops, at : CallSteps, who : People \cup {Anyone}, inv : 0..MaxInvites,
   full : BOOLEAN, repeat : BOOLEAN, uses : Nat, seen : InviteStatus, lost : BOOLEAN]

\* What the step a call is at says of it.
Registering == {"count", "row", "reregister", "insert"}
Shaped(k) ==
  /\ k.at \in Registering \cup {"ensure", "use", "approve", "googleUse", "googleRow", "withdraw"}
       => k.who \in People
  /\ k.op \in {"accept", "google"} => k.inv \in Invites
  /\ k.op = "approve" => k.at \in Registering \cup {"approve"}
  /\ k.at = "approve" => k.op = "approve"
  /\ k.at \in {"ensure", "use"} => k.op = "accept"
  /\ k.at \in {"googleUse", "googleRow"} => k.op = "google"
  /\ k.at = "googleUse" => k.uses < MaxUses
CallsOK == \A r \in Requests : Shaped(call[r])

\* The lock of a request: one approval, and it is pending.
LockOK ==
  \A r \in Requests : call[r].op = "approve" =>
    /\ request[call[r].who] = "pending"
    /\ \A s \in Requests : call[s].op = "approve" /\ call[s].who = call[r].who => s = r

\* What a call knows of the row, unless the person lost their place meanwhile.
Knows(k, status) ==
  k.lost \/ /\ k.at \in {"ensure", "use", "approve"} => status = "registered"
            /\ k.at = "insert" => status \in {"none", "registered"}
RowsOK == \A r \in Requests : Knows(call[r], place[call[r].who].status)

\* The count itself stays within the maximum.
CountOK == \A i \in Invites : invite[i].uses <= MaxUses

-----------------------------------------------------------------------------
(* What happens to the calls *)

\* A call that goes on changes its step and nothing else.
LEMMA StepsOn ==
  ASSUME call \in [Requests -> CallRecords], NEW r \in Requests, NEW at \in CallSteps, Step(r, at)
  PROVE  /\ call' \in [Requests -> CallRecords]
         /\ \A s \in Requests : s # r => call'[s] = call[s]
         /\ call'[r].at = at
         /\ call'[r].op = call[r].op /\ call'[r].who = call[r].who /\ call'[r].inv = call[r].inv
         /\ call'[r].uses = call[r].uses /\ call'[r].lost = call[r].lost
         /\ call'[r].repeat = call[r].repeat
  BY DEF Step, CallRecords

\* A call that ends knows nothing any more.
LEMMA EndsCall ==
  ASSUME call \in [Requests -> CallRecords], NEW r \in Requests, Done(r)
  PROVE  /\ call' \in [Requests -> CallRecords]
         /\ \A s \in Requests : s # r => call'[s] = call[s]
         /\ call'[r] = NoCall
  BY AdmissionBoundsAssumption DEF Done, NoCall, CallRecords, Ops, CallSteps, InviteStatus

\* A call begins where none was.
LEMMA Starting ==
  ASSUME call \in [Requests -> CallRecords], NEW r \in Requests, NEW k \in CallRecords, Begins(r, k)
  PROVE  /\ call' \in [Requests -> CallRecords]
         /\ \A s \in Requests : s # r => call'[s] = call[s]
         /\ call'[r] = k /\ call[r] = NoCall
  BY DEF Begins

\* Losing a place is noted and changes nothing else.
LEMMA Loses ==
  ASSUME call \in [Requests -> CallRecords], NEW P
  PROVE  /\ Losing(P) \in [Requests -> CallRecords]
         /\ \A s \in Requests :
              LET c == Losing(P)[s] IN
              /\ c.at = call[s].at /\ c.op = call[s].op /\ c.who = call[s].who
              /\ c.inv = call[s].inv /\ c.uses = call[s].uses /\ c.repeat = call[s].repeat
              /\ call[s].who \in P => c.lost
              /\ call[s].lost => c.lost
              /\ ~c.lost => c = call[s]
  BY DEF Losing, CallRecords

-----------------------------------------------------------------------------
(* Types *)

\* The records of the state, opened once.
LEMMA Opened ==
  DoorTypeOK <=>
    /\ event \in {"open", "over", "swept"} /\ accounts \subseteq People
    /\ place \in [People -> [status : PlaceStatus, at : Moments]]
    /\ invite \in [Invites -> [for : People \cup {Anyone}, status : InviteStatus, uses : Nat,
                               by : People \cup {Anyone}, at : Moments, dead : BOOLEAN,
                               beyond : Nat, overwritten : BOOLEAN]]
    /\ request \in [People -> {"none", "pending", "approved", "declined", "withdrawn"}]
    /\ call \in [Requests -> CallRecords]
    /\ moment \in Moments /\ calls \in 0..MaxCalls
  BY DEF DoorTypeOK, CallRecords

\* No call is a call that is under way nowhere.
LEMMA NoCallIs ==
  /\ NoCall \in CallRecords
  /\ NoCall.op = "none" /\ NoCall.at = "idle" /\ NoCall.who = Anyone /\ NoCall.lost = FALSE
  BY AdmissionBoundsAssumption DEF NoCall, CallRecords, Ops, CallSteps, InviteStatus

\* The calls that can begin.
Accepting(p, i, b) == [NoCall EXCEPT !.op = "accept", !.at = "count", !.who = p, !.inv = i, !.repeat = b]
SigningUp(p, i, n, status) ==
  [NoCall EXCEPT !.op = "google", !.at = "googleUse", !.who = p, !.inv = i, !.uses = n, !.seen = status]
Plain(op, at, p) == [NoCall EXCEPT !.op = op, !.at = at, !.who = p]

LEMMA NewAccept ==
  ASSUME NEW p \in People, NEW i \in Invites, NEW b \in BOOLEAN
  PROVE  LET k == Accepting(p, i, b)
         IN  /\ k \in CallRecords /\ k.op = "accept" /\ k.at = "count" /\ k.who = p
             /\ k.inv = i /\ k.repeat = b
  <1>1. NoCall \in CallRecords /\ i \in 0..MaxInvites
    BY NoCallIs, AdmissionBoundsAssumption DEF Invites
  <1> QED BY <1>1 DEF Accepting, CallRecords, Ops, CallSteps

LEMMA NewGoogle ==
  ASSUME NEW p \in People, NEW i \in Invites, NEW n \in Nat, NEW status \in InviteStatus
  PROVE  LET k == SigningUp(p, i, n, status)
         IN  /\ k \in CallRecords /\ k.op = "google" /\ k.at = "googleUse" /\ k.who = p
             /\ k.inv = i /\ k.uses = n
  <1>1. NoCall \in CallRecords /\ i \in 0..MaxInvites
    BY NoCallIs, AdmissionBoundsAssumption DEF Invites
  <1> QED BY <1>1 DEF SigningUp, CallRecords, Ops, CallSteps

LEMMA NewPlain ==
  ASSUME NEW p \in People \cup {Anyone}, NEW op \in Ops, NEW at \in CallSteps
  PROVE  LET k == Plain(op, at, p)
         IN  k \in CallRecords /\ k.op = op /\ k.at = at /\ k.who = p
  BY NoCallIs DEF Plain, CallRecords

-----------------------------------------------------------------------------
(* One call moves *)

IInv == DoorTypeOK /\ CallsOK /\ LockOK /\ RowsOK /\ CountOK

\* Where one call moves, the others keep what they know: rows are only made
\* "registered", and no request of theirs is touched.
LEMMA OneCall ==
  ASSUME CallsOK, LockOK, RowsOK, NEW r \in Requests,
         \A s \in Requests : s # r => call'[s] = call[s],
         Shaped(call'[r]),
         \A p \in People : place'[p].status \in {place[p].status, "registered"},
         \A s \in Requests : s # r /\ call[s].op = "approve" =>
           /\ request'[call[s].who] = "pending"
           /\ call'[r].op = "approve" => call'[r].who # call[s].who,
         call'[r].op = "approve" => request'[call'[r].who] = "pending",
         Knows(call'[r], place'[call'[r].who].status)
  PROVE  CallsOK' /\ LockOK' /\ RowsOK'
  <1>1. CallsOK'
    BY DEF CallsOK
  <1>2. LockOK'
    BY DEF LockOK
  <1>3. ASSUME NEW s \in Requests, s # r
        PROVE  Knows(call[s], place'[call[s].who].status)
    <2>1. CASE call[s].at \in {"ensure", "use", "approve", "insert"}
      <3>1. call[s].who \in People
        BY <2>1 DEF CallsOK, Shaped, Registering
      <3> QED BY <1>3, <2>1, <3>1 DEF RowsOK, Knows
    <2>2. CASE call[s].at \notin {"ensure", "use", "approve", "insert"}
      BY <2>2 DEF Knows
    <2> QED BY <2>1, <2>2
  <1>4. RowsOK'
    BY <1>3 DEF RowsOK
  <1> QED BY <1>1, <1>2, <1>4

\* The calls of before stay as they are where nothing moves but the invites.
LEMMA NoCallMoves ==
  ASSUME CallsOK, LockOK, RowsOK, UNCHANGED <<call, place>>,
         \A s \in Requests : call[s].op = "approve" => request'[call[s].who] = "pending"
  PROVE  CallsOK' /\ LockOK' /\ RowsOK'
  BY DEF CallsOK, LockOK, RowsOK

\* A call begins, and touches nothing.
LEMMA BeginKeeps ==
  ASSUME IInv, NEW r \in Requests, NEW k \in CallRecords, Begins(r, k), Shaped(k),
         k.at \notin {"ensure", "use", "approve", "insert"},
         k.op = "approve" => request[k.who] = "pending" /\ Unlocked(k.who),
         UNCHANGED <<event, place, invite, request, moment>>, accounts' \subseteq People
  PROVE  IInv'
  <1>1. /\ DoorTypeOK /\ CallsOK /\ LockOK /\ RowsOK /\ CountOK
        /\ call \in [Requests -> CallRecords]
    BY Opened DEF IInv
  <1>2. /\ call' \in [Requests -> CallRecords] /\ \A s \in Requests : s # r => call'[s] = call[s]
        /\ call'[r] = k
    BY <1>1, Starting
  <1>3. calls' \in 0..MaxCalls
    BY <1>1, AdmissionBoundsAssumption DEF Begins, Counts, DoorTypeOK
  <1>4. DoorTypeOK'
    BY <1>1, <1>2, <1>3 DEF DoorTypeOK, CallRecords
  <1>5. CallsOK' /\ LockOK' /\ RowsOK'
    <2>1. \A s \in Requests : s # r /\ call[s].op = "approve" =>
            request'[call[s].who] = "pending" /\ (k.op = "approve" => k.who # call[s].who)
      BY <1>1 DEF LockOK, Unlocked
    <2>2. Knows(k, place'[k.who].status)
      BY DEF Knows
    <2> QED BY <1>1, <1>2, <2>1, <2>2, OneCall
  <1>6. CountOK'
    BY <1>1 DEF CountOK
  <1> QED BY <1>4, <1>5, <1>6 DEF IInv

\* A call ends; rows are only made "registered", no request is touched but its own.
LEMMA EndKeeps ==
  ASSUME IInv, NEW r \in Requests, Done(r), DoorTypeOK', CountOK',
         \A p \in People : place'[p].status \in {place[p].status, "registered"},
         \A s \in Requests : s # r /\ call[s].op = "approve" => request'[call[s].who] = "pending"
  PROVE  IInv'
  <1>1. /\ CallsOK /\ LockOK /\ RowsOK /\ call \in [Requests -> CallRecords]
    BY Opened DEF IInv
  <1>2. \A s \in Requests : s # r => call'[s] = call[s]
    BY <1>1, EndsCall
  <1>3. call'[r].op = "none" /\ call'[r].at = "idle"
    BY <1>1, EndsCall, NoCallIs
  <1>4. Shaped(call'[r]) /\ Knows(call'[r], place'[call'[r].who].status)
    BY <1>3 DEF Shaped, Knows, Registering
  <1>5. CallsOK' /\ LockOK' /\ RowsOK'
    BY <1>1, <1>2, <1>3, <1>4, OneCall
  <1> QED BY <1>5 DEF IInv

\* A call goes on; the same.
LEMMA StepKeeps ==
  ASSUME IInv, NEW r \in Requests, DoorTypeOK', CountOK', UNCHANGED request,
         \A s \in Requests : s # r => call'[s] = call[s],
         call'[r].op = call[r].op, call'[r].who = call[r].who,
         Shaped(call'[r]), Knows(call'[r], place'[call'[r].who].status),
         \A p \in People : place'[p].status \in {place[p].status, "registered"}
  PROVE  IInv'
  <1>1. CallsOK /\ LockOK /\ RowsOK
    BY DEF IInv
  <1>2. \A s \in Requests : s # r /\ call[s].op = "approve" =>
          /\ request'[call[s].who] = "pending"
          /\ call'[r].op = "approve" => call'[r].who # call[s].who
    BY <1>1 DEF LockOK
  <1>3. call'[r].op = "approve" => request'[call'[r].who] = "pending"
    BY <1>1 DEF LockOK
  <1>4. CallsOK' /\ LockOK' /\ RowsOK'
    BY <1>1, <1>2, <1>3, OneCall
  <1> QED BY <1>4 DEF IInv

-----------------------------------------------------------------------------
(* The calls that begin *)

LEMMA StartsKeeps ==
  ASSUME IInv, NEW r \in Requests, NEW p \in People
  PROVE  /\ AcceptInvite(r, p) => IInv'
         /\ Register(r, p) => IInv'
         /\ Approve(r, p) => IInv'
         /\ GoogleSignUp(r, p) => IInv'
  <1> DEFINE Quiet == UNCHANGED <<event, place, invite, request, moment>> /\ accounts' \subseteq People
  <1>1. ASSUME AcceptInvite(r, p) PROVE IInv'
    <2>0. PICK i \in Invites : Begins(r, Accepting(p, i, Repeats(p, i)))
      BY <1>1 DEF AcceptInvite, Accepting
    <2>b. Repeats(p, i) \in BOOLEAN
      BY DEF Repeats
    <2>c. PICK b \in BOOLEAN : Begins(r, Accepting(p, i, b))
      BY <2>0, <2>b
    <2> DEFINE k == Accepting(p, i, b)
    <2>1. k = Accepting(p, i, b) /\ Begins(r, k)
      BY <2>c
    <2> HIDE DEF k
    <2>2. k \in CallRecords /\ k.op = "accept" /\ k.at = "count" /\ k.who = p /\ k.inv = i
      BY <2>1, NewAccept
    <2>3. Shaped(k)
      BY <2>2 DEF Shaped, Registering
    <2>4. Quiet
      BY <1>1, Opened DEF AcceptInvite, IInv
    <2> QED BY <2>1, <2>2, <2>3, <2>4, BeginKeeps
  <1>2. ASSUME Register(r, p) PROVE IInv'
    <2>1. PICK k : k = Plain("register", "count", p) /\ Begins(r, k)
      BY <1>2 DEF Register, Plain
    <2>2. k \in CallRecords /\ k.op = "register" /\ k.at = "count" /\ k.who = p
      BY <2>1, NewPlain DEF Ops, CallSteps
    <2>3. Shaped(k)
      BY <2>2 DEF Shaped, Registering
    <2>4. Quiet
      BY <1>2, Opened DEF Register, IInv
    <2> QED BY <2>1, <2>2, <2>3, <2>4, BeginKeeps
  <1>3. ASSUME Approve(r, p) PROVE IInv'
    <2>1. PICK k : k = Plain("approve", "count", p) /\ Begins(r, k)
      BY <1>3 DEF Approve, Plain
    <2>2. k \in CallRecords /\ k.op = "approve" /\ k.at = "count" /\ k.who = p
      BY <2>1, NewPlain DEF Ops, CallSteps
    <2>3. Shaped(k)
      BY <2>2 DEF Shaped, Registering
    <2>4. Quiet /\ request[k.who] = "pending" /\ Unlocked(k.who)
      BY <1>3, <2>2, Opened DEF Approve, IInv
    <2> QED BY <2>1, <2>2, <2>3, <2>4, BeginKeeps
  <1>4. ASSUME GoogleSignUp(r, p) PROVE IInv'
    <2>c. PICK i \in Invites :
            /\ invite[i].uses < MaxUses
            /\ Begins(r, SigningUp(p, i, invite[i].uses, invite[i].status))
      BY <1>4 DEF GoogleSignUp, SigningUp
    <2> DEFINE k == SigningUp(p, i, invite[i].uses, invite[i].status)
    <2>1. /\ invite[i].uses < MaxUses
          /\ k = SigningUp(p, i, invite[i].uses, invite[i].status)
          /\ Begins(r, k)
      BY <2>c
    <2> HIDE DEF k
    <2>0. invite[i].uses \in Nat /\ invite[i].status \in InviteStatus
      BY Opened DEF IInv
    <2>2. /\ k \in CallRecords /\ k.op = "google" /\ k.at = "googleUse" /\ k.who = p
          /\ k.inv = i /\ k.uses = invite[i].uses
      BY <2>0, <2>1, NewGoogle
    <2>3. Shaped(k)
      BY <2>1, <2>2 DEF Shaped, Registering
    <2>4. Quiet
      BY <1>4, Opened DEF GoogleSignUp, IInv
    <2> QED BY <2>1, <2>2, <2>3, <2>4, BeginKeeps
  <1> QED BY <1>1, <1>2, <1>3, <1>4

LEMMA InviteKeeps ==
  ASSUME IInv, NEW r \in Requests, NEW p \in People \cup {Anyone}, Invite(r, p)
  PROVE  IInv'
  <1>1. PICK k : k = Plain("invite", "create", p) /\ Begins(r, k)
    BY DEF Invite, Plain
  <1>2. k \in CallRecords /\ k.op = "invite" /\ k.at = "create"
    BY <1>1, NewPlain DEF Ops, CallSteps
  <1>3. Shaped(k)
    BY <1>2 DEF Shaped, Registering
  <1>4. UNCHANGED <<event, place, invite, request, moment>> /\ accounts' \subseteq People
    BY Opened DEF Invite, IInv
  <1> QED BY <1>1, <1>2, <1>3, <1>4, BeginKeeps

-----------------------------------------------------------------------------
(* The calls that go on *)

InviteRecords ==
  [for : People \cup {Anyone}, status : InviteStatus, uses : Nat,
   by : People \cup {Anyone}, at : Moments, dead : BOOLEAN, beyond : Nat, overwritten : BOOLEAN]
PlaceRecords == [status : PlaceStatus, at : Moments]

\* The types of all but the calls.
OthersOK ==
  /\ event \in {"open", "over", "swept"} /\ accounts \subseteq People
  /\ place \in [People -> PlaceRecords]
  /\ invite \in [Invites -> InviteRecords]
  /\ request \in [People -> {"none", "pending", "approved", "declined", "withdrawn"}]
  /\ moment \in Moments /\ calls \in 0..MaxCalls

LEMMA Typed ==
  /\ DoorTypeOK <=> OthersOK /\ call \in [Requests -> CallRecords]
  /\ DoorTypeOK' <=> OthersOK' /\ call' \in [Requests -> CallRecords]
  BY DEF DoorTypeOK, OthersOK, CallRecords, InviteRecords, PlaceRecords

\* A row a person is let in by.
LEMMA LetsIn ==
  ASSUME place \in [People -> PlaceRecords], NEW p \in People, Lets(p)
  PROVE  /\ place' \in [People -> PlaceRecords]
         /\ place'[p].status = "registered"
         /\ \A q \in People : place'[q].status \in {place[q].status, "registered"}
  <1>1. Row("registered") \in PlaceRecords /\ Row("registered").status = "registered"
    BY AdmissionBoundsAssumption DEF Row, PlaceRecords, PlaceStatus, Moments
  <1> QED BY <1>1 DEF Lets

\* What a call may leave behind: rows are only made "registered".
Mild(r) ==
  /\ OthersOK' /\ CountOK'
  /\ \A p \in People : place'[p].status \in {place[p].status, "registered"}
  /\ \A s \in Requests : s # r /\ call[s].op = "approve" => request'[call[s].who] = "pending"

\* A call that ends so keeps the invariant.
LEMMA DoneKeeps ==
  ASSUME IInv, NEW r \in Requests, Done(r), Mild(r)
  PROVE  IInv'
  <1>1. call' \in [Requests -> CallRecords]
    BY Typed, EndsCall DEF IInv
  <1>2. DoorTypeOK'
    BY <1>1, Typed DEF Mild
  <1> QED BY <1>2, EndKeeps DEF Mild

\* And one that goes on, to a step it may be at.
LEMMA GoesOn ==
  ASSUME IInv, NEW r \in Requests, NEW at \in CallSteps, Step(r, at), Mild(r), UNCHANGED request,
         call[r].who \in People,
         call[r].op = "approve" => at \in Registering \cup {"approve"},
         at = "approve" => call[r].op = "approve",
         at \in {"ensure", "use"} => call[r].op = "accept",
         at = "googleRow" => call[r].op = "google",
         at # "googleUse",
         \/ call[r].lost
         \/ at \notin {"ensure", "use", "approve", "insert"}
         \/ at \in {"ensure", "use", "approve"} /\ place'[call[r].who].status = "registered"
         \/ at = "insert" /\ place'[call[r].who].status \in {"none", "registered"}
  PROVE  IInv'
  <1>1. call \in [Requests -> CallRecords]
    BY Typed DEF IInv
  <1>2. /\ call' \in [Requests -> CallRecords]
        /\ \A s \in Requests : s # r => call'[s] = call[s]
        /\ call'[r].at = at
        /\ call'[r].op = call[r].op /\ call'[r].who = call[r].who /\ call'[r].inv = call[r].inv
        /\ call'[r].uses = call[r].uses /\ call'[r].lost = call[r].lost
    BY <1>1, StepsOn
  <1>3. DoorTypeOK'
    BY <1>2, Typed DEF Mild
  <1>4. Shaped(call'[r])
    BY <1>2 DEF IInv, CallsOK, Shaped, Registering
  <1>5. Knows(call'[r], place'[call'[r].who].status)
    BY <1>2 DEF Knows
  <1> QED BY <1>2, <1>3, <1>4, <1>5, StepKeeps DEF Mild

\* Nothing but the calls changes.
LEMMA Quietly ==
  ASSUME IInv, NEW r \in Requests,
         UNCHANGED <<event, accounts, place, invite, request, moment, calls>>
  PROVE  Mild(r)
  <1>1. OthersOK'
    BY Typed DEF IInv, OthersOK
  <1>2. CountOK'
    BY DEF IInv, CountOK
  <1>3. \A s \in Requests : call[s].op = "approve" => request'[call[s].who] = "pending"
    BY DEF IInv, LockOK
  <1> QED BY <1>1, <1>2, <1>3 DEF Mild

\* A registration that has the person in.
LEMMA AfterKeeps ==
  ASSUME IInv, NEW r \in Requests, call[r].at \in {"row", "reregister", "insert"}, After(r), Mild(r),
         UNCHANGED request, call[r].lost \/ place'[call[r].who].status = "registered"
  PROVE  IInv'
  <1>0. call[r].who \in People
    BY DEF IInv, CallsOK, Shaped, Registering
  <1>1. CASE call[r].op = "accept"
    <2>1. Step(r, "ensure")
      BY <1>1 DEF After
    <2> QED BY <1>0, <1>1, <2>1, GoesOn DEF CallSteps
  <1>2. CASE call[r].op = "approve"
    <2>1. Step(r, "approve")
      BY <1>2 DEF After
    <2> QED BY <1>0, <1>2, <2>1, GoesOn DEF CallSteps
  <1>3. CASE call[r].op \notin {"accept", "approve"}
    <2>1. Done(r)
      BY <1>3 DEF After
    <2> QED BY <2>1, DoneKeeps
  <1> QED BY <1>1, <1>2, <1>3

LEMMA ReadEventKeeps ==
  ASSUME IInv, NEW r \in Requests, ReadEvent(r)
  PROVE  IInv'
  <1>1. Mild(r)
    BY Quietly DEF ReadEvent
  <1>2. CASE Done(r)
    BY <1>1, <1>2, DoneKeeps
  <1>3. ASSUME NEW full \in BOOLEAN, call' = [call EXCEPT ![r].at = "row", ![r].full = full]
        PROVE  IInv'
    <2>1. call \in [Requests -> CallRecords] /\ call[r].at = "count"
      BY Typed DEF IInv, ReadEvent
    <2>2. /\ call' \in [Requests -> CallRecords]
          /\ \A s \in Requests : s # r => call'[s] = call[s]
          /\ call'[r].at = "row" /\ call'[r].op = call[r].op /\ call'[r].who = call[r].who
          /\ call'[r].inv = call[r].inv /\ call'[r].uses = call[r].uses
      <3>1. /\ call[r] \in CallRecords
            /\ [call[r] EXCEPT !.at = "row"] \in CallRecords
            /\ [[call[r] EXCEPT !.at = "row"] EXCEPT !.full = full] \in CallRecords
        BY <2>1 DEF CallRecords, CallSteps
      <3>2. call' = [call EXCEPT ![r] = [[call[r] EXCEPT !.at = "row"] EXCEPT !.full = full]]
        BY <1>3, <2>1
      <3> QED BY <2>1, <3>1, <3>2 DEF CallRecords
    <2>3. Shaped(call'[r])
      BY <2>1, <2>2 DEF IInv, CallsOK, Shaped, Registering
    <2>4. Knows(call'[r], place'[call'[r].who].status)
      BY <2>2 DEF Knows
    <2>5. DoorTypeOK'
      BY <1>1, <2>2, Typed DEF Mild
    <2> QED BY <1>1, <2>2, <2>3, <2>4, <2>5, StepKeeps DEF Mild, ReadEvent
  <1> QED BY <1>2, <1>3 DEF ReadEvent

LEMMA ReadRowKeeps ==
  ASSUME IInv, NEW r \in Requests, ReadRow(r)
  PROVE  IInv'
  <1>1. Mild(r) /\ UNCHANGED <<request, place>> /\ call[r].at = "row"
    BY Quietly DEF ReadRow
  <1>2. call[r].who \in People
    BY <1>1 DEF IInv, CallsOK, Shaped, Registering
  <1>3. \/ Done(r)
        \/ place[call[r].who].status = "registered" /\ After(r)
        \/ place[call[r].who].status = "none" /\ Step(r, "insert")
        \/ Step(r, "reregister")
    BY DEF ReadRow, AlreadyIn
  <1>4. CASE Done(r)
    BY <1>1, <1>4, DoneKeeps
  <1>5. CASE place[call[r].who].status = "registered" /\ After(r)
    BY <1>1, <1>5, AfterKeeps
  <1>6. CASE place[call[r].who].status = "none" /\ Step(r, "insert")
    BY <1>1, <1>2, <1>6, GoesOn DEF CallSteps, Registering
  <1>7. CASE Step(r, "reregister")
    BY <1>1, <1>2, <1>7, GoesOn DEF CallSteps, Registering
  <1> QED BY <1>3, <1>4, <1>5, <1>6, <1>7

\* Letting someone in is mild.
LEMMA LetsMildly ==
  ASSUME IInv, NEW r \in Requests, NEW p \in People, Lets(p) \/ UNCHANGED place,
         invite' \in [Invites -> InviteRecords], CountOK',
         UNCHANGED <<event, accounts, request, moment, calls>>
  PROVE  Mild(r)
  <1>1. OthersOK
    BY Typed DEF IInv
  <1>2. /\ place' \in [People -> PlaceRecords]
        /\ \A q \in People : place'[q].status \in {place[q].status, "registered"}
    BY <1>1, LetsIn DEF OthersOK
  <1>3. OthersOK'
    BY <1>1, <1>2 DEF OthersOK
  <1>4. \A s \in Requests : call[s].op = "approve" => request'[call[s].who] = "pending"
    BY DEF IInv, LockOK
  <1> QED BY <1>2, <1>3, <1>4 DEF Mild

LEMMA InvitesKept ==
  ASSUME IInv, UNCHANGED invite
  PROVE  invite' \in [Invites -> InviteRecords] /\ CountOK'
  BY Typed DEF IInv, OthersOK, CountOK

LEMMA ReregisterKeeps ==
  ASSUME IInv, NEW r \in Requests, Reregister(r)
  PROVE  IInv'
  <1> DEFINE p == call[r].who
  <1>0. p \in People /\ call[r].at = "reregister"
    BY DEF Reregister, IInv, CallsOK, Shaped, Registering
  <1>1. \/ UNCHANGED place /\ Done(r)
        \/ UNCHANGED place /\ place[p].status = "none" /\ Step(r, "insert")
        \/ Lets(p) /\ After(r)
    BY DEF Reregister
  <1>2. Mild(r)
    <2>1. Lets(p) \/ UNCHANGED place
      BY <1>1
    <2> QED BY <1>0, <2>1, InvitesKept, LetsMildly DEF Reregister
  <1>3. CASE UNCHANGED place /\ Done(r)
    BY <1>2, <1>3, DoneKeeps
  <1>4. CASE UNCHANGED place /\ place[p].status = "none" /\ Step(r, "insert")
    BY <1>0, <1>2, <1>4, GoesOn DEF CallSteps, Registering, Reregister
  <1>5. CASE Lets(p) /\ After(r)
    <2>1. place'[p].status = "registered"
      BY <1>0, <1>5, Typed, LetsIn DEF IInv, OthersOK
    <2> QED BY <1>0, <1>2, <1>5, <2>1, AfterKeeps DEF Reregister
  <1> QED BY <1>1, <1>3, <1>4, <1>5

LEMMA InsertRowKeeps ==
  ASSUME IInv, NEW r \in Requests, InsertRow(r)
  PROVE  IInv'
  <1> DEFINE p == call[r].who
  <1>0. p \in People /\ call[r].at = "insert"
    BY DEF InsertRow, IInv, CallsOK, Shaped, Registering
  <1>1. invite' \in [Invites -> InviteRecords] /\ CountOK'
    <2>1. invite \in [Invites -> InviteRecords] /\ CountOK
      BY Typed DEF IInv, OthersOK
    <2>2. /\ Synced(p) \in [Invites -> InviteRecords]
          /\ \A i \in Invites : Synced(p)[i].uses = invite[i].uses
      BY <1>0, <2>1 DEF Synced, InviteRecords, InviteStatus
    <2> QED BY <2>1, <2>2 DEF InsertRow, CountOK
  <1>2. Mild(r)
    BY <1>0, <1>1, LetsMildly DEF InsertRow
  <1>3. call[r].lost \/ place[p].status \in {"none", "registered"}
    BY <1>0 DEF IInv, RowsOK, Knows
  <1>4. call[r].lost \/ place'[p].status = "registered"
    BY <1>0, <1>3, Typed, LetsIn DEF IInv, OthersOK, InsertRow
  <1> QED BY <1>0, <1>2, <1>4, AfterKeeps DEF InsertRow

LEMMA EnsureKeeps ==
  ASSUME IInv, NEW r \in Requests, Ensure(r)
  PROVE  IInv'
  <1> DEFINE p == call[r].who
  <1>0. p \in People /\ call[r].at = "ensure" /\ call[r].op = "accept"
    BY DEF Ensure, IInv, CallsOK, Shaped, Registering
  <1>1. Mild(r)
    BY <1>0, InvitesKept, LetsMildly DEF Ensure
  <1>2. call[r].lost \/ place[p].status = "registered"
    BY <1>0 DEF IInv, RowsOK, Knows
  <1>3. call[r].lost \/ place'[p].status = "registered"
    BY <1>0, <1>1, <1>2 DEF Mild
  <1> QED BY <1>0, <1>1, <1>3, GoesOn DEF CallSteps, Ensure

\* An invite whose use is written.
Rewritten(k, uses, status, by) == [k EXCEPT !.uses = uses, !.status = status, !.by = by]

LEMMA RewrittenOK ==
  ASSUME NEW k \in InviteRecords, NEW uses \in Nat, NEW status \in InviteStatus,
         NEW by \in People \cup {Anyone}
  PROVE  Rewritten(k, uses, status, by) \in InviteRecords /\ Rewritten(k, uses, status, by).uses = uses
  BY DEF Rewritten, InviteRecords

\* The use is counted only below the maximum.
LEMMA UseKeeps ==
  ASSUME IInv, NEW r \in Requests, Use(r)
  PROVE  IInv'
  <1> DEFINE i == call[r].inv
  <1>1. i \in Invites /\ call[r].who \in People
    BY DEF Use, IInv, CallsOK, Shaped, Registering
  <1>2. invite \in [Invites -> InviteRecords] /\ CountOK
    BY Typed DEF IInv, OthersOK
  <1>3. invite[i].uses < MaxUses => invite[i].uses + 1 <= MaxUses /\ invite[i].uses + 1 \in Nat
    BY <1>1, <1>2, AdmissionBoundsAssumption DEF InviteRecords
  <1>4. ASSUME invite[i].uses < MaxUses,
               invite' = [invite EXCEPT ![i].uses = @ + 1, ![i].status = "accepted",
                                        ![i].by = IF @ = Anyone THEN call[r].who ELSE @]
        PROVE  invite' \in [Invites -> InviteRecords] /\ CountOK'
    <2> DEFINE by == IF invite[i].by = Anyone THEN call[r].who ELSE invite[i].by
               n == Rewritten(invite[i], invite[i].uses + 1, "accepted", by)
    <2>1. invite' = [invite EXCEPT ![i] = n]
      BY <1>1, <1>2, <1>4 DEF Rewritten, InviteRecords
    <2>2. invite[i] \in InviteRecords /\ by \in People \cup {Anyone}
      BY <1>1, <1>2 DEF InviteRecords
    <2> HIDE DEF by
    <2>3. n \in InviteRecords /\ n.uses = invite[i].uses + 1
      BY <1>3, <1>4, <2>2, RewrittenOK DEF InviteStatus
    <2> HIDE DEF n
    <2> QED BY <1>1, <1>2, <1>3, <1>4, <2>1, <2>3 DEF CountOK
  <1>5. ASSUME invite' = [invite EXCEPT ![i].beyond = @ + 1]
        PROVE  invite' \in [Invites -> InviteRecords] /\ CountOK'
    <2> DEFINE n == [invite[i] EXCEPT !.beyond = @ + 1]
    <2>1. invite' = [invite EXCEPT ![i] = n]
      BY <1>5
    <2>2. n \in InviteRecords /\ n.uses = invite[i].uses
      BY <1>1, <1>2 DEF InviteRecords
    <2> HIDE DEF n
    <2> QED BY <1>1, <1>2, <2>1, <2>2 DEF CountOK
  <1>6. invite' \in [Invites -> InviteRecords] /\ CountOK'
    BY <1>4, <1>5, InvitesKept DEF Use, Good
  <1>7. Mild(r)
    BY <1>1, <1>6, LetsMildly DEF Use
  <1> QED BY <1>7, DoneKeeps DEF Use

\* The approval holds the lock: nobody else's request is touched.
LEMMA ApprovedKeeps ==
  ASSUME IInv, NEW r \in Requests, Approved(r)
  PROVE  IInv'
  <1>1. call[r].op = "approve" /\ call[r].who \in People
    BY DEF Approved, IInv, CallsOK, Shaped, Registering
  <1>2. OthersOK'
    BY <1>1, Typed DEF IInv, OthersOK, Approved
  <1>3. \A s \in Requests : s # r /\ call[s].op = "approve" => request'[call[s].who] = "pending"
    <2> SUFFICES ASSUME NEW s \in Requests, s # r, call[s].op = "approve"
                 PROVE  request'[call[s].who] = "pending"
      OBVIOUS
    <2>1. request[call[s].who] = "pending" /\ call[s].who # call[r].who
      BY <1>1 DEF IInv, LockOK
    <2> QED BY <2>1 DEF Approved
  <1>4. CountOK'
    BY InvitesKept DEF Approved
  <1>5. Mild(r)
    BY <1>2, <1>3, <1>4 DEF Mild, Approved
  <1> QED BY <1>5, DoneKeeps DEF Approved

\* What was read is below the maximum: one more is not above it.
LEMMA GoogleUseKeeps ==
  ASSUME IInv, NEW r \in Requests, GoogleUse(r)
  PROVE  IInv'
  <1> DEFINE i == call[r].inv
  <1>1. /\ i \in Invites /\ call[r].who \in People /\ call[r].op = "google"
        /\ call[r].uses < MaxUses /\ call[r].uses \in Nat /\ call[r].seen \in InviteStatus
    BY Typed DEF GoogleUse, IInv, CallsOK, Shaped, Registering, CallRecords
  <1>2. invite \in [Invites -> InviteRecords] /\ CountOK
    BY Typed DEF IInv, OthersOK
  <1>3. call[r].uses + 1 <= MaxUses /\ call[r].uses + 1 \in Nat
    BY <1>1, AdmissionBoundsAssumption
  <1> DEFINE status == IF call[r].uses + 1 >= MaxUses THEN "accepted" ELSE call[r].seen
             n == [Rewritten(invite[i], call[r].uses + 1, status, call[r].who) EXCEPT !.overwritten = TRUE]
  <1>4. /\ invite' = [invite EXCEPT ![i] = n]
        /\ invite[i] \in InviteRecords /\ status \in InviteStatus
    BY <1>1, <1>2 DEF Rewritten, InviteRecords, InviteStatus, GoogleUse
  <1> HIDE DEF status
  <1>7. n \in InviteRecords /\ n.uses = call[r].uses + 1
    <2>1. /\ Rewritten(invite[i], call[r].uses + 1, status, call[r].who) \in InviteRecords
          /\ Rewritten(invite[i], call[r].uses + 1, status, call[r].who).uses = call[r].uses + 1
      BY <1>1, <1>3, <1>4, RewrittenOK
    <2> QED BY <2>1 DEF InviteRecords
  <1> HIDE DEF n
  <1>5. invite' \in [Invites -> InviteRecords] /\ CountOK'
    BY <1>1, <1>2, <1>3, <1>4, <1>7 DEF CountOK
  <1>6. Mild(r)
    BY <1>1, <1>5, LetsMildly DEF GoogleUse
  <1> QED BY <1>1, <1>6, GoesOn DEF GoogleUse, CallSteps

LEMMA GoogleRowKeeps ==
  ASSUME IInv, NEW r \in Requests, GoogleRow(r)
  PROVE  IInv'
  <1>1. call[r].who \in People
    BY DEF GoogleRow, IInv, CallsOK, Shaped, Registering
  <1>2. Mild(r)
    BY <1>1, InvitesKept, LetsMildly DEF GoogleRow
  <1> QED BY <1>2, DoneKeeps DEF GoogleRow

\* What only the invites and the clock change is mild too.
LEMMA InvitesMildly ==
  ASSUME IInv, NEW r \in Requests, invite' \in [Invites -> InviteRecords], CountOK',
         moment' \in Moments, UNCHANGED <<event, accounts, place, request, calls>>
  PROVE  Mild(r)
  <1>1. OthersOK'
    BY Typed DEF IInv, OthersOK
  <1>2. \A s \in Requests : call[s].op = "approve" => request'[call[s].who] = "pending"
    BY DEF IInv, LockOK
  <1> QED BY <1>1, <1>2 DEF Mild

LEMMA CreateKeeps ==
  ASSUME IInv, NEW r \in Requests, Create(r)
  PROVE  IInv'
  <1> DEFINE p == call[r].who
             old == IF p = Anyone THEN {} ELSE Waiting(p)
             stale == {i \in old : place[p].status = "removed" /\ place[p].at > invite[i].at}
  <1>1. p \in People \cup {Anyone} /\ invite \in [Invites -> InviteRecords] /\ CountOK
        /\ moment \in Moments
    BY Typed DEF IInv, OthersOK, CallRecords
  <1>2. CASE UNCHANGED <<invite, moment>>
    <2>1. Mild(r)
      BY <1>1, <1>2, InvitesMildly, InvitesKept DEF Create
    <2> QED BY <2>1, DoneKeeps DEF Create
  <1>3. ASSUME NEW i \in Invites, Later,
               invite' = [j \in Invites |->
                 IF j = i THEN [NoInvite EXCEPT !.for = p, !.status = "pending", !.at = moment']
                 ELSE IF j \in stale THEN [invite[j] EXCEPT !.status = "revoked"] ELSE invite[j]]
        PROVE  IInv'
    <2> HIDE DEF p, stale
    <2>1. moment' \in Moments
      BY <1>1, <1>3, AdmissionBoundsAssumption DEF Later, Moments
    <2> DEFINE n == [NoInvite EXCEPT !.for = p, !.status = "pending", !.at = moment']
    <2>2. n \in InviteRecords /\ n.uses = 0
      BY <1>1, <2>1 DEF NoInvite, InviteRecords, InviteStatus
    <2> HIDE DEF n
    <2>3. \A j \in Invites : [invite[j] EXCEPT !.status = "revoked"] \in InviteRecords
                             /\ [invite[j] EXCEPT !.status = "revoked"].uses = invite[j].uses
      BY <1>1 DEF InviteRecords, InviteStatus
    <2>4. invite' = [j \in Invites |-> IF j = i THEN n
                     ELSE IF j \in stale THEN [invite[j] EXCEPT !.status = "revoked"] ELSE invite[j]]
      BY <1>3 DEF n
    <2>5. invite' \in [Invites -> InviteRecords]
      BY <1>1, <2>2, <2>3, <2>4
    <2>6. \A j \in Invites : invite'[j].uses \in {0, invite[j].uses}
      BY <2>2, <2>3, <2>4
    <2>7. CountOK'
      BY <1>1, <2>6, AdmissionBoundsAssumption DEF CountOK
    <2>8. Mild(r)
      BY <2>1, <2>5, <2>7, InvitesMildly DEF Create
    <2> QED BY <2>8, DoneKeeps DEF Create
  <1> QED BY <1>2, <1>3 DEF Create

\* Rewriting the status of invites is all that these do to them.
LEMMA Restated ==
  ASSUME IInv, NEW S, NEW status \in InviteStatus,
         invite' = [i \in Invites |-> IF i \in S THEN [invite[i] EXCEPT !.status = status] ELSE invite[i]]
  PROVE  invite' \in [Invites -> InviteRecords] /\ CountOK'
  <1>1. invite \in [Invites -> InviteRecords] /\ CountOK
    BY Typed DEF IInv, OthersOK
  <1>2. \A j \in Invites : [invite[j] EXCEPT !.status = status] \in InviteRecords
                           /\ [invite[j] EXCEPT !.status = status].uses = invite[j].uses
    BY <1>1 DEF InviteRecords
  <1> QED BY <1>1, <1>2 DEF CountOK

LEMMA KickWithdrawsKeeps ==
  ASSUME IInv, NEW r \in Requests, KickWithdraws(r)
  PROVE  IInv'
  <1> DEFINE S == {i \in Invites : invite[i].for = call[r].who /\ invite[i].status \in {"pending", "accepted"}}
  <1>1. invite' = [i \in Invites |-> IF i \in S THEN [invite[i] EXCEPT !.status = "revoked"] ELSE invite[i]]
    BY DEF KickWithdraws
  <1> HIDE DEF S
  <1>2. invite' \in [Invites -> InviteRecords] /\ CountOK'
    BY <1>1, Restated DEF InviteStatus
  <1>3. Mild(r)
    BY <1>2, InvitesMildly, Typed DEF KickWithdraws, IInv, OthersOK
  <1> QED BY <1>3, DoneKeeps DEF KickWithdraws

LEMMA BreaksKeeps ==
  ASSUME IInv, NEW r \in Requests, Breaks(r)
  PROVE  IInv'
  BY Quietly, DoneKeeps DEF Breaks

-----------------------------------------------------------------------------
(* Places lost, and all that no call is part of *)

\* Where people lose their places, their calls know it; a call put in the
\* place of another knows nothing.
LEMMA LosesKeeps ==
  ASSUME IInv, NEW P,
         call' \in [Requests -> CallRecords],
         \A s \in Requests :
           \/ call'[s] = Losing(P)[s]
           \/ /\ Shaped(call'[s]) /\ call'[s].op # "approve"
              /\ call'[s].at \notin {"ensure", "use", "approve", "insert"},
         OthersOK', CountOK', UNCHANGED request,
         \A p \in People : p \in P \/ place'[p] = place[p]
  PROVE  IInv'
  <1>1. CallsOK /\ LockOK /\ RowsOK /\ call \in [Requests -> CallRecords]
    BY Typed DEF IInv
  <1>2. \A s \in Requests :
          LET c == Losing(P)[s] IN
          /\ c.at = call[s].at /\ c.op = call[s].op /\ c.who = call[s].who
          /\ c.inv = call[s].inv /\ c.uses = call[s].uses
          /\ call[s].who \in P => c.lost
          /\ call[s].lost => c.lost
          /\ ~c.lost => c = call[s]
    BY <1>1, Loses
  <1>3. CallsOK'
    <2> SUFFICES ASSUME NEW s \in Requests, call'[s] = Losing(P)[s] PROVE Shaped(call'[s])
      BY DEF CallsOK
    <2>1. Shaped(call[s])
      BY <1>1 DEF CallsOK
    <2> QED BY <1>2, <2>1 DEF Shaped
  <1>4. \A s \in Requests : call'[s].op = "approve" => call[s].op = "approve" /\ call'[s].who = call[s].who
    BY <1>2
  <1>5. LockOK'
    BY <1>1, <1>4 DEF LockOK
  <1>6. RowsOK'
    <2> SUFFICES ASSUME NEW s \in Requests, call'[s].at \in {"ensure", "use", "approve", "insert"}
                 PROVE  Knows(call'[s], place'[call'[s].who].status)
      BY DEF RowsOK, Knows
    <2>1. call'[s] = Losing(P)[s] /\ call[s].at \in {"ensure", "use", "approve", "insert"}
      BY <1>2
    <2>2. call[s].who \in People
      BY <1>1, <2>1 DEF CallsOK, Shaped, Registering
    <2>3. CASE call'[s].lost
      BY <2>3 DEF Knows
    <2>4. CASE ~call'[s].lost
      <3>1. call'[s] = call[s] /\ call[s].who \notin P
        BY <1>2, <2>1, <2>4
      <3>2. place'[call[s].who] = place[call[s].who]
        BY <2>2, <3>1
      <3> QED BY <1>1, <3>1, <3>2 DEF RowsOK
    <2> QED BY <2>3, <2>4
  <1>7. DoorTypeOK'
    BY Typed
  <1> QED BY <1>3, <1>5, <1>6, <1>7 DEF IInv

LEMMA KickKeeps ==
  ASSUME IInv, NEW r \in Requests, NEW p \in People, Kick(r, p)
  PROVE  IInv'
  <1>1. call \in [Requests -> CallRecords] /\ OthersOK
    BY Typed DEF IInv
  <1>2. PICK k : /\ k = Plain("kick", "withdraw", p)
                 /\ call' = [Losing({p}) EXCEPT ![r] = k]
    BY DEF Kick, Plain
  <1>3. k \in CallRecords /\ k.op = "kick" /\ k.at = "withdraw" /\ k.who = p
    BY <1>2, NewPlain DEF Ops, CallSteps
  <1>4. Losing({p}) \in [Requests -> CallRecords]
    BY <1>1, Loses
  <1>5. /\ call' \in [Requests -> CallRecords] /\ call'[r] = k
        /\ \A s \in Requests : s # r => call'[s] = Losing({p})[s]
    BY <1>2, <1>3, <1>4
  <1>6. Shaped(k)
    BY <1>3 DEF Shaped, Registering
  <1>7. moment' \in Moments /\ calls' \in 0..MaxCalls
    BY <1>1, AdmissionBoundsAssumption DEF Kick, Later, Counts, Moments, OthersOK
  <1>8. [status |-> "removed", at |-> moment'] \in PlaceRecords
    BY <1>7 DEF PlaceRecords, PlaceStatus
  <1>9. /\ place' \in [People -> PlaceRecords]
        /\ \A q \in People : q \in {p} \/ place'[q] = place[q]
    BY <1>1, <1>8 DEF Kick, OthersOK
  <1>10. OthersOK' /\ CountOK'
    BY <1>1, <1>7, <1>9, InvitesKept DEF Kick, OthersOK
  <1>11. \A s \in Requests :
           \/ call'[s] = Losing({p})[s]
           \/ /\ Shaped(call'[s]) /\ call'[s].op # "approve"
              /\ call'[s].at \notin {"ensure", "use", "approve", "insert"}
    BY <1>3, <1>5, <1>6
  <1> QED BY <1>5, <1>9, <1>10, <1>11, LosesKeeps DEF Kick

\* A row moves under its owner.
LEMMA RowMoves ==
  ASSUME IInv, NEW p \in People, NEW status \in PlaceStatus, Counts,
         place' = [place EXCEPT ![p] = Row(status)], call' = Losing({p}),
         UNCHANGED <<event, accounts, invite, request, moment>>
  PROVE  IInv'
  <1>1. call \in [Requests -> CallRecords] /\ OthersOK
    BY Typed DEF IInv
  <1>2. call' \in [Requests -> CallRecords]
    BY <1>1, Loses
  <1>3. Row(status) \in PlaceRecords
    BY AdmissionBoundsAssumption DEF Row, PlaceRecords, Moments
  <1>4. /\ place' \in [People -> PlaceRecords]
        /\ \A q \in People : q \in {p} \/ place'[q] = place[q]
    BY <1>1, <1>3 DEF OthersOK
  <1>5. calls' \in 0..MaxCalls
    BY <1>1, AdmissionBoundsAssumption DEF Counts, OthersOK
  <1>6. OthersOK' /\ CountOK'
    BY <1>1, <1>4, <1>5, InvitesKept DEF OthersOK
  <1> QED BY <1>2, <1>4, <1>6, LosesKeeps

LEMMA EventSweptKeeps ==
  ASSUME IInv, EventSwept
  PROVE  IInv'
  <1>1. call \in [Requests -> CallRecords] /\ OthersOK
    BY Typed DEF IInv
  <1>2. call' \in [Requests -> CallRecords] /\ call' = Losing(People)
    BY <1>1, Loses DEF EventSwept
  <1>3. Row("left") \in PlaceRecords
    BY AdmissionBoundsAssumption DEF Row, PlaceRecords, PlaceStatus, Moments
  <1>4. place' \in [People -> PlaceRecords]
    BY <1>1, <1>3 DEF EventSwept, OthersOK
  <1> DEFINE S == {i \in Invites : invite[i].status = "pending"}
  <1>5. invite' = [i \in Invites |-> IF i \in S THEN [invite[i] EXCEPT !.status = "expired"] ELSE invite[i]]
    BY DEF EventSwept
  <1> HIDE DEF S
  <1>6. invite' \in [Invites -> InviteRecords] /\ CountOK'
    BY <1>5, Restated DEF InviteStatus
  <1>7. OthersOK'
    BY <1>1, <1>4, <1>6 DEF EventSwept, OthersOK
  <1> QED BY <1>2, <1>6, <1>7, LosesKeeps DEF EventSwept

\* Invites and requests that move where no call does.
LEMMA StillKeeps ==
  ASSUME IInv, UNCHANGED <<call, place>>, OthersOK', CountOK',
         \A s \in Requests : call[s].op = "approve" => request'[call[s].who] = "pending"
  PROVE  IInv'
  BY NoCallMoves, Typed DEF IInv

LEMMA InviteMoves ==
  ASSUME IInv, NEW i \in Invites, NEW k \in InviteRecords, k.uses = invite[i].uses,
         invite' = [invite EXCEPT ![i] = k], Counts,
         UNCHANGED <<event, accounts, place, request, call, moment>>
  PROVE  IInv'
  <1>1. OthersOK
    BY Typed DEF IInv
  <1>2. calls' \in 0..MaxCalls
    BY <1>1, AdmissionBoundsAssumption DEF Counts, OthersOK
  <1>3. OthersOK' /\ CountOK'
    BY <1>1, <1>2 DEF OthersOK, CountOK, IInv
  <1>4. \A s \in Requests : call[s].op = "approve" => request'[call[s].who] = "pending"
    BY DEF IInv, LockOK
  <1> QED BY <1>3, <1>4, StillKeeps

LEMMA InvitesMove ==
  ASSUME IInv, NEW i \in Invites
  PROVE  /\ Withdraw(i) => IInv'
         /\ Expire(i) => IInv'
         /\ \A p \in People : MarkAccepted(p, i) => IInv'
  <1>1. invite[i] \in InviteRecords
    BY Typed DEF IInv, OthersOK
  <1>2. ASSUME Withdraw(i) PROVE IInv'
    <2>1. PICK k \in InviteRecords : k.uses = invite[i].uses /\ k = [invite[i] EXCEPT !.status = "revoked"]
      BY <1>1 DEF InviteRecords, InviteStatus
    <2>2. invite' = [invite EXCEPT ![i] = k]
      BY <1>2, <2>1 DEF Withdraw
    <2> QED BY <1>2, <2>1, <2>2, InviteMoves DEF Withdraw
  <1>3. ASSUME Expire(i) PROVE IInv'
    <2>1. PICK k \in InviteRecords : k.uses = invite[i].uses /\ k = [invite[i] EXCEPT !.dead = TRUE]
      BY <1>1 DEF InviteRecords
    <2>2. invite' = [invite EXCEPT ![i] = k]
      BY <1>3, <2>1 DEF Expire
    <2> QED BY <1>3, <2>1, <2>2, InviteMoves DEF Expire
  <1>4. ASSUME NEW p \in People, MarkAccepted(p, i) PROVE IInv'
    <2> DEFINE by == IF invite[i].by = Anyone THEN p ELSE invite[i].by
    <2>1. by \in People \cup {Anyone} /\ invite[i].uses \in Nat
      BY <1>1 DEF InviteRecords
    <2>2. invite' = [invite EXCEPT ![i] = Rewritten(invite[i], invite[i].uses, "accepted", by)]
      BY <1>1, <1>4 DEF MarkAccepted, Rewritten, InviteRecords
    <2> HIDE DEF by
    <2>3. /\ Rewritten(invite[i], invite[i].uses, "accepted", by) \in InviteRecords
          /\ Rewritten(invite[i], invite[i].uses, "accepted", by).uses = invite[i].uses
      BY <1>1, <2>1, RewrittenOK DEF InviteStatus
    <2> QED BY <1>4, <2>2, <2>3, InviteMoves DEF MarkAccepted
  <1> QED BY <1>2, <1>3, <1>4

\* A request moves only while nobody holds its lock.
LEMMA RequestMoves ==
  ASSUME IInv, NEW p \in People, Unlocked(p), Counts,
         NEW status \in {"pending", "declined", "withdrawn"},
         request' = [request EXCEPT ![p] = status],
         UNCHANGED <<event, accounts, place, invite, call, moment>>
  PROVE  IInv'
  <1>1. OthersOK
    BY Typed DEF IInv
  <1>2. calls' \in 0..MaxCalls
    BY <1>1, AdmissionBoundsAssumption DEF Counts, OthersOK
  <1>3. OthersOK' /\ CountOK'
    BY <1>1, <1>2, InvitesKept DEF OthersOK
  <1>4. \A s \in Requests : call[s].op = "approve" => request'[call[s].who] = "pending"
    BY DEF IInv, LockOK, Unlocked
  <1> QED BY <1>3, <1>4, StillKeeps

LEMMA EventEndsKeeps ==
  ASSUME IInv, EventEnds
  PROVE  IInv'
  <1>1. OthersOK' /\ CountOK'
    BY Typed, InvitesKept DEF EventEnds, IInv, OthersOK
  <1>2. \A s \in Requests : call[s].op = "approve" => request'[call[s].who] = "pending"
    BY DEF IInv, LockOK, EventEnds
  <1> QED BY <1>1, <1>2, StillKeeps DEF EventEnds

-----------------------------------------------------------------------------
(* The invariant *)

LEMMA Begun == DoorInit => IInv
  <1> SUFFICES ASSUME DoorInit PROVE IInv
    OBVIOUS
  <1>1. call \in [Requests -> CallRecords] /\ \A r \in Requests : call[r] = NoCall
    BY NoCallIs DEF DoorInit
  <1>2. NoInvite \in InviteRecords /\ NoInvite.uses = 0
    BY AdmissionBoundsAssumption DEF NoInvite, InviteRecords, InviteStatus, Moments
  <1>3. Row("none") \in PlaceRecords
    BY AdmissionBoundsAssumption DEF Row, PlaceRecords, PlaceStatus, Moments
  <1>4. OthersOK
    BY <1>2, <1>3, AdmissionBoundsAssumption DEF DoorInit, OthersOK, Moments
  <1>5. CountOK
    BY <1>2, AdmissionBoundsAssumption DEF DoorInit, CountOK
  <1>6. CallsOK /\ LockOK /\ RowsOK
    BY <1>1, NoCallIs DEF CallsOK, LockOK, RowsOK, Shaped, Registering, Knows
  <1> QED BY <1>1, <1>4, <1>5, <1>6, Typed DEF IInv

LEMMA Kept == IInv /\ [DoorNext]_doorVars => IInv'
  <1> SUFFICES ASSUME IInv, [DoorNext]_doorVars PROVE IInv'
    OBVIOUS
  <1>1. ASSUME NEW r \in Requests, Starts(r) PROVE IInv'
    BY <1>1, StartsKeeps, InviteKeeps, KickKeeps DEF Starts
  <1>2. ASSUME NEW r \in Requests, Continues(r) PROVE IInv'
    BY <1>2, ReadEventKeeps, ReadRowKeeps, ReregisterKeeps, InsertRowKeeps, EnsureKeeps, UseKeeps,
       ApprovedKeeps, GoogleUseKeeps, GoogleRowKeeps, CreateKeeps, KickWithdrawsKeeps, BreaksKeeps
       DEF Continues
  <1>3. ASSUME NEW p \in People, Moves(p) PROVE IInv'
    BY <1>3, RowMoves DEF Moves, PlaceStatus
  <1>4. ASSUME NEW p \in People, Unregister(p) PROVE IInv'
    BY <1>4, RowMoves DEF Unregister, PlaceStatus
  <1>5. ASSUME NEW p \in People, Ask(p) PROVE IInv'
    BY <1>5, RequestMoves DEF Ask
  <1>6. ASSUME NEW p \in People, Answer(p, "declined") \/ Answer(p, "withdrawn") PROVE IInv'
    BY <1>6, RequestMoves DEF Answer
  <1>7. CASE Around
    BY <1>3, <1>4, <1>5, <1>6, <1>7, EventEndsKeeps, EventSweptKeeps, InvitesMove DEF Around
  <1>8. CASE UNCHANGED doorVars
    <2>1. OthersOK' /\ CountOK'
      BY <1>8, Typed DEF doorVars, IInv, OthersOK, CountOK
    <2>2. \A s \in Requests : call[s].op = "approve" => request'[call[s].who] = "pending"
      BY <1>8 DEF IInv, LockOK, doorVars
    <2> QED BY <1>8, <2>1, <2>2, StillKeeps DEF doorVars
  <1> QED BY <1>1, <1>2, <1>7, <1>8 DEF DoorNext

LEMMA Always == DoorSpec => []IInv
  BY Begun, Kept, PTL DEF DoorSpec

-----------------------------------------------------------------------------
(* The accepts beyond the count *)

\* While an invite is good for a use, none was let in beyond the count.  From when
\* it no longer is, only the accepts under way then can still get in.
Pending(i) ==
  {r \in Requests : call[r].op = "accept" /\ ~call[r].repeat /\ call[r].inv = i}
Within(i) ==
  ~invite[i].overwritten =>
    IF Good(i) THEN invite[i].beyond = 0
    ELSE invite[i].uses + invite[i].beyond + Cardinality(Pending(i))
           <= MaxUses + Cardinality(Requests) - 1
BeyondOK == \A i \in Invites : Within(i)

LEMMA PendingCounts ==
  ASSUME NEW i
  PROVE  /\ IsFiniteSet(Pending(i)) /\ Cardinality(Pending(i)) \in Nat
         /\ Cardinality(Requests) \in Nat /\ Cardinality(Pending(i)) <= Cardinality(Requests)
  <1>1. Pending(i) \subseteq Requests /\ IsFiniteSet(Requests)
    BY AdmissionBoundsAssumption DEF Pending
  <1> QED BY <1>1, FS_Subset, FS_CardinalityType

\* An accept that is to be counted begins only by an invite that is good for it.
CallsPass ==
  \A s \in Requests : call'[s].op = "accept" /\ ~call'[s].repeat =>
    \/ call[s].op = "accept" /\ ~call[s].repeat /\ call[s].inv = call'[s].inv
    \/ Good(call'[s].inv)

LEMMA Passes ==
  ASSUME IInv, DoorNext
  PROVE  CallsPass
  <1>0. call \in [Requests -> CallRecords] /\ invite \in [Invites -> InviteRecords]
    BY Typed DEF IInv, OthersOK
  <1>1. ASSUME NEW r \in Requests, Done(r) PROVE CallsPass
    BY <1>0, <1>1, EndsCall, NoCallIs DEF CallsPass
  <1>2. ASSUME NEW r \in Requests, NEW at \in CallSteps, Step(r, at) PROVE CallsPass
    BY <1>0, <1>2, StepsOn DEF CallsPass
  <1>3. ASSUME NEW r \in Requests, NEW k \in CallRecords, k.op # "accept", Begins(r, k)
        PROVE  CallsPass
    <2>1. call'[r] = k /\ \A s \in Requests : s # r => call'[s] = call[s]
      BY <1>0, <1>3, Starting
    <2> QED BY <1>3, <2>1 DEF CallsPass
  <1>4. ASSUME NEW P, call' = Losing(P) PROVE CallsPass
    BY <1>0, <1>4, Loses DEF CallsPass
  <1>5. ASSUME UNCHANGED call PROVE CallsPass
    BY <1>5 DEF CallsPass
  <1>6. ASSUME NEW r \in Requests, NEW p \in People, AcceptInvite(r, p) PROVE CallsPass
    <2>1. PICK i \in Invites :
            /\ Alive(i) /\ (invite[i].uses < MaxUses \/ Repeats(p, i))
            /\ Begins(r, [NoCall EXCEPT !.op = "accept", !.at = "count", !.who = p, !.inv = i,
                                        !.repeat = Repeats(p, i)])
      BY <1>6 DEF AcceptInvite
    <2>a. Begins(r, Accepting(p, i, Repeats(p, i)))
      BY <2>1 DEF Accepting
    <2>2. PICK b \in BOOLEAN : b = Repeats(p, i)
      BY DEF Repeats
    <2>3. ~b => Good(i)
      BY <2>1, <2>2 DEF Alive, Good
    <2>4. PICK k : k = Accepting(p, i, b)
      OBVIOUS
    <2>5. k \in CallRecords /\ k.inv = i /\ k.repeat = b
      BY <2>4, NewAccept
    <2>6. call'[r] = k /\ \A s \in Requests : s # r => call'[s] = call[s]
      BY <1>0, <2>a, <2>2, <2>4, <2>5, Starting
    <2> QED BY <2>3, <2>5, <2>6 DEF CallsPass
  <1>7. ASSUME NEW r \in Requests, NEW p \in People, GoogleSignUp(r, p) PROVE CallsPass
    <2>0. PICK i \in Invites :
            Begins(r, [NoCall EXCEPT !.op = "google", !.at = "googleUse", !.who = p, !.inv = i,
                                     !.uses = invite[i].uses, !.seen = invite[i].status])
      BY <1>7 DEF GoogleSignUp
    <2>1. Begins(r, SigningUp(p, i, invite[i].uses, invite[i].status))
      BY <2>0 DEF SigningUp
    <2>2. PICK n \in Nat, status \in InviteStatus : n = invite[i].uses /\ status = invite[i].status
      BY <1>0 DEF InviteRecords
    <2>3. PICK k : k = SigningUp(p, i, n, status)
      OBVIOUS
    <2>4. k \in CallRecords /\ k.op = "google"
      BY <2>3, NewGoogle
    <2>5. Begins(r, k)
      BY <2>1, <2>2, <2>3
    <2> QED BY <1>3, <2>4, <2>5
  <1>8. ASSUME NEW r \in Requests, NEW p \in People, Kick(r, p) PROVE CallsPass
    <2>1. PICK k : k = Plain("kick", "withdraw", p) /\ call' = [Losing({p}) EXCEPT ![r] = k]
      BY <1>8 DEF Kick, Plain
    <2>2. PICK f \in [Requests -> CallRecords] : f = Losing({p})
      BY <1>0, Loses
    <2>3. k.op = "kick" /\ call' = [f EXCEPT ![r] = k]
      BY <2>1, <2>2, NewPlain DEF Ops, CallSteps
    <2>4. call'[r] = k /\ \A s \in Requests : s # r => call'[s] = f[s]
      BY <2>2, <2>3
    <2> QED BY <1>0, <2>2, <2>3, <2>4, Loses DEF CallsPass
  <1>9. ASSUME NEW r \in Requests, Starts(r) PROVE CallsPass
    <2>1. ASSUME NEW p \in People, Register(r, p) PROVE CallsPass
      <3>1. PICK k : k = Plain("register", "count", p) /\ Begins(r, k)
        BY <2>1 DEF Register, Plain
      <3> QED BY <1>3, <3>1, NewPlain DEF Ops, CallSteps
    <2>2. ASSUME NEW p \in People, Approve(r, p) PROVE CallsPass
      <3>1. PICK k : k = Plain("approve", "count", p) /\ Begins(r, k)
        BY <2>2 DEF Approve, Plain
      <3> QED BY <1>3, <3>1, NewPlain DEF Ops, CallSteps
    <2>3. ASSUME NEW p \in People \cup {Anyone}, Invite(r, p) PROVE CallsPass
      <3>1. PICK k : k = Plain("invite", "create", p) /\ Begins(r, k)
        BY <2>3 DEF Invite, Plain
      <3> QED BY <1>3, <3>1, NewPlain DEF Ops, CallSteps
    <2> QED BY <1>6, <1>7, <1>8, <1>9, <2>1, <2>2, <2>3 DEF Starts
  <1>10. ASSUME NEW r \in Requests, Continues(r) PROVE CallsPass
    <2>1. ASSUME NEW full \in BOOLEAN, call' = [call EXCEPT ![r].at = "row", ![r].full = full]
          PROVE  CallsPass
      BY <1>0, <2>1 DEF CallsPass, CallRecords
    <2>2. After(r) => CallsPass
      BY <1>1, <1>2 DEF After, CallSteps
    <2>3. CASE ReadEvent(r)
      BY <1>1, <2>1, <2>3 DEF ReadEvent
    <2>4. CASE ReadRow(r)
      BY <1>1, <1>2, <2>2, <2>4 DEF ReadRow, CallSteps
    <2>5. CASE Reregister(r) \/ InsertRow(r)
      BY <1>1, <1>2, <2>2, <2>5 DEF Reregister, InsertRow, CallSteps
    <2>6. CASE Ensure(r) \/ GoogleUse(r)
      BY <1>2, <2>6 DEF Ensure, GoogleUse, CallSteps
    <2>7. CASE Use(r) \/ Approved(r) \/ GoogleRow(r) \/ Create(r) \/ KickWithdraws(r) \/ Breaks(r)
      <3>1. Done(r)
        BY <2>7 DEF Use, Approved, GoogleRow, Create, KickWithdraws, Breaks
      <3> QED BY <1>1, <3>1
    <2> QED BY <1>10, <2>3, <2>4, <2>5, <2>6, <2>7 DEF Continues
  <1>11. CASE Around
    BY <1>4, <1>5, <1>11 DEF Around, EventEnds, EventSwept, Withdraw, Expire, MarkAccepted, Moves,
                             Unregister, Ask, Answer
  <1> QED BY <1>9, <1>10, <1>11 DEF DoorNext


\* What a step does to an invite: it leaves the count and who is beyond it as they
\* are, makes the invite, writes the count of a sign-up with Google, or is a use.
Stays(i) ==
  /\ invite'[i].uses = invite[i].uses /\ invite'[i].beyond = invite[i].beyond
  /\ invite'[i].overwritten = invite[i].overwritten
  /\ invite[i].status \in {"revoked", "expired"} => invite'[i].status \in {"revoked", "expired"}
Made(i) == invite'[i].uses = 0 /\ invite'[i].beyond = 0 /\ invite'[i].status = "pending"
UsedBy(i, r) == Use(r) /\ call[r].inv = i /\ ~call[r].repeat

LEMMA InvitePasses ==
  ASSUME IInv, DoorNext, NEW i \in Invites
  PROVE  Stays(i) \/ Made(i) \/ invite'[i].overwritten \/ \E r \in Requests : UsedBy(i, r)
  <1> DEFINE Goal == Stays(i) \/ Made(i) \/ invite'[i].overwritten \/ \E r \in Requests : UsedBy(i, r)
  <1>0. invite \in [Invites -> InviteRecords] /\ invite[i] \in InviteRecords
    BY Typed DEF IInv, OthersOK
  <1>1. ASSUME invite'[i] = invite[i] PROVE Goal
    BY <1>1 DEF Stays
  <1>2. ASSUME NEW s, invite'[i] = [invite[i] EXCEPT !.status = s],
               s \in {"revoked", "expired"} \/ invite[i].status \notin {"revoked", "expired"}
        PROVE  Goal
    BY <1>0, <1>2 DEF Stays, InviteRecords
  <1>3. ASSUME NEW r \in Requests, Starts(r) PROVE Goal
    <2>1. UNCHANGED invite
      BY <1>3 DEF Starts, Invite, AcceptInvite, Register, Approve, GoogleSignUp, Kick
    <2> QED BY <1>1, <2>1
  <1>4. ASSUME NEW r \in Requests, Continues(r) PROVE Goal
    <2>1. CASE InsertRow(r)
      <3>1. \/ invite'[i] = invite[i]
            \/ /\ invite[i].status = "pending"
               /\ invite'[i] = [invite[i] EXCEPT !.status = "accepted", !.by = call[r].who]
        BY <2>1 DEF InsertRow, Synced
      <3> QED BY <1>0, <1>1, <3>1 DEF Stays, InviteRecords
    <2>2. CASE Use(r)
      <3>1. CASE call[r].inv = i /\ ~call[r].repeat
        BY <2>2, <3>1 DEF UsedBy
      <3>2. CASE call[r].repeat \/ call[r].inv # i
        <4>1. invite'[i] = invite[i]
          BY <1>0, <2>2, <3>2 DEF Use
        <4> QED BY <1>1, <4>1
      <3> QED BY <3>1, <3>2
    <2>3. CASE GoogleUse(r)
      <3> DEFINE j == call[r].inv
      <3>1. PICK s, n : invite' = [invite EXCEPT ![j].uses = n, ![j].status = s,
                                              ![j].by = call[r].who, ![j].overwritten = TRUE]
        BY <2>3 DEF GoogleUse
      <3>2. invite'[i] = invite[i] \/ invite'[i].overwritten
        BY <1>0, <3>1 DEF InviteRecords
      <3> QED BY <1>1, <3>2
    <2>4. CASE Create(r)
      <3> DEFINE p == call[r].who
                 old == IF p = Anyone THEN {} ELSE Waiting(p)
                 stale == {j \in old : place[p].status = "removed" /\ place[p].at > invite[j].at}
      <3>1. CASE UNCHANGED invite
        BY <1>1, <3>1
      <3>2. CASE ~UNCHANGED invite
        <4>1. PICK n \in Invites :
                /\ invite[n].status = "none"
                /\ invite' = [j \in Invites |->
                     IF j = n THEN [NoInvite EXCEPT !.for = p, !.status = "pending", !.at = moment']
                     ELSE IF j \in stale THEN [invite[j] EXCEPT !.status = "revoked"] ELSE invite[j]]
          BY <2>4, <3>2 DEF Create
        <4> HIDE DEF stale
        <4>2. invite'[i] \in {invite[i], [invite[i] EXCEPT !.status = "revoked"],
                              [NoInvite EXCEPT !.for = p, !.status = "pending", !.at = moment']}
          BY <4>1
        <4>3. CASE invite'[i] = [NoInvite EXCEPT !.for = p, !.status = "pending", !.at = moment']
          BY <4>3 DEF NoInvite, Made
        <4> QED BY <1>1, <1>2, <4>2, <4>3
      <3> QED BY <3>1, <3>2
    <2>5. CASE KickWithdraws(r)
      <3>1. invite'[i] \in {invite[i], [invite[i] EXCEPT !.status = "revoked"]}
        BY <2>5 DEF KickWithdraws
      <3> QED BY <1>1, <1>2, <3>1
    <2>6. CASE ReadEvent(r) \/ ReadRow(r) \/ Reregister(r) \/ Ensure(r) \/ Approved(r)
               \/ GoogleRow(r) \/ Breaks(r)
      <3>1. UNCHANGED invite
        BY <2>6 DEF ReadEvent, ReadRow, Reregister, Ensure, Approved, GoogleRow, Breaks
      <3> QED BY <1>1, <3>1
    <2> QED BY <1>4, <2>1, <2>2, <2>3, <2>4, <2>5, <2>6 DEF Continues
  <1>5. CASE Around
    <2>1. ASSUME NEW j \in Invites, Withdraw(j) PROVE Goal
      <3>1. invite'[i] \in {invite[i], [invite[i] EXCEPT !.status = "revoked"]}
        BY <1>0, <2>1 DEF Withdraw
      <3> QED BY <1>1, <1>2, <3>1
    <2>2. ASSUME NEW j \in Invites, Expire(j) PROVE Goal
      <3>1. invite'[i] \in {invite[i], [invite[i] EXCEPT !.dead = TRUE]}
        BY <1>0, <2>2 DEF Expire
      <3> QED BY <1>0, <1>1, <3>1 DEF Stays, InviteRecords
    <2>3. ASSUME NEW j \in Invites, NEW p \in People, MarkAccepted(p, j) PROVE Goal
      <3>1. PICK q : invite' = [invite EXCEPT ![j].status = "accepted", ![j].by = q]
        BY <2>3 DEF MarkAccepted
      <3>2. \/ invite'[i] = invite[i]
            \/ /\ invite[i].status \in {"pending", "accepted"}
               /\ invite'[i] = [invite[i] EXCEPT !.status = "accepted", !.by = q]
        BY <1>0, <2>3, <3>1 DEF MarkAccepted, Alive
      <3> QED BY <1>0, <1>1, <3>2 DEF Stays, InviteRecords
    <2>4. CASE EventSwept
      <3>1. invite'[i] \in {invite[i], [invite[i] EXCEPT !.status = "expired"]}
        BY <2>4 DEF EventSwept
      <3> QED BY <1>1, <1>2, <3>1
    <2>5. CASE UNCHANGED invite
      BY <1>1, <2>5
    <2> QED BY <1>5, <2>1, <2>2, <2>3, <2>4, <2>5 DEF Around, EventEnds, Moves, Unregister, Ask, Answer
  <1> QED BY <1>3, <1>4, <1>5 DEF DoorNext

\* An invite no accept counts against: those to come in by it are among those
\* that were, unless it was good for one more until now.
LEMMA StaysWithin ==
  ASSUME IInv, IInv', NEW i \in Invites, Within(i), CallsPass, Stays(i)
  PROVE  Within(i)'
  <1>1. invite[i] \in InviteRecords /\ invite'[i] \in InviteRecords
    BY Typed DEF IInv, OthersOK
  <1>2. /\ invite[i].uses \in Nat /\ invite[i].beyond \in Nat
        /\ MaxUses \in Nat /\ MaxUses > 0
    BY <1>1, AdmissionBoundsAssumption DEF InviteRecords
  <1>3. /\ Cardinality(Pending(i)) \in Nat /\ Cardinality(Pending(i))' \in Nat
        /\ Cardinality(Requests) \in Nat /\ Cardinality(Pending(i))' <= Cardinality(Requests)
    <2>1. Pending(i)' \subseteq Requests /\ IsFiniteSet(Requests)
      BY AdmissionBoundsAssumption DEF Pending
    <2> QED BY <2>1, PendingCounts, FS_Subset, FS_CardinalityType
  <1>4. CASE Good(i)'
    BY <1>2, <1>4 DEF Within, Good, Stays
  <1>5. CASE ~Good(i)' /\ Good(i)
    <2>1. ~invite'[i].overwritten => invite'[i].beyond = 0
      BY <1>5 DEF Within, Stays
    <2>2. invite'[i].uses < MaxUses
      BY <1>5 DEF Good, Stays
    <2>3. invite'[i].uses \in Nat
      BY <1>1 DEF InviteRecords
    <2> QED BY <1>2, <1>3, <1>5, <2>1, <2>2, <2>3 DEF Within
  <1>6. CASE ~Good(i)' /\ ~Good(i)
    <2>1. Pending(i)' \subseteq Pending(i)
      BY <1>6 DEF Pending, CallsPass
    <2>2. Cardinality(Pending(i))' <= Cardinality(Pending(i))
      BY <2>1, PendingCounts, FS_Subset
    <2> QED BY <1>2, <1>3, <1>6, <2>2 DEF Within, Stays
  <1> QED BY <1>4, <1>5, <1>6

\* A use: who is counted or not is not to come any more.
LEMMA UsedWithin ==
  ASSUME IInv, IInv', NEW i \in Invites, Within(i), NEW r \in Requests, UsedBy(i, r)
  PROVE  Within(i)'
  <1>1. invite \in [Invites -> InviteRecords] /\ invite[i] \in InviteRecords
    BY Typed DEF IInv, OthersOK
  <1>2. /\ invite[i].uses \in Nat /\ invite[i].beyond \in Nat
        /\ MaxUses \in Nat /\ MaxUses > 0
    BY <1>1, AdmissionBoundsAssumption DEF InviteRecords
  <1>3. r \in Pending(i)
    BY DEF UsedBy, Use, IInv, CallsOK, Shaped, Pending
  <1>4. Pending(i)' = Pending(i) \ {r}
    <2>1. /\ call'[r].op # "accept" /\ \A s \in Requests : s # r => call'[s] = call[s]
      BY Typed, EndsCall, NoCallIs DEF UsedBy, Use, IInv
    <2> QED BY <2>1 DEF Pending
  <1>5. /\ Cardinality(Pending(i))' = Cardinality(Pending(i)) - 1
        /\ Cardinality(Pending(i)) \in Nat /\ Cardinality(Requests) \in Nat
        /\ Cardinality(Pending(i)) <= Cardinality(Requests)
    BY <1>3, <1>4, PendingCounts, FS_RemoveElement
  <1>6. CASE Good(i)
    <2>1. invite' = [invite EXCEPT ![i].uses = @ + 1, ![i].status = "accepted",
                                   ![i].by = IF @ = Anyone THEN call[r].who ELSE @]
      BY <1>6 DEF UsedBy, Use
    <2>2. /\ invite'[i].uses = invite[i].uses + 1 /\ invite'[i].beyond = invite[i].beyond
          /\ invite'[i].overwritten = invite[i].overwritten /\ invite'[i].status = "accepted"
      BY <1>1, <2>1 DEF InviteRecords
    <2>3. ~invite'[i].overwritten => invite'[i].beyond = 0
      BY <1>6, <2>2 DEF Within
    <2> QED BY <1>2, <1>5, <1>6, <2>2, <2>3 DEF Within, Good
  <1>7. CASE ~Good(i)
    <2>1. invite' = [invite EXCEPT ![i].beyond = @ + 1]
      BY <1>7 DEF UsedBy, Use
    <2>2. /\ invite'[i].uses = invite[i].uses /\ invite'[i].beyond = invite[i].beyond + 1
          /\ invite'[i].overwritten = invite[i].overwritten /\ invite'[i].status = invite[i].status
      BY <1>1, <2>1 DEF InviteRecords
    <2>3. ~Good(i)'
      BY <1>7, <2>2 DEF Good
    <2> QED BY <1>2, <1>5, <1>7, <2>2, <2>3 DEF Within
  <1> QED BY <1>6, <1>7

LEMMA BeyondKept ==
  ASSUME IInv, BeyondOK, DoorNext
  PROVE  BeyondOK'
  <1>1. IInv' /\ CallsPass
    BY Kept, Passes
  <1>2. ASSUME NEW i \in Invites PROVE Within(i)'
    <2>1. Within(i)
      BY DEF BeyondOK
    <2>2. CASE Made(i)
      BY <2>2, AdmissionBoundsAssumption DEF Made, Within, Good
    <2>3. CASE invite'[i].overwritten
      BY <2>3 DEF Within
    <2> QED BY <1>1, <2>1, <2>2, <2>3, InvitePasses, StaysWithin, UsedWithin
  <1> QED BY <1>2 DEF BeyondOK

LEMMA BeyondAlways == DoorSpec => []BeyondOK
  <1>1. DoorInit => BeyondOK
    <2> SUFFICES ASSUME DoorInit, NEW i \in Invites PROVE Within(i)
      BY DEF BeyondOK
    <2>1. invite[i] = NoInvite
      BY DEF DoorInit
    <2> QED BY <2>1, AdmissionBoundsAssumption DEF Within, Good, NoInvite
  <1>2. IInv /\ BeyondOK /\ [DoorNext]_doorVars => BeyondOK'
    <2>1. ASSUME BeyondOK, UNCHANGED doorVars PROVE BeyondOK'
      BY <2>1 DEF doorVars, BeyondOK, Within, Good, Pending
    <2> QED BY <2>1, BeyondKept
  <1> QED BY <1>1, <1>2, Always, PTL DEF DoorSpec

-----------------------------------------------------------------------------
(* The promises *)

\* An invite answers yes to no more accepts than it allows and than were under way
\* with the last one it counted, whatever is withdrawn or cut off between an
\* accept's check and its count (acceptInvite, Phases A and C).
THEOREM BeyondStaysAtOnce == DoorSpec => []BeyondOnlyAtOnce
  <1>1. IInv /\ BeyondOK => BeyondOnlyAtOnce
    <2> SUFFICES ASSUME IInv, BeyondOK, NEW i \in Invites, ~invite[i].overwritten
                 PROVE  invite[i].uses + invite[i].beyond <= MaxUses + Cardinality(Requests) - 1
      BY DEF BeyondOnlyAtOnce
    <2>1. invite[i] \in InviteRecords
      BY Typed DEF IInv, OthersOK
    <2>2. invite[i].uses \in Nat /\ invite[i].beyond \in Nat /\ MaxUses \in Nat
      BY <2>1, AdmissionBoundsAssumption DEF InviteRecords
    <2>3. /\ Cardinality(Pending(i)) \in Nat /\ Cardinality(Requests) \in Nat
      BY PendingCounts
    <2>4. Within(i)
      BY DEF BeyondOK
    <2> QED BY <2>2, <2>3, <2>4 DEF Within, Good
  <1> QED BY <1>1, Always, BeyondAlways, PTL

\* Whoever is answered yes is in, unless they lost their place meanwhile
\* (acceptInvite, approveRequest over registerParticipant).
THEOREM YesIsIn == DoorSpec => []YesMeansIn
  <1>1. IInv => YesMeansIn
    BY DEF IInv, RowsOK, Knows, YesMeansIn
  <1> QED BY <1>1, Always, PTL

LEMMA DecisionKept ==
  ASSUME IInv, DoorNext, NEW p \in People, request[p] \in {"approved", "declined"}
  PROVE  request'[p] = request[p]
  <1>0. request \in [People -> {"none", "pending", "approved", "declined", "withdrawn"}]
    BY Typed DEF IInv, OthersOK
  <1>1. ASSUME NEW r \in Requests, Starts(r) PROVE UNCHANGED request
    BY <1>1 DEF Starts, Invite, AcceptInvite, Register, Approve, GoogleSignUp, Kick
  <1>2. ASSUME NEW r \in Requests, Continues(r), ~Approved(r) PROVE UNCHANGED request
    BY <1>2 DEF Continues, ReadEvent, ReadRow, Reregister, InsertRow, Ensure, Use, GoogleUse,
                GoogleRow, Create, KickWithdraws, Breaks
  <1>3. ASSUME NEW r \in Requests, Approved(r) PROVE request'[p] = request[p]
    <2>1. call[r].op = "approve"
      BY <1>3 DEF IInv, CallsOK, Shaped, Approved
    <2>2. request[call[r].who] = "pending"
      BY <2>1 DEF IInv, LockOK
    <2> QED BY <1>0, <1>3, <2>2 DEF Approved
  <1>4. ASSUME NEW q \in People, Ask(q) PROVE request'[p] = request[p]
    BY <1>0, <1>4 DEF Ask
  <1>5. ASSUME NEW q \in People, Answer(q, "declined") \/ Answer(q, "withdrawn")
        PROVE  request'[p] = request[p]
    BY <1>0, <1>5 DEF Answer
  <1>6. CASE Around
    BY <1>4, <1>5, <1>6 DEF Around, EventEnds, EventSwept, Withdraw, Expire, MarkAccepted,
                            Moves, Unregister
  <1> QED BY <1>1, <1>2, <1>3, <1>6 DEF DoorNext

\* A decided request is never decided again, whichever of an approval and a
\* decline the host's two clicks bring first (approveRequest, declineRequest).
THEOREM DecisionIsFinal == DoorSpec => DecisionStands
  <1>1. IInv /\ [DoorNext]_doorVars =>
          [\A p \in People : request[p] \in {"approved", "declined"} => request'[p] = request[p]]_doorVars
    BY DecisionKept
  <1> QED BY <1>1, Always, PTL DEF DoorSpec, DecisionStands

LEMMA WithdrawnKept ==
  ASSUME IInv, DoorNext, NEW i \in Invites, invite[i].status = "revoked"
  PROVE  \/ invite'[i].status = "revoked"
         \/ \E r \in Requests : call[r].op = "google" /\ call'[r].at = "googleRow"
  <1> DEFINE Goal == \/ invite'[i].status = "revoked"
                     \/ \E r \in Requests : call[r].op = "google" /\ call'[r].at = "googleRow"
  <1>0. invite \in [Invites -> InviteRecords] /\ call \in [Requests -> CallRecords]
    BY Typed DEF IInv, OthersOK
  <1>1. ASSUME NEW r \in Requests, Starts(r) PROVE UNCHANGED invite
    BY <1>1 DEF Starts, Invite, AcceptInvite, Register, Approve, GoogleSignUp, Kick
  <1>2. ASSUME NEW r \in Requests, Continues(r) PROVE Goal
    <2>1. CASE InsertRow(r)
      BY <2>1 DEF InsertRow, Synced
    <2>2. CASE Use(r)
      <3>1. CASE UNCHANGED invite
        BY <3>1
      <3>2. CASE invite' = [invite EXCEPT ![call[r].inv].beyond = @ + 1]
        BY <1>0, <3>2 DEF InviteRecords
      <3>3. CASE Good(call[r].inv) /\ ~call[r].repeat
        <4>1. /\ Good(call[r].inv)
              /\ invite' = [invite EXCEPT ![call[r].inv].uses = @ + 1, ![call[r].inv].status = "accepted",
                                          ![call[r].inv].by = IF @ = Anyone THEN call[r].who ELSE @]
          BY <2>2, <3>3 DEF Use
        <4>2. call[r].inv # i
          BY <4>1 DEF Good
        <4>3. invite'[i] = invite[i]
          BY <1>0, <4>1, <4>2
        <4> QED BY <4>3
      <3> QED BY <2>2, <3>1, <3>2, <3>3 DEF Use
    <2>3. CASE GoogleUse(r)
      <3>1. call[r].op = "google"
        BY <2>3 DEF GoogleUse, IInv, CallsOK, Shaped
      <3>2. call'[r].at = "googleRow"
        BY <1>0, <2>3, StepsOn DEF GoogleUse, CallSteps
      <3> QED BY <3>1, <3>2
    <2>4. CASE Create(r)
      <3> DEFINE p == call[r].who
                 old == IF p = Anyone THEN {} ELSE Waiting(p)
                 stale == {j \in old : place[p].status = "removed" /\ place[p].at > invite[j].at}
      <3>1. CASE UNCHANGED invite
        BY <3>1
      <3>2. CASE ~UNCHANGED invite
        <4>1. PICK n \in Invites :
                /\ invite[n].status = "none"
                /\ invite' = [j \in Invites |->
                     IF j = n THEN [NoInvite EXCEPT !.for = p, !.status = "pending", !.at = moment']
                     ELSE IF j \in stale THEN [invite[j] EXCEPT !.status = "revoked"] ELSE invite[j]]
          BY <2>4, <3>2 DEF Create
        <4> HIDE DEF stale
        <4>2. invite'[i] \in {invite[i], [invite[i] EXCEPT !.status = "revoked"]}
          BY <4>1
        <4> QED BY <1>0, <4>2 DEF InviteRecords
      <3> QED BY <3>1, <3>2
    <2>5. CASE KickWithdraws(r)
      BY <2>5 DEF KickWithdraws
    <2>6. CASE ReadEvent(r) \/ ReadRow(r) \/ Reregister(r) \/ Ensure(r) \/ Approved(r)
               \/ GoogleRow(r) \/ Breaks(r)
      BY <2>6 DEF ReadEvent, ReadRow, Reregister, Ensure, Approved, GoogleRow, Breaks
    <2> QED BY <1>2, <2>1, <2>2, <2>3, <2>4, <2>5, <2>6 DEF Continues
  <1>3. CASE Around
    <2>1. ASSUME NEW j \in Invites, Withdraw(j) \/ Expire(j) \/ \E p \in People : MarkAccepted(p, j)
          PROVE  Goal
      BY <1>0, <2>1 DEF Withdraw, Expire, MarkAccepted, Alive, InviteRecords
    <2>2. CASE EventSwept
      BY <2>2 DEF EventSwept
    <2> QED BY <1>3, <2>1, <2>2 DEF Around, EventEnds, Moves, Unregister, Ask, Answer
  <1> QED BY <1>1, <1>2, <1>3 DEF DoorNext

\* Nothing under way when an invite was withdrawn brings it back, a sign-up
\* with Google excepted (acceptInvite, registerParticipant, createInvite).
THEOREM WithdrawalIsFinal == DoorSpec => WithdrawnStays
  <1>1. IInv /\ [DoorNext]_doorVars =>
          [\A i \in Invites : invite[i].status = "revoked" =>
             \/ invite'[i].status = "revoked"
             \/ \E r \in Requests : call[r].op = "google" /\ call'[r].at = "googleRow"]_doorVars
    BY WithdrawnKept
  <1> QED BY <1>1, Always, PTL DEF DoorSpec, WithdrawnStays
=============================================================================
