------------------------------ MODULE Admission ------------------------------
(***************************************************************************)
(* The ways into one event that asks for approval: a personal invite, a    *)
(* shared link, a request the host approves, a registration over REST, and *)
(* a sign-up with Google that carries an invite code.                      *)
(*                                                                         *)
(* An accept is three commits (check the invite, register, count the use), *)
(* a registration reads before it writes, and an approval holds the lock   *)
(* of the request while another connection registers the person.  Between  *)
(* any two of those steps the host may kick, withdraw or decline, the      *)
(* person may leave, the event may end and the server may stop.            *)
(*                                                                         *)
(* How many places are taken is left out: a registration finds the event   *)
(* full or it does not.  Time only orders invites and kicks.               *)
(***************************************************************************)
EXTENDS Naturals, FiniteSets

CONSTANTS
  People,
  Newcomers,   \* of them, who has no account yet
  Requests,    \* HTTP requests and kicks that may be under way at once
  MaxUses,     \* how often an invite may be used (max_uses, 2 by default)
  MaxInvites,  \* bound: invites
  MaxMoments,  \* bound: invites and kicks
  MaxCalls     \* bound: calls of any kind

Anyone == "anyone"
ASSUME AnyoneAssumption == Anyone \notin People
ASSUME AdmissionBoundsAssumption ==
  /\ MaxUses \in Nat \ {0} /\ IsFiniteSet(Requests)
  /\ MaxInvites \in Nat /\ MaxMoments \in Nat /\ MaxCalls \in Nat

VARIABLES
  event,     \* "open", then "over", then "swept"
  accounts,  \* who has one
  place,     \* the session_participants row: its status, and when they were removed
  invite,    \* the event's rows of invites
  request,   \* each person's event_join_requests row
  call,      \* what each request has read and does next
  moment,    \* the present one
  calls      \* calls so far

doorVars == <<event, accounts, place, invite, request, call, moment, calls>>

Invites == 1..MaxInvites
Moments == 0..MaxMoments
PlaceStatus == {"none", "registered", "away", "left", "removed"}
InviteStatus == {"none", "pending", "accepted", "revoked", "expired"}
\* The last two are history: the accepts it let in without counting them, and
\* whether a sign-up with Google wrote its count.
NoInvite == [for |-> Anyone, status |-> "none", uses |-> 0, by |-> Anyone, at |-> 0, dead |-> FALSE,
             beyond |-> 0, overwritten |-> FALSE]
NoCall == [op |-> "none", at |-> "idle", who |-> Anyone, inv |-> 0, full |-> FALSE,
           repeat |-> FALSE, uses |-> 0, seen |-> "none", lost |-> FALSE]
Ops == {"none", "accept", "register", "approve", "google", "invite", "kick"}
CallSteps == {"idle", "count", "row", "reregister", "insert", "ensure", "use", "approve",
          "googleUse", "googleRow", "create", "withdraw"}

DoorTypeOK ==
  /\ event \in {"open", "over", "swept"}
  /\ accounts \subseteq People
  /\ place \in [People -> [status : PlaceStatus, at : Moments]]
  /\ invite \in [Invites -> [for : People \cup {Anyone}, status : InviteStatus, uses : Nat,
                             by : People \cup {Anyone}, at : Moments, dead : BOOLEAN,
                             beyond : Nat, overwritten : BOOLEAN]]
  /\ request \in [People -> {"none", "pending", "approved", "declined", "withdrawn"}]
  /\ call \in [Requests -> [op : Ops, at : CallSteps, who : People \cup {Anyone}, inv : 0..MaxInvites,
                            full : BOOLEAN, repeat : BOOLEAN, uses : Nat,
                            seen : InviteStatus, lost : BOOLEAN]]
  /\ moment \in Moments /\ calls \in 0..MaxCalls

-----------------------------------------------------------------------------

Counts == calls < MaxCalls /\ calls' = calls + 1
Begins(r, k) == call[r] = NoCall /\ Counts /\ call' = [call EXCEPT ![r] = k]
Step(r, at) == call' = [call EXCEPT ![r].at = at]
Done(r) == call' = [call EXCEPT ![r] = NoCall]
Later == moment < MaxMoments /\ moment' = moment + 1

Row(status) == [status |-> status, at |-> 0]
Lets(p) == place' = [place EXCEPT ![p] = Row("registered")]

\* Usable: not answered with a no, and not expired.  (An accept that finds the
\* time is up writes 'expired' in the transaction it then rolls back.)
Alive(i) == invite[i].status \in {"pending", "accepted"} /\ ~invite[i].dead
Mine(p, i) == invite[i].for \in {p, Anyone}

\* The accept of a personal invite lifts a removal made before the invite.
Personal(k) == k.op = "accept" /\ invite[k.inv].for = k.who
Lifts(k) == Personal(k) /\ place[k.who].at < invite[k.inv].at

-----------------------------------------------------------------------------
(* Three ways to a registration *)

\* Who used it up may come again, and is not counted again.
Repeats(p, i) == invite[i].uses >= MaxUses /\ invite[i].by = p

\* Phase A of acceptInvite, a transaction of its own.
AcceptInvite(r, p) ==
  \E i \in Invites :
    /\ p \in accounts /\ Mine(p, i) /\ Alive(i) /\ event = "open"
    /\ invite[i].uses < MaxUses \/ Repeats(p, i)
    /\ Begins(r, [NoCall EXCEPT !.op = "accept", !.at = "count", !.who = p, !.inv = i,
                                !.repeat = Repeats(p, i)])
    /\ UNCHANGED <<event, accounts, place, invite, request, moment>>

Register(r, p) ==
  /\ p \in accounts
  /\ Begins(r, [NoCall EXCEPT !.op = "register", !.at = "count", !.who = p])
  /\ UNCHANGED <<event, accounts, place, invite, request, moment>>

\* The request's row is locked until the approval ends: FOR UPDATE.
UnlockedAlways(p) == TRUE
Unlocked(p) == \A r \in Requests : call[r].op = "approve" => call[r].who # p

Approve(r, p) ==
  /\ request[p] = "pending" /\ Unlocked(p)
  /\ Begins(r, [NoCall EXCEPT !.op = "approve", !.at = "count", !.who = p])
  /\ UNCHANGED <<event, accounts, place, invite, request, moment>>

-----------------------------------------------------------------------------
(* registerParticipant *)

Invited(p) == \E i \in Invites : Alive(i) /\ p \in {invite[i].for, invite[i].by}

\* canRegister of an approval event, for someone who is not its pod's.
MayRegister(k) ==
  \/ k.op \in {"accept", "approve"}
  \/ place[k.who].status # "none"
  \/ request[k.who] = "approved"
  \/ Invited(k.who)

ReadEvent(r) ==
  LET k == call[r] IN
  /\ k.at = "count"
  /\ IF event = "open" /\ MayRegister(k)
     THEN \E full \in BOOLEAN :
            IF full /\ ~Personal(k) THEN Done(r)
            ELSE call' = [call EXCEPT ![r].at = "row", ![r].full = full]
     ELSE Done(r)
  /\ UNCHANGED <<event, accounts, place, invite, request, moment, calls>>

\* Where a registration that finds the person in, or puts them in, goes on.
After(r) ==
  CASE call[r].op = "accept"  -> Step(r, "ensure")
    [] call[r].op = "approve" -> Step(r, "approve")
    [] OTHER                  -> Done(r)

AlreadyInOrLeft(status) == status \in {"registered", "left"}
AlreadyIn(status) == status = "registered"
ReadRow(r) ==
  LET k == call[r]
      s == place[k.who].status
      readmits == s = "removed" /\ Lifts(k) IN
  /\ k.at = "row"
  /\ CASE (k.full \/ s = "removed") /\ ~readmits -> Done(r)
       [] ~k.full /\ AlreadyIn(s)                -> After(r)
       [] ~k.full /\ s = "none"                  -> Step(r, "insert")
       [] OTHER                                  -> Step(r, "reregister")
  /\ UNCHANGED <<event, accounts, place, invite, request, moment, calls>>

\* The UPDATE asks for the removal again; a row that went is inserted afresh.
Reregister(r) ==
  LET k == call[r]
      s == place[k.who].status IN
  /\ k.at = "reregister"
  /\ IF s = "none" THEN Step(r, "insert") /\ UNCHANGED place
     ELSE IF s # "removed" \/ Lifts(k) THEN Lets(k.who) /\ After(r)
     ELSE Done(r) /\ UNCHANGED place
  /\ UNCHANGED <<event, accounts, invite, request, moment, calls>>

\* INSERT ... ON CONFLICT DO NOTHING, and with it every pending invite of the
\* person is marked accepted, though none was used.
Synced(p) ==
  [i \in Invites |-> IF invite[i].status = "pending" /\ invite[i].for = p
                     THEN [invite[i] EXCEPT !.status = "accepted", !.by = p] ELSE invite[i]]
InsertRow(r) ==
  LET p == call[r].who IN
  /\ call[r].at = "insert"
  /\ IF place[p].status = "none" THEN Lets(p) ELSE UNCHANGED place
  /\ invite' = Synced(p)
  /\ After(r)
  /\ UNCHANGED <<event, accounts, request, moment, calls>>

-----------------------------------------------------------------------------
(* How each ends *)

\* applyInviteRegistration's own insert, after the registration.
Ensure(r) ==
  LET k == call[r]
      s == place[k.who].status IN
  /\ k.at = "ensure"
  /\ IF s = "none" \/ (s = "removed" /\ Lifts(k)) THEN Lets(k.who) ELSE UNCHANGED place
  /\ Step(r, "use")
  /\ UNCHANGED <<event, accounts, invite, request, moment, calls>>

\* Phase C counts the use, if the invite is still good for one.  Where another
\* accept had the last one meanwhile, or it was withdrawn, this one is in all the
\* same, and is answered yes.
GoodUnasked(i) == invite[i].uses < MaxUses
GoodPendingOnly(i) == invite[i].uses < MaxUses /\ invite[i].status = "pending"
Good(i) == invite[i].uses < MaxUses /\ invite[i].status \notin {"revoked", "expired"}
Use(r) ==
  LET k == call[r] IN
  /\ k.at = "use"
  /\ invite' = IF k.repeat THEN invite
               ELSE IF Good(k.inv)
               THEN [invite EXCEPT ![k.inv].uses = @ + 1, ![k.inv].status = "accepted",
                                   ![k.inv].by = IF @ = Anyone THEN k.who ELSE @]
               ELSE [invite EXCEPT ![k.inv].beyond = @ + 1]
  /\ Done(r)
  /\ UNCHANGED <<event, accounts, place, request, moment, calls>>

\* The approval's last statement does not look at the request again.
Approved(r) ==
  /\ call[r].at = "approve"
  /\ request' = [request EXCEPT ![call[r].who] = "approved"]
  /\ Done(r)
  /\ UNCHANGED <<event, accounts, place, invite, moment, calls>>

-----------------------------------------------------------------------------
(* The sign-up with Google *)

\* findOrCreateGoogleUser: the invite is read, the account made, the use
\* written from what was read, the row written whatever it says.
GoogleSignUp(r, p) ==
  \E i \in Invites :
    /\ p \notin accounts /\ Alive(i) /\ invite[i].uses < MaxUses
    /\ Begins(r, [NoCall EXCEPT !.op = "google", !.at = "googleUse", !.who = p, !.inv = i,
                                !.uses = invite[i].uses, !.seen = invite[i].status])
    /\ accounts' = accounts \cup {p}
    /\ UNCHANGED <<event, place, invite, request, moment>>

GoogleUse(r) ==
  LET k == call[r] IN
  /\ k.at = "googleUse"
  /\ invite' = [invite EXCEPT ![k.inv].uses = k.uses + 1,
                              ![k.inv].status = IF k.uses + 1 >= MaxUses THEN "accepted" ELSE k.seen,
                              ![k.inv].by = k.who, ![k.inv].overwritten = TRUE]
  /\ Step(r, "googleRow")
  /\ UNCHANGED <<event, accounts, place, request, moment, calls>>

GoogleRow(r) ==
  /\ call[r].at = "googleRow"
  /\ Lets(call[r].who)
  /\ Done(r)
  /\ UNCHANGED <<event, accounts, invite, request, moment, calls>>

-----------------------------------------------------------------------------
(* Invites *)

\* createInvite: not to someone who is in...
Invite(r, p) ==
  /\ event = "open"
  /\ p # Anyone => place[p].status \in {"none", "left", "removed"}
  /\ Begins(r, [NoCall EXCEPT !.op = "invite", !.at = "create", !.who = p])
  /\ UNCHANGED <<event, accounts, place, invite, request, moment>>

\* ... nor where one waits already, unless it is from before their removal.
\* One lock per person and event makes the check and the insert one step.
Waiting(p) == {i \in Invites : invite[i].for = p /\ invite[i].status = "pending" /\ ~invite[i].dead}
Create(r) ==
  LET p == call[r].who
      old == IF p = Anyone THEN {} ELSE Waiting(p)
      stale == {i \in old : place[p].status = "removed" /\ place[p].at > invite[i].at} IN
  /\ call[r].at = "create"
  /\ Done(r)
  /\ IF old \subseteq stale
     THEN \E i \in Invites :
            /\ invite[i].status = "none" /\ \A j \in 1..(i - 1) : invite[j].status # "none"
            /\ Later
            /\ invite' = [j \in Invites |->
                 IF j = i THEN [NoInvite EXCEPT !.for = p, !.status = "pending", !.at = moment']
                 ELSE IF j \in stale THEN [invite[j] EXCEPT !.status = "revoked"] ELSE invite[j]]
     ELSE UNCHANGED <<invite, moment>>
  /\ UNCHANGED <<event, accounts, place, request, calls>>

\* revokeInvite by the host, declineInvite by the person: one statement each.
Withdraw(i) ==
  /\ invite[i].status = "pending" /\ Counts
  /\ invite' = [invite EXCEPT ![i].status = "revoked"]
  /\ UNCHANGED <<event, accounts, place, request, call, moment>>

\* markInviteAccepted: under the invite's lock, and it registers nobody.
MarkAccepted(p, i) ==
  /\ p \in accounts /\ Mine(p, i) /\ Alive(i) /\ event = "open" /\ Counts
  /\ invite[i].uses < MaxUses \/ invite[i].by = p
  /\ invite' = [invite EXCEPT ![i].status = "accepted", ![i].by = IF @ = Anyone THEN p ELSE @]
  /\ UNCHANGED <<event, accounts, place, request, call, moment>>

\* Its time is up.
Expire(i) ==
  /\ invite[i].status # "none" /\ ~invite[i].dead /\ Counts
  /\ invite' = [invite EXCEPT ![i].dead = TRUE]
  /\ UNCHANGED <<event, accounts, place, request, call, moment>>

-----------------------------------------------------------------------------
(* The host, the person, the event *)

\* The calls of a person who loses their place meanwhile.
Losing(P) == [r \in Requests |-> IF call[r].who \in P THEN [call[r] EXCEPT !.lost = TRUE] ELSE call[r]]

\* The row first.  Someone let in without a row is given one.
Kick(r, p) ==
  /\ call[r] = NoCall /\ Counts /\ Later
  /\ place' = [place EXCEPT ![p] = [status |-> "removed", at |-> moment']]
  /\ call' = [Losing({p}) EXCEPT ![r] =
                [NoCall EXCEPT !.op = "kick", !.at = "withdraw", !.who = p]]
  /\ UNCHANGED <<event, accounts, invite, request>>

\* Then their personal invites, best effort.
KickWithdraws(r) ==
  /\ call[r].at = "withdraw"
  /\ invite' = [i \in Invites |->
       IF invite[i].for = call[r].who /\ invite[i].status \in {"pending", "accepted"}
       THEN [invite[i] EXCEPT !.status = "revoked"] ELSE invite[i]]
  /\ Done(r)
  /\ UNCHANGED <<event, accounts, place, request, moment, calls>>

\* The event itself moves a row: a drop, a no-show, a leave, a return.
Moves(p) ==
  /\ place[p].status \in {"registered", "away", "left"} /\ Counts
  /\ \E s \in {"registered", "away", "left"} \ {place[p].status} :
       place' = [place EXCEPT ![p] = Row(s)]
  /\ call' = Losing({p})
  /\ UNCHANGED <<event, accounts, invite, request, moment>>

Unregister(p) ==
  /\ event = "open" /\ place[p].status \in {"registered", "away", "left"} /\ Counts
  /\ place' = [place EXCEPT ![p] = Row("none")]
  /\ call' = Losing({p})
  /\ UNCHANGED <<event, accounts, invite, request, moment>>

EventEnds ==
  /\ event = "open" /\ event' = "over"
  /\ UNCHANGED <<accounts, place, invite, request, call, moment, calls>>

\* completeSession's sweeps of the rows and of the invites that wait.
EventSwept ==
  /\ event = "over" /\ event' = "swept"
  /\ place' = [p \in People |-> IF place[p].status = "registered" THEN Row("left") ELSE place[p]]
  /\ invite' = [i \in Invites |-> IF invite[i].status = "pending"
                                  THEN [invite[i] EXCEPT !.status = "expired"] ELSE invite[i]]
  /\ call' = Losing(People)
  /\ UNCHANGED <<accounts, request, moment, calls>>

\* requestToJoin: a withdrawn request is asked again, a decided one stays.
Ask(p) ==
  /\ p \in accounts /\ Counts /\ Unlocked(p)
  /\ place[p].status = "none" /\ ~Invited(p)
  /\ request[p] \in {"none", "withdrawn"}
  /\ request' = [request EXCEPT ![p] = "pending"]
  /\ UNCHANGED <<event, accounts, place, invite, call, moment>>

\* declineRequest, withdrawRequest: one statement each, which waits for the lock.
Answer(p, status) ==
  /\ request[p] = "pending" /\ Unlocked(p) /\ Counts
  /\ request' = [request EXCEPT ![p] = status]
  /\ UNCHANGED <<event, accounts, place, invite, call, moment>>

\* The server stops, or a statement fails: what was committed stays.
Breaks(r) ==
  /\ call[r] # NoCall
  /\ Done(r)
  /\ UNCHANGED <<event, accounts, place, invite, request, moment, calls>>

-----------------------------------------------------------------------------

DoorInit ==
  /\ event = "open"
  /\ accounts = People \ Newcomers
  /\ place = [p \in People |-> Row("none")]
  /\ invite = [i \in Invites |-> NoInvite]
  /\ request = [p \in People |-> "none"]
  /\ call = [r \in Requests |-> NoCall]
  /\ moment = 0 /\ calls = 0

Starts(r) ==
  \/ Invite(r, Anyone)
  \/ \E p \in People :
       AcceptInvite(r, p) \/ Register(r, p) \/ Approve(r, p) \/ GoogleSignUp(r, p)
       \/ Invite(r, p) \/ Kick(r, p)
Continues(r) ==
  \/ ReadEvent(r) \/ ReadRow(r) \/ Reregister(r) \/ InsertRow(r) \/ Ensure(r) \/ Use(r)
  \/ Approved(r) \/ GoogleUse(r) \/ GoogleRow(r) \/ Create(r) \/ KickWithdraws(r)
  \/ Breaks(r)
Around ==
  \/ EventEnds \/ EventSwept
  \/ \E i \in Invites : Withdraw(i) \/ Expire(i) \/ \E p \in People : MarkAccepted(p, i)
  \/ \E p \in People :
       Moves(p) \/ Unregister(p) \/ Ask(p) \/ Answer(p, "declined") \/ Answer(p, "withdrawn")

DoorNext == (\E r \in Requests : Starts(r) \/ Continues(r)) \/ Around
DoorSpec == DoorInit /\ [][DoorNext]_doorVars

-----------------------------------------------------------------------------
(* What it promises *)

\* An invite answers yes to no more accepts than it allows and than were under
\* way with the last one it counted: whatever is withdrawn, kicked, swept or cut
\* off between the check and the count, nobody who comes after it is used up gets
\* in by it (acceptInvite, Phases A and C).  The count is what is asked, so this is
\* said of invites whose count no sign-up with Google has written.
BeyondOnlyAtOnce ==
  \A i \in Invites : ~invite[i].overwritten =>
    invite[i].uses + invite[i].beyond <= MaxUses + Cardinality(Requests) - 1

\* A withdrawn invite is not brought back by an accept, a registration or a
\* mark that was under way when it was withdrawn.  (A Google sign-up writes
\* back the status it read, and does.)
WithdrawnStays ==
  [][\A i \in Invites : invite[i].status = "revoked" =>
       \/ invite'[i].status = "revoked"
       \/ \E r \in Requests : call[r].op = "google" /\ call'[r].at = "googleRow"]_doorVars

\* A decision on a request is final: a decline and an approval that race do
\* not overwrite each other (event-requests.service.ts).
DecisionStands ==
  [][\A p \in People : request[p] \in {"approved", "declined"} => request'[p] = request[p]]_doorVars

\* Whoever is answered yes, by an accept or an approval, is in the event,
\* unless they left, were kicked or the event ended meanwhile.
YesMeansIn ==
  \A r \in Requests : call[r].at \in {"use", "approve"} /\ ~call[r].lost =>
    place[call[r].who].status = "registered"

-----------------------------------------------------------------------------
(* What a comment says and the code does not keep: no run checks it *)

\* An invite lets in no more accepts than it allows.  Two that read its last use
\* both register before either counts; one of them is beyond it.  (A sign-up with
\* Google that writes the count it read before such an accept hides even the one.)
AdmittedWithinMax ==
  \A i \in Invites : invite[i].uses + invite[i].beyond <= MaxUses
=============================================================================
