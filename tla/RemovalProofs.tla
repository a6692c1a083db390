---------------------------- MODULE RemovalProofs ----------------------------
(***************************************************************************)
(* That Removal keeps its types, and that a removal stands, for every      *)
(* bound and every choice of the actors.                                   *)
(***************************************************************************)
EXTENDS Removal, TLAPS

\* A moment is taken by an invite, or by a kick when it marks memory: a kick
\* that has not marked it yet has its moment still ahead.
Unmarked == IF job["guard"].pc = "mark" /\ job["guard"].to = "removed" THEN 1 ELSE 0
MomentsLeft ==
  /\ job["drop"].to # "removed"
  /\ now + Unmarked <= 1 + budget.kicks + budget.invites

\* What AcceptLift carries over an await is the status of a row that was there.
FollowsHeldRow == accept.pc = "lift" => accept.seen \in ParticipantStatus

IInv == TypeOK /\ MomentsLeft /\ FollowsHeldRow

-----------------------------------------------------------------------------
(* What the helpers return *)

\* Every state is written as a status.
LEMMA ProjectType ==
  ASSUME NEW s \in ParticipantState
  PROVE  projectToDbStatus(s) \in ParticipantStatus
  BY DEF projectToDbStatus, ParticipantState, ParticipantStatus

\* Every status is read back as a state.
LEMMA LiftType ==
  ASSUME NEW d \in ParticipantStatus
  PROVE  liftFromDbStatus(d) \in ParticipantState
  BY DEF liftFromDbStatus, ParticipantState, ParticipantStatus

\* So is every connState of someone the document has.
LEMMA LiftCanonicalType ==
  ASSUME NEW c \in ConnState \ {"none"}, NEW b \in BOOLEAN
  PROVE  liftFromCanonical(c, b) \in ParticipantState
  BY DEF liftFromCanonical, ParticipantState, ConnState, Absences

\* A move leaves a connState in the document.
LEMMA ConnType ==
  ASSUME NEW c \in ConnState, NEW to \in ParticipantState, NEW p \in BOOLEAN
  PROVE  connAfter(c, to, p) \in ConnState
  BY DEF connAfter, ConnState, Absences

\* Both statements leave a row.
LEMMA WrittenType ==
  ASSUME NEW r \in Rows, NEW to \in ParticipantState, NEW at \in Stamps
  PROVE  /\ Written(r, to, at) \in Rows
         /\ WrittenLegacy(r, to, at) \in Rows
  BY ProjectType DEF Written, WrittenLegacy, Rows, RowStatus, Stamps, Held, Ended

\* A registration leaves the session well typed.
LEMMA RegisteredType ==
  ASSUME NEW m \in Records, now \in Moments
  PROVE  RegisteredIn(m) \in Records
  BY DEF RegisteredIn, Records, Stamps, ParticipantState

\* So does a readmission.
LEMMA ReadmitType ==
  ASSUME NEW m \in Records, NEW to \in ParticipantState, NEW t, now \in Moments
  PROVE  readmitParticipant(m, to, t) \in Records
  BY DEF readmitParticipant, Records, Stamps
\* A free guard is a job.
LEMMA NoJobType == NoJob \in Jobs
  BY DEF NoJob, Jobs, ParticipantState

\* What a handler does after its status write is a job.
LEMMA AfterStatusType ==
  ASSUME job \in [Workers -> Jobs], NEW w \in Workers
  PROVE  AfterStatus(w) \in Jobs
  BY NoJobType DEF AfterStatus, Jobs

-----------------------------------------------------------------------------
(* The invariant holds at the start, and each action keeps it *)

\* Someone in the event, and someone not yet of it, satisfy the invariant.
LEMMA InitIInv == Init => IInv
  <1> SUFFICES ASSUME Init PROVE IInv
    OBVIOUS
  <1>1. 1 \in Moments /\ 1 \in Stamps /\ 0 \in Stamps
    BY BoundsAssumption DEF Moments, Stamps
  <1>5. mem \in Records
    <2>1. CASE mem = [NoSession EXCEPT !.live = TRUE]
      BY <1>1, <2>1 DEF NoSession, Records
    <2>2. CASE mem = [live |-> TRUE, state |-> "in_main_room", at |-> 1, unsaved |-> 0, present |-> TRUE]
      BY <1>1, <2>2 DEF Records, ParticipantState
    <2> QED BY <2>1, <2>2 DEF Init
  <1>6. row \in Rows /\ canon \in ConnState /\ saved \in Copies
    BY <1>1 DEF Init, NoRow, Rows, RowStatus, Copies, ConnState, ParticipantStatus
  <1>2. job \in [Workers -> Jobs] /\ accept \in Accepts
    BY DEF Init, NoJob, NoAccept, Jobs, Accepts, ParticipantState, RowStatus, Stamps
  <1>3. recon \in Recons /\ restore \in Restores
    BY BoundsAssumption DEF Init, NoRecon, NoRestore, NoRow, Recons, Restores, Rows, RowStatus, Stamps
  <1>4. budget \in Budgets /\ now \in Moments /\ MomentsLeft /\ FollowsHeldRow
    BY BoundsAssumption DEF Init, NoJob, NoAccept, Workers, Budgets, Moments, MomentsLeft, Unmarked,
       FollowsHeldRow
  <1> QED BY <1>2, <1>3, <1>4, <1>5, <1>6 DEF Init, IInv, TypeOK

\* A kick's mark takes the moment its handler had ahead of it.
LEMMA MarkKeeps == ASSUME IInv, NEW w \in Workers, Mark(w) PROVE IInv'
  <1>1. now' \in Moments
    BY BoundsAssumption DEF IInv, TypeOK, MomentsLeft, Unmarked, Mark, Moments, Workers, Jobs, Budgets
  <1>2. mem' \in Records
    <2>1. job[w].to \in ParticipantState
      BY DEF IInv, TypeOK, Jobs
    <2>2. now \in Stamps /\ now' \in Stamps
      BY <1>1 DEF IInv, TypeOK, Stamps
    <2>3. CASE mem' = [mem EXCEPT !.state = job[w].to, !.at = now]
      BY <2>1, <2>2, <2>3 DEF IInv, TypeOK, Records
    <2>4. CASE mem' = [mem EXCEPT !.state = job[w].to, !.at = now',
                                  !.unsaved = IF job[w].to = "removed" THEN now' ELSE @]
      BY <2>1, <2>2, <2>4 DEF IInv, TypeOK, Records
    <2>5. CASE mem' = mem
      BY <2>5 DEF IInv, TypeOK
    <2> QED BY <2>3, <2>4, <2>5 DEF Mark
  <1>3. job' \in [Workers -> Jobs]
    <2>1. CASE job' = [job EXCEPT ![w] = AfterStatus(w)]
      BY <2>1, AfterStatusType DEF IInv, TypeOK
    <2>2. CASE job' = [job EXCEPT ![w].pc = "write"]
      BY <2>2 DEF IInv, TypeOK, Jobs
    <2>3. CASE job' = [job EXCEPT ![w] = NoJob]
      BY <2>3, NoJobType DEF IInv, TypeOK
    <2>4. CASE job' = [job EXCEPT ![w] = [job[w] EXCEPT !.pc = "legacy"]]
      BY <2>4 DEF IInv, TypeOK, Jobs
    <2> QED BY <2>1, <2>2, <2>3, <2>4 DEF Mark
  <1>4. MomentsLeft' /\ FollowsHeldRow'
    BY BoundsAssumption DEF IInv, TypeOK, MomentsLeft, Unmarked,
      FollowsHeldRow, Mark, Moments, Jobs, Workers, Budgets, Accepts,
      Spend, AfterStatus, NoJob, MoveBy, Fails, NoAccept, Refused, Rows,
      RowStatus
  <1> QED
    BY <1>1, <1>2, <1>3, <1>4 DEF IInv, TypeOK, Mark

\* The row write touches the row, the mark it finishes and connState.
LEMMA WriteKeeps == ASSUME IInv, NEW w \in Workers, Write(w) PROVE IInv'
  <1>1. row' \in Rows
    BY WrittenType DEF IInv, TypeOK, Write, Jobs, Workers, Moments, Stamps
  <1>2. mem' \in Records
    BY DEF IInv, TypeOK, Write, Taken, Records, Stamps
  <1>3. canon' \in ConnState
    BY ConnType DEF IInv, TypeOK, Write, ConnState, Jobs, Workers, Records
  <1>4. budget' \in Budgets
    BY BoundsAssumption DEF IInv, TypeOK, Write, Budgets, Spend, Fails
  <1>5. job' \in [Workers -> Jobs]
    BY AfterStatusType DEF IInv, TypeOK, Write
  <1>6. MomentsLeft' /\ FollowsHeldRow'
    BY BoundsAssumption DEF IInv, TypeOK, MomentsLeft, Unmarked,
      FollowsHeldRow, Write, Moments, Jobs, Workers, Budgets, Accepts,
      Spend, AfterStatus, NoJob, Fails, MoveBy, NoAccept, Refused, Rows,
      RowStatus
  <1> QED
    BY <1>1, <1>2, <1>3, <1>4, <1>5, <1>6 DEF IInv, TypeOK, Write

\* The legacy statement touches the row only.
LEMMA LegacyKeeps == ASSUME IInv, NEW w \in Workers, Legacy(w) PROVE IInv'
  <1>1. row' \in Rows
    BY WrittenType DEF IInv, TypeOK, Legacy, Jobs, Workers, Moments,
      Stamps
  <1>2. budget' \in Budgets
    BY BoundsAssumption DEF IInv, TypeOK, Legacy, Budgets, Spend, Fails
  <1>3. job' \in [Workers -> Jobs]
    BY AfterStatusType, NoJobType DEF IInv, TypeOK, Legacy
  <1>4. MomentsLeft' /\ FollowsHeldRow'
    BY BoundsAssumption DEF IInv, TypeOK, MomentsLeft, Unmarked,
      FollowsHeldRow, Legacy, Moments, Jobs, Workers, Budgets, Accepts,
      Spend, AfterStatus, NoJob, Fails, MoveBy, NoAccept, Refused, Rows,
      RowStatus
  <1> QED
    BY <1>1, <1>2, <1>3, <1>4 DEF IInv, TypeOK, Legacy

\* A kick starts with its moment ahead of it.
LEMMA KickKeeps == ASSUME IInv, Kick PROVE IInv'
  <1>1. budget' \in Budgets
    BY BoundsAssumption DEF IInv, TypeOK, Kick, Budgets, Spend
  <1>2. job' \in [Workers -> Jobs]
    BY DEF IInv, TypeOK, Kick, Jobs, Workers, ParticipantState
  <1>3. MomentsLeft' /\ FollowsHeldRow'
    BY BoundsAssumption DEF IInv, TypeOK, MomentsLeft, Unmarked,
      FollowsHeldRow, Kick, Moments, Jobs, Workers, Budgets, Accepts,
      Spend, MoveBy, Fails, NoJob, NoAccept, Refused, Rows, RowStatus
  <1> QED
    BY <1>1, <1>2, <1>3 DEF IInv, TypeOK, Kick

\* The stamp gives the row the present moment.
LEMMA KickStampKeeps == ASSUME IInv, KickStamp PROVE IInv'
  <1>1. row' \in Rows
    BY DEF IInv, TypeOK, KickStamp, Stamped, Rows, RowStatus, ParticipantStatus, Stamps
  <1>2. budget' \in Budgets
    BY BoundsAssumption DEF IInv, TypeOK, KickStamp, Budgets, Spend, Fails
  <1>3. job' \in [Workers -> Jobs]
    BY DEF IInv, TypeOK, KickStamp, Jobs, Workers
  <1>4. MomentsLeft' /\ FollowsHeldRow'
    BY BoundsAssumption DEF IInv, TypeOK, MomentsLeft, Unmarked,
      FollowsHeldRow, KickStamp, Moments, Jobs, Workers, Budgets, Accepts,
      Spend, MoveBy, Fails, NoJob, NoAccept, Refused, Rows, RowStatus
  <1> QED
    BY <1>1, <1>2, <1>3, <1>4 DEF IInv, TypeOK, KickStamp

\* The revocation ends the kick.
LEMMA KickRevokeKeeps == ASSUME IInv, KickRevoke PROVE IInv'
  <1>1. budget' \in Budgets
    BY BoundsAssumption DEF IInv, TypeOK, KickRevoke, Budgets, Spend,
      Fails
  <1>2. invites' \subseteq Moments
    BY DEF IInv, TypeOK, KickRevoke, Moments
  <1>3. mem' \in Records
    BY DEF IInv, TypeOK, KickRevoke, Records
  <1>4. canon' \in ConnState
    BY DEF IInv, TypeOK, KickRevoke, ConnState, ConnLost
  <1>5. job' \in [Workers -> Jobs]
    BY DEF IInv, TypeOK, KickRevoke, Jobs, Workers, NoJob,
      ParticipantState
  <1>6. MomentsLeft' /\ FollowsHeldRow'
    BY BoundsAssumption DEF IInv, TypeOK, MomentsLeft, Unmarked,
      FollowsHeldRow, KickRevoke, Moments, Jobs, Workers, Budgets,
      Accepts, Spend, MoveBy, Fails, NoJob, NoAccept, Refused, Rows,
      RowStatus
  <1> QED
    BY <1>1, <1>2, <1>3, <1>4, <1>5, <1>6 DEF IInv, TypeOK, KickRevoke

\* A join registers, appears and goes on to its status.
LEMMA JoinKeeps == ASSUME IInv, Join PROVE IInv'
  <1>1. budget' \in Budgets
    BY BoundsAssumption DEF IInv, TypeOK, Join, Budgets, Spend, MoveBy
  <1>2. mem' \in Records
    <2> DEFINE m == IF mem.live THEN mem ELSE [NoSession EXCEPT !.live = TRUE]
    <2>1. m \in Records
      BY DEF IInv, TypeOK, NoSession, Records, Stamps
    <2>2. RegisteredIn(m) \in Records
      BY <2>1, RegisteredType DEF IInv, TypeOK
    <2> HIDE DEF m
    <2>3. PICK r \in Records : mem' = m \/ mem' = [r EXCEPT !.present = TRUE]
      BY <2>1, <2>2 DEF Join, m
    <2> QED BY <2>1, <2>3 DEF Records
  <1>3. row' \in Rows
    BY DEF IInv, TypeOK, Join, Registered, Rows, RowStatus,
      ParticipantStatus, Stamps
  <1>4. canon' \in ConnState
    BY DEF IInv, TypeOK, Join, ConnState
  <1>5. job' \in [Workers -> Jobs]
    <2>1. CASE job' = job
      BY <2>1 DEF IInv, TypeOK
    <2>2. CASE \E to \in {"in_main_room", "checked_in"}, pc \in {"mark", "reset"} :
                 job' = [job EXCEPT !["guard"] =
                           [op |-> "join", pc |-> pc, to |-> to, direct |-> FALSE, inEngine |-> FALSE]]
      BY <2>2 DEF IInv, TypeOK, Jobs, Workers, ParticipantState
    <2> QED BY <2>1, <2>2 DEF Join
  <1>6. MomentsLeft' /\ FollowsHeldRow'
    BY BoundsAssumption DEF IInv, TypeOK, MomentsLeft, Unmarked,
      FollowsHeldRow, Join, Moments, Jobs, Workers, Budgets, Accepts,
      Spend, MoveBy, Fails, NoJob, NoAccept, Refused, Rows, RowStatus
  <1> QED
    BY <1>1, <1>2, <1>3, <1>4, <1>5, <1>6 DEF IInv, TypeOK, Join

\* FIX A goes on with a move to the main room, or ends.
LEMMA JoinResetKeeps == ASSUME IInv, JoinReset PROVE IInv'
  <1>1. job' \in [Workers -> Jobs]
    BY DEF IInv, TypeOK, JoinReset, Jobs, Workers, NoJob, ParticipantState
  <1>2. MomentsLeft' /\ FollowsHeldRow'
    BY BoundsAssumption DEF IInv, TypeOK, MomentsLeft, Unmarked,
      FollowsHeldRow, JoinReset, Moments, Jobs, Workers, Budgets, Accepts,
      Spend, MoveBy, Fails, NoJob, NoAccept, Refused, Rows, RowStatus
  <1> QED
    BY <1>1, <1>2 DEF IInv, TypeOK, JoinReset

\* A leave forgets presence and goes on to its status.
LEMMA LeaveKeeps == ASSUME IInv, Leave PROVE IInv'
  <1>1. budget' \in Budgets
    BY BoundsAssumption DEF IInv, TypeOK, Leave, Budgets, Spend, MoveBy
  <1>2. mem' \in Records
    BY DEF IInv, TypeOK, Leave, Records
  <1>3. canon' \in ConnState
    BY DEF IInv, TypeOK, Leave, ConnState, ConnLost
  <1>4. job' \in [Workers -> Jobs]
    BY DEF IInv, TypeOK, Leave, Jobs, Workers, ParticipantState
  <1>5. MomentsLeft' /\ FollowsHeldRow'
    BY BoundsAssumption DEF IInv, TypeOK, MomentsLeft, Unmarked,
      FollowsHeldRow, Leave, Moments, Jobs, Workers, Budgets, Accepts,
      Spend, MoveBy, Fails, NoJob, NoAccept, Refused, Rows, RowStatus
  <1> QED
    BY <1>1, <1>2, <1>3, <1>4, <1>5 DEF IInv, TypeOK, Leave

\* A drop never marks anyone removed.
LEMMA DisconnectKeeps == ASSUME IInv, Disconnect PROVE IInv'
  <1>1. budget' \in Budgets
    BY BoundsAssumption DEF IInv, TypeOK, Disconnect, Budgets, Spend,
      MoveBy
  <1>2. mem' \in Records
    BY DEF IInv, TypeOK, Disconnect, Records
  <1>3. canon' \in ConnState
    BY DEF IInv, TypeOK, Disconnect, ConnState, ConnLost
  <1>4. job' \in [Workers -> Jobs]
    <2>1. CASE job' = job
      BY <2>1 DEF IInv, TypeOK
    <2>2. CASE job' = [job EXCEPT !["drop"] = [op |-> "disconnect", pc |-> "mark",
                         to |-> "disconnected", direct |-> FALSE, inEngine |-> FALSE]]
      BY <2>2 DEF IInv, TypeOK, Jobs, Workers, ParticipantState
    <2> QED BY <2>1, <2>2 DEF Disconnect
  <1>5. MomentsLeft' /\ FollowsHeldRow'
    BY BoundsAssumption DEF IInv, TypeOK, MomentsLeft, Unmarked,
      FollowsHeldRow, Disconnect, Moments, Jobs, Workers, Budgets,
      Accepts, Spend, MoveBy, Fails, NoJob, NoAccept, Refused, Rows,
      RowStatus
  <1> QED
    BY <1>1, <1>2, <1>3, <1>4, <1>5 DEF IInv, TypeOK, Disconnect

\* The stale-heartbeat sweep forgets presence.
LEMMA PresenceLapsesKeeps == ASSUME IInv, PresenceLapses PROVE IInv'
  <1>1. budget' \in Budgets
    BY BoundsAssumption DEF IInv, TypeOK, PresenceLapses, Budgets, Spend,
      MoveBy
  <1>2. mem' \in Records
    BY DEF IInv, TypeOK, PresenceLapses, Records
  <1>3. canon' \in ConnState
    BY DEF IInv, TypeOK, PresenceLapses, ConnState, ConnLost
  <1>4. MomentsLeft' /\ FollowsHeldRow'
    BY BoundsAssumption DEF IInv, TypeOK, MomentsLeft, Unmarked,
      FollowsHeldRow, PresenceLapses, Moments, Jobs, Workers, Budgets,
      Accepts, Spend, MoveBy, Fails, NoJob, NoAccept, Refused, Rows,
      RowStatus
  <1> QED
    BY <1>1, <1>2, <1>3, <1>4 DEF IInv, TypeOK, PresenceLapses

\* A heartbeat restores it.
LEMMA HeartbeatKeeps == ASSUME IInv, Heartbeat PROVE IInv'
  <1>1. mem' \in Records
    BY DEF IInv, TypeOK, Heartbeat, Records
  <1>2. canon' \in ConnState
    BY DEF IInv, TypeOK, Heartbeat, ConnState
  <1>3. MomentsLeft' /\ FollowsHeldRow'
    BY BoundsAssumption DEF IInv, TypeOK, MomentsLeft, Unmarked,
      FollowsHeldRow, Heartbeat, Moments, Jobs, Workers, Budgets, Accepts,
      Spend, MoveBy, Fails, NoJob, NoAccept, Refused, Rows, RowStatus
  <1> QED
    BY <1>1, <1>2, <1>3 DEF IInv, TypeOK, Heartbeat

\* An invite takes a fresh moment, which the budget of invites covers.
LEMMA CreateInviteKeeps == ASSUME IInv, CreateInvite PROVE IInv'
  <1>1. budget' \in Budgets
    BY BoundsAssumption DEF IInv, TypeOK, CreateInvite, Budgets, Spend
  <1>2. now' \in Moments
    BY BoundsAssumption DEF IInv, TypeOK, CreateInvite, Moments,
      MomentsLeft, Unmarked, Budgets, Spend
  <1>3. invites' \subseteq Moments
    BY BoundsAssumption DEF IInv, TypeOK, CreateInvite, Moments,
      MomentsLeft, Unmarked, Budgets, Spend
  <1>4. MomentsLeft' /\ FollowsHeldRow'
    BY BoundsAssumption DEF IInv, TypeOK, MomentsLeft, Unmarked,
      FollowsHeldRow, CreateInvite, Moments, Jobs, Workers, Budgets,
      Accepts, Spend, MoveBy, Fails, NoJob, NoAccept, Refused, Rows,
      RowStatus
  <1> QED
    BY <1>1, <1>2, <1>3, <1>4 DEF IInv, TypeOK, CreateInvite

\* An accept carries an invite, a registration none.
LEMMA AcceptStartKeeps == ASSUME IInv, AcceptStart PROVE IInv'
  <1>1. budget' \in Budgets
    <2>1. Spend("moves") /\ budget.moves < MaxMoves
      BY DEF AcceptStart, MoveBy
    <2> QED BY <2>1, BoundsAssumption DEF IInv, TypeOK, Budgets, Spend
  <1>2. accept' \in Accepts
    BY DEF IInv, TypeOK, AcceptStart, Accepts, NoAccept, Stamps, RowStatus
  <1>3. MomentsLeft' /\ FollowsHeldRow'
    BY BoundsAssumption DEF IInv, TypeOK, MomentsLeft, Unmarked,
      FollowsHeldRow, AcceptStart, Moments, Jobs, Workers, Budgets,
      Accepts, Spend, MoveBy, Fails, NoJob, NoAccept, Refused, Rows,
      RowStatus
  <1> QED
    BY <1>1, <1>2, <1>3 DEF IInv, TypeOK, AcceptStart

\* The first read of an accept.
LEMMA AcceptSelectKeeps == ASSUME IInv, AcceptSelect PROVE IInv'
  <1>1. mem' \in Records
    BY RegisteredType DEF IInv, TypeOK, AcceptSelect
  <1>2. row' \in Rows
    BY DEF IInv, TypeOK, AcceptSelect, Registered, Rows, RowStatus,
      ParticipantStatus, Stamps
  <1>3. accept' \in Accepts
    BY DEF IInv, TypeOK, AcceptSelect, Accepts, Refused, NoAccept,
      RowStatus, Stamps
  <1>4. MomentsLeft' /\ FollowsHeldRow'
    BY BoundsAssumption DEF IInv, TypeOK, MomentsLeft, Unmarked,
      FollowsHeldRow, AcceptSelect, Moments, Jobs, Workers, Budgets,
      Accepts, Spend, MoveBy, Fails, NoJob, NoAccept, Refused, Rows,
      RowStatus
  <1> QED
    BY <1>1, <1>2, <1>3, <1>4 DEF IInv, TypeOK, AcceptSelect

\* Its guarded UPDATE.
LEMMA AcceptUpdateKeeps == ASSUME IInv, AcceptUpdate PROVE IInv'
  <1>1. mem' \in Records
    BY RegisteredType DEF IInv, TypeOK, AcceptUpdate
  <1>2. row' \in Rows
    BY DEF IInv, TypeOK, AcceptUpdate, Registered, Rows, RowStatus,
      ParticipantStatus, Stamps
  <1>3. accept' \in Accepts
    BY DEF IInv, TypeOK, AcceptUpdate, Accepts, Refused, NoAccept,
      RowStatus, Stamps
  <1>4. MomentsLeft' /\ FollowsHeldRow'
    BY BoundsAssumption DEF IInv, TypeOK, MomentsLeft, Unmarked,
      FollowsHeldRow, AcceptUpdate, Moments, Jobs, Workers, Budgets,
      Accepts, Spend, MoveBy, Fails, NoJob, NoAccept, Refused, Rows,
      RowStatus
  <1> QED
    BY <1>1, <1>2, <1>3, <1>4 DEF IInv, TypeOK, AcceptUpdate

\* Its defensive INSERT.
LEMMA AcceptInsertKeeps == ASSUME IInv, AcceptInsert PROVE IInv'
  <1>1. row' \in Rows
    BY DEF IInv, TypeOK, AcceptInsert, Registered, Rows, RowStatus,
      ParticipantStatus, Stamps
  <1>2. accept' \in Accepts
    BY DEF IInv, TypeOK, AcceptInsert, Accepts, Refused, NoAccept,
      RowStatus, Stamps
  <1>3. MomentsLeft' /\ FollowsHeldRow'
    BY BoundsAssumption DEF IInv, TypeOK, MomentsLeft, Unmarked,
      FollowsHeldRow, AcceptInsert, Moments, Jobs, Workers, Budgets,
      Accepts, Spend, MoveBy, Fails, NoJob, NoAccept, Refused, Rows,
      RowStatus
  <1> QED
    BY <1>1, <1>2, <1>3 DEF IInv, TypeOK, AcceptInsert

\* What an accept goes on with is the status of a row that is there.
LEMMA AcceptFollowKeeps == ASSUME IInv, AcceptFollow PROVE IInv'
  <1>1. accept' \in Accepts
    BY DEF IInv, TypeOK, AcceptFollow, Accepts, NoAccept, Rows, RowStatus,
      Stamps
  <1>2. MomentsLeft' /\ FollowsHeldRow'
    BY BoundsAssumption DEF IInv, TypeOK, MomentsLeft, Unmarked,
      FollowsHeldRow, AcceptFollow, Moments, Jobs, Workers, Budgets,
      Accepts, Spend, MoveBy, Fails, NoJob, NoAccept, Refused, Rows,
      RowStatus
  <1> QED
    BY <1>1, <1>2 DEF IInv, TypeOK, AcceptFollow

\* Memory follows that status.
LEMMA AcceptLiftKeeps == ASSUME IInv, AcceptLift PROVE IInv'
  <1>1. mem' \in Records
    BY LiftType, ReadmitType DEF IInv, TypeOK, AcceptLift, FollowsHeldRow
  <1>2. canon' \in ConnState
    BY DEF IInv, TypeOK, AcceptLift, ConnState
  <1>3. accept' \in Accepts
    BY DEF IInv, TypeOK, AcceptLift, Accepts, NoAccept, RowStatus, Stamps
  <1>4. MomentsLeft' /\ FollowsHeldRow'
    BY BoundsAssumption DEF IInv, TypeOK, MomentsLeft, Unmarked,
      FollowsHeldRow, AcceptLift, Moments, Jobs, Workers, Budgets,
      Accepts, Spend, MoveBy, Fails, NoJob, NoAccept, Refused, Rows,
      RowStatus
  <1> QED
    BY <1>1, <1>2, <1>3, <1>4 DEF IInv, TypeOK, AcceptLift

\* Unregistering deletes the row.
LEMMA UnregisterKeeps == ASSUME IInv, Unregister PROVE IInv'
  <1>1. budget' \in Budgets
    BY BoundsAssumption DEF IInv, TypeOK, Unregister, Budgets, Spend,
      MoveBy
  <1>2. row' \in Rows
    BY DEF IInv, TypeOK, Unregister, NoRow, Rows, RowStatus, Stamps
  <1>3. MomentsLeft' /\ FollowsHeldRow'
    BY BoundsAssumption DEF IInv, TypeOK, MomentsLeft, Unmarked,
      FollowsHeldRow, Unregister, Moments, Jobs, Workers, Budgets,
      Accepts, Spend, MoveBy, Fails, NoJob, NoAccept, Refused, Rows,
      RowStatus
  <1> QED
    BY <1>1, <1>2, <1>3 DEF IInv, TypeOK, Unregister

\* The reconciler reads the row and takes its time.
LEMMA ReconReadKeeps == ASSUME IInv, ReconRead PROVE IInv'
  <1>1. recon' \in Recons
    <2>1. row.status \in RowStatus /\ now + 1 \in 0..(2 + MaxKicks + MaxInvites)
      BY BoundsAssumption DEF IInv, TypeOK, Rows, Moments
    <2>2. PICK unsaved \in BOOLEAN :
            recon' = [pc |-> "decide", seen |-> row.status, unsaved |-> unsaved,
                      readAt |-> now + 1, to |-> "none", kickedAt |-> 0]
      BY DEF ReconRead, NoRecon
    <2> QED BY <2>1, <2>2 DEF Recons, RowStatus, Stamps
  <1>2. MomentsLeft' /\ FollowsHeldRow'
    BY BoundsAssumption DEF IInv, TypeOK, MomentsLeft, Unmarked,
      FollowsHeldRow, ReconRead, Moments, Jobs, Workers, Budgets, Accepts,
      Spend, MoveBy, Fails, NoJob, NoAccept, Refused, Rows, RowStatus
  <1> QED
    BY <1>1, <1>2 DEF IInv, TypeOK, ReconRead

\* It lets memory follow the row, or plans a write.
LEMMA ReconDecideKeeps == ASSUME IInv, ReconDecide PROVE IInv'
  <1>1. mem' \in Records
    <2>1. CASE mem' = mem
      BY <2>1 DEF IInv, TypeOK
    <2>2. CASE /\ mem.state # "none" /\ recon.seen = "removed"
               /\ mem' = IF mem.state = "removed" THEN [mem EXCEPT !.unsaved = 0]
                         ELSE [mem EXCEPT !.state = "removed", !.at = now, !.unsaved = 0]
      BY <2>2 DEF IInv, TypeOK, Records, Stamps, ParticipantState
    <2>3. CASE /\ recon.seen \notin {"none", "removed"}
               /\ mem' = readmitParticipant(mem, liftFromDbStatus(recon.seen), recon.readAt)
      <3>1. recon.seen \in ParticipantStatus
        BY <2>3 DEF IInv, TypeOK, Recons, RowStatus
      <3> QED BY <2>3, <3>1, LiftType, ReadmitType DEF IInv, TypeOK
    <2> QED BY <2>1, <2>2, <2>3 DEF ReconDecide
  <1>2. canon' \in ConnState
    BY DEF IInv, TypeOK, ReconDecide, ConnState
  <1>3. recon' \in Recons
    <2>1. NoRecon \in Recons
      BY BoundsAssumption DEF NoRecon, Recons, RowStatus, Stamps
    <2>2. CASE recon' = NoRecon
      BY <2>1, <2>2
    <2>3. CASE /\ mem.state # "none"
               /\ recon' = [recon EXCEPT !.pc = "write", !.to = projectToDbStatus(mem.state),
                                         !.kickedAt = mem.unsaved]
      <3>1. mem.state \in ParticipantState /\ mem.unsaved \in Stamps
        BY <2>3 DEF IInv, TypeOK, Records
      <3>2. projectToDbStatus(mem.state) \in RowStatus
        BY <3>1, ProjectType DEF RowStatus
      <3> QED BY <2>3, <3>1, <3>2 DEF IInv, TypeOK, Recons
    <2> QED BY <2>2, <2>3 DEF ReconDecide
  <1>4. MomentsLeft' /\ FollowsHeldRow'
    BY BoundsAssumption DEF IInv, TypeOK, MomentsLeft, Unmarked,
      FollowsHeldRow, ReconDecide, Moments, Jobs, Workers, Budgets,
      Accepts, Spend, MoveBy, Fails, NoJob, NoAccept, Refused, Rows,
      RowStatus
  <1> QED
    BY <1>1, <1>2, <1>3, <1>4 DEF IInv, TypeOK, ReconDecide

\* It writes the status, and a kick's own time.
LEMMA ReconWriteKeeps == ASSUME IInv, ReconWrite PROVE IInv'
  <1>1. budget' \in Budgets
    BY BoundsAssumption DEF IInv, TypeOK, ReconWrite, Budgets, Spend,
      Fails
  <1>2. row' \in Rows
    BY DEF IInv, TypeOK, ReconWrite, Rows, Recons, FinishesKick
  <1>3. mem' \in Records
    BY DEF IInv, TypeOK, ReconWrite, Taken, Records, Stamps
  <1>4. recon' \in Recons
    BY BoundsAssumption DEF IInv, TypeOK, ReconWrite, Recons, NoRecon,
      RowStatus, Stamps
  <1>5. MomentsLeft' /\ FollowsHeldRow'
    BY BoundsAssumption DEF IInv, TypeOK, MomentsLeft, Unmarked,
      FollowsHeldRow, ReconWrite, Moments, Jobs, Workers, Budgets,
      Accepts, Spend, MoveBy, Fails, NoJob, NoAccept, Refused, Rows,
      RowStatus
  <1> QED
    BY <1>1, <1>2, <1>3, <1>4, <1>5 DEF IInv, TypeOK, ReconWrite

\* The saved copy takes the mark and presence of memory.
LEMMA persistToRedisKeeps == ASSUME IInv, persistToRedis PROVE IInv'
  <1>1. saved' \in Copies
    BY DEF IInv, TypeOK, persistToRedis, Copies, Records
  <1>2. MomentsLeft' /\ FollowsHeldRow'
    BY BoundsAssumption DEF IInv, TypeOK, MomentsLeft, Unmarked,
      FollowsHeldRow, persistToRedis, Moments, Jobs, Workers, Budgets,
      Accepts, Spend, MoveBy, Fails, NoJob, NoAccept, Refused, Rows,
      RowStatus
  <1> QED
    BY <1>1, <1>2 DEF IInv, TypeOK, persistToRedis

\* A restart leaves rows and copies, and no task.
LEMMA RestartKeeps == ASSUME IInv, Restart PROVE IInv'
  <1>1. budget' \in Budgets
    BY BoundsAssumption DEF IInv, TypeOK, Restart, Budgets, Spend, Fails
  <1>2. mem' \in Records
    BY DEF IInv, TypeOK, Restart, NoSession, Records, Stamps
  <1>3. job' \in [Workers -> Jobs]
    BY DEF IInv, TypeOK, Restart, Jobs, Workers, NoJob, ParticipantState
  <1>4. accept' \in Accepts
    BY DEF IInv, TypeOK, Restart, Accepts, NoAccept, RowStatus, Stamps
  <1>5. recon' \in Recons
    BY BoundsAssumption DEF IInv, TypeOK, Restart, Recons, NoRecon,
      RowStatus, Stamps
  <1>6. restore' \in Restores
    BY DEF IInv, TypeOK, Restart, Restores, NoRestore, NoRow, Rows,
      RowStatus, Stamps
  <1>7. MomentsLeft' /\ FollowsHeldRow'
    BY BoundsAssumption DEF IInv, TypeOK, MomentsLeft, Unmarked,
      FollowsHeldRow, Restart, Moments, Jobs, Workers, Budgets, Accepts,
      Spend, MoveBy, Fails, NoJob, NoAccept, Refused, Rows, RowStatus
  <1> QED
    BY <1>1, <1>2, <1>3, <1>4, <1>5, <1>6, <1>7 DEF IInv, TypeOK, Restart

\* Recovery starts from the saved copy.
LEMMA recoverActiveSessionKeeps == ASSUME IInv, recoverActiveSession PROVE IInv'
  <1>1. mem' \in Records
    <2>1. mem' = [live |-> TRUE, state |-> "none", at |-> 0, unsaved |-> saved.unsaved,
                  present |-> saved.present]
      BY DEF recoverActiveSession, NoSession
    <2> QED BY <2>1 DEF IInv, TypeOK, Records, Copies, Stamps
  <1>2. restore' \in Restores
    BY DEF IInv, TypeOK, recoverActiveSession, Restores
  <1>3. MomentsLeft' /\ FollowsHeldRow'
    BY BoundsAssumption DEF IInv, TypeOK, MomentsLeft, Unmarked,
      FollowsHeldRow, recoverActiveSession, Moments, Jobs, Workers,
      Budgets, Accepts, Spend, MoveBy, Fails, NoJob, NoAccept, Refused,
      Rows, RowStatus
  <1> QED
    BY <1>1, <1>2, <1>3 DEF IInv, TypeOK, recoverActiveSession

\* The rows are read once.
LEMMA WarmReadKeeps == ASSUME IInv, WarmRead PROVE IInv'
  <1>1. restore' \in Restores
    BY DEF IInv, TypeOK, WarmRead, Restores
  <1>2. MomentsLeft' /\ FollowsHeldRow'
    BY BoundsAssumption DEF IInv, TypeOK, MomentsLeft, Unmarked,
      FollowsHeldRow, WarmRead, Moments, Jobs, Workers, Budgets, Accepts,
      Spend, MoveBy, Fails, NoJob, NoAccept, Refused, Rows, RowStatus
  <1> QED
    BY <1>1, <1>2 DEF IInv, TypeOK, WarmRead

\* And overlaid with the canonical document.
LEMMA warmParticipantStatesOnRestoreKeeps == ASSUME IInv, warmParticipantStatesOnRestore PROVE IInv'
  <1>1. mem' \in Records
    <2> DEFINE fromRow == IF restore.seen.status = "none" THEN mem.state
                          ELSE liftFromDbStatus(restore.seen.status)
               state == IF canon = "none" THEN fromRow ELSE liftFromCanonical(canon, FALSE)
    <2>1. restore.seen.status \in RowStatus /\ restore.seen.leftAt \in Stamps
      BY DEF IInv, TypeOK, Restores, Rows
    <2>2. fromRow \in ParticipantState \cup {"none"}
      BY <2>1, LiftType DEF IInv, TypeOK, Records, RowStatus
    <2>3. state \in ParticipantState \cup {"none"}
      BY <2>2, LiftCanonicalType DEF IInv, TypeOK
    <2>4. now \in Stamps
      BY DEF IInv, TypeOK, Stamps
    <2> HIDE DEF fromRow, state
    <2>5. PICK at \in Stamps : mem' = [mem EXCEPT !.state = state, !.at = at]
      BY <2>1, <2>4 DEF warmParticipantStatesOnRestore, fromRow, state
    <2> QED BY <2>3, <2>5 DEF IInv, TypeOK, Records
  <1>2. restore' \in Restores
    BY DEF IInv, TypeOK, warmParticipantStatesOnRestore, Restores,
      NoRestore, NoRow, Rows, RowStatus, Stamps
  <1>3. MomentsLeft' /\ FollowsHeldRow'
    BY BoundsAssumption DEF IInv, TypeOK, MomentsLeft, Unmarked,
      FollowsHeldRow, warmParticipantStatesOnRestore, Moments, Jobs,
      Workers, Budgets, Accepts, Spend, MoveBy, Fails, NoJob, NoAccept,
      Refused, Rows, RowStatus
  <1> QED
    BY <1>1, <1>2, <1>3 DEF IInv, TypeOK, warmParticipantStatesOnRestore

\* Every step keeps the invariant.
LEMMA NextKeeps == ASSUME IInv, [Next]_vars PROVE IInv'
  <1>1. CASE UNCHANGED vars
    BY <1>1 DEF vars, IInv, TypeOK, MomentsLeft, Unmarked, FollowsHeldRow
  <1>2. CASE Next
    BY <1>2, MarkKeeps, WriteKeeps, LegacyKeeps, KickKeeps, KickStampKeeps,
       KickRevokeKeeps, JoinKeeps, JoinResetKeeps, LeaveKeeps,
       DisconnectKeeps, PresenceLapsesKeeps, HeartbeatKeeps,
       CreateInviteKeeps, AcceptStartKeeps, AcceptSelectKeeps,
       AcceptUpdateKeeps, AcceptInsertKeeps, AcceptFollowKeeps,
       AcceptLiftKeeps, UnregisterKeeps, ReconReadKeeps, ReconDecideKeeps,
       ReconWriteKeeps, persistToRedisKeeps, RestartKeeps,
       recoverActiveSessionKeeps, WarmReadKeeps,
       warmParticipantStatesOnRestoreKeeps DEF Next, StatusStep, GuardStep,
       AcceptStep, RestoreStep, Workers
  <1> QED BY <1>1, <1>2

\* The session of memory, the row, the copies and every task keep their types,
\* whatever is interleaved, fails or restarts.
THEOREM TypeCorrect == Spec => []TypeOK
  <1>1. IInv => TypeOK
    BY DEF IInv
  <1> QED BY <1>1, InitIInv, NextKeeps, PTL DEF Spec

-----------------------------------------------------------------------------
(* A removal stands *)

ComesBackInvited ==
  row.status = "removed" /\ row'.status # "removed" => accept.invite > row.leftAt

\* Every statement but the two of an accept leaves a removed row removed.
StaysRemovedRow == row.status = "removed" => row'.status = "removed"

\* An invite that lifts a removal is younger than it.
LEMMA InviteIsLater ==
  ASSUME IInv, liftedByPersonalInvite(row.leftAt, accept.invite)
  PROVE  accept.invite > row.leftAt
  <1>1. accept.invite \in Nat /\ row.leftAt \in Nat
    BY BoundsAssumption DEF IInv, TypeOK, Accepts, Rows, Stamps, Moments
  <1> QED BY <1>1 DEF liftedByPersonalInvite

\* Neither statement changes a removed row.
LEMMA StatementsSpareRemovals ==
  ASSUME NEW r, NEW to, NEW at, r.status = "removed"
  PROVE  Written(r, to, at) = r /\ WrittenLegacy(r, to, at) = r
  BY DEF Written, WrittenLegacy, Held

\* A kick stands against whatever was under way when it landed: a removed row
\* comes back only by the accept of an invite made after the removal.
THEOREM RemovalIsFinal == Spec => RemovalStands
  <1>1. ASSUME IInv, [Next]_vars PROVE [ComesBackInvited]_vars
    <2> USE <1>1
    <2>1. CASE \E w \in Workers : StatusStep(w)
      <3>1. StaysRemovedRow
        BY <2>1, StatementsSpareRemovals DEF StaysRemovedRow, StatusStep, Mark, Write, Legacy
      <3> QED BY <3>1 DEF ComesBackInvited, StaysRemovedRow
    <2>2. CASE GuardStep
      <3>1. StaysRemovedRow
        BY <2>2 DEF StaysRemovedRow, GuardStep, KickStamp, Stamped, KickRevoke, JoinReset, IInv, TypeOK, Rows
      <3> QED BY <3>1 DEF ComesBackInvited, StaysRemovedRow
    <2>3. CASE Join \/ Unregister
      <3>1. StaysRemovedRow
        BY <2>3 DEF StaysRemovedRow, Join, Unregister, Held
      <3> QED BY <3>1 DEF ComesBackInvited, StaysRemovedRow
    <2>4. CASE AcceptStep
      BY <2>4, InviteIsLater DEF ComesBackInvited, AcceptStep, AcceptSelect, AcceptUpdate, AcceptInsert,
         AcceptFollow, AcceptLift
    <2>5. CASE ReconWrite
      <3>1. StaysRemovedRow
        BY <2>5 DEF StaysRemovedRow, ReconWrite, Held
      <3> QED BY <3>1 DEF ComesBackInvited, StaysRemovedRow
    <2>6. CASE row' = row
      BY <2>6 DEF ComesBackInvited
    <2>7. CASE \/ Kick \/ Leave \/ Disconnect \/ PresenceLapses \/ Heartbeat \/ CreateInvite \/ AcceptStart
               \/ ReconRead \/ ReconDecide \/ persistToRedis \/ Restart \/ RestoreStep \/ UNCHANGED vars
      BY <2>6, <2>7 DEF Kick, Leave, Disconnect, PresenceLapses, Heartbeat, CreateInvite, AcceptStart,
         ReconRead, ReconDecide, persistToRedis, Restart, RestoreStep, recoverActiveSession, WarmRead,
         warmParticipantStatesOnRestore, vars
    <2> QED BY <2>1, <2>2, <2>3, <2>4, <2>5, <2>7 DEF Next
  <1>2. Spec => []IInv
    BY InitIInv, NextKeeps, PTL DEF Spec
  <1>3. RemovalStands <=> [][ComesBackInvited]_vars
    BY PTL DEF RemovalStands, ComesBackInvited
  <1> QED BY <1>1, <1>2, <1>3, PTL DEF Spec
=============================================================================
