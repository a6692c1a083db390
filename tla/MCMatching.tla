----------------------------- MODULE MCMatching -----------------------------
(***************************************************************************)
(* The locks of an event and the plan of its rounds.  Match Participants   *)
(* and Re-match are single steps of MatchPlan because SessionLocks shows   *)
(* what the generation lock keeps apart; beyond that the two share no      *)
(* state, and a behaviour explores one of them, chosen at the start.       *)
(***************************************************************************)
EXTENDS SessionLocks, MatchPlan

\* An event whose policy is the default, with one pair blocked; and one with
\* the same pair blocked that looks at all earlier events, where two pairs met.
PlainSetting == [policy |-> "within_event", hard |-> {}, recent |-> {}, old |-> {}]
MCSettings ==
  {[PlainSetting EXCEPT !.hard = {{1, 2}}],
   [PlainSetting EXCEPT !.policy = "platform_wide", !.hard = {{1, 2}}, !.recent = {{1, 3}},
                        !.old = {{1, 4}}]}

\* One state for the plan where it is not explored.
PlanIdle ==
  /\ setting = PlainSetting /\ present = {} /\ round = 1
  /\ plan = [r \in Rounds |-> {}] /\ shown = Unshown
  /\ edit = [h \in Editors |-> NoEdit] /\ replan = [h \in Editors |-> NoReplan]
  /\ torn = {} /\ spent = [edits |-> 0, moves |-> 0]

VARIABLE explored
mcVars == <<vars, planVars, explored>>

MCInit ==
  /\ Init
  /\ \/ explored = "plan" /\ PlanInit
     \/ explored = "locks" /\ PlanIdle

MCNext ==
  /\ UNCHANGED explored
  /\ \/ explored = "locks" /\ Next /\ UNCHANGED planVars
     \/ explored = "plan" /\ PlanNext /\ UNCHANGED vars

MCSpec == MCInit /\ [][MCNext]_mcVars /\ LockFairness
MCSafety == MCInit /\ [][MCNext]_mcVars
=============================================================================
