--------------------------- MODULE EventLifecycle ---------------------------
(***************************************************************************)
(* What the server promises of one event, seen from outside: the phases an *)
(* event goes through and the rounds it plays.  Rounds are played in order *)
(* without a gap or a repeat; a round ends in its rating window; what      *)
(* follows the window is decided by the number of rounds planned; an event *)
(* that is over stays over.                                                *)
(***************************************************************************)
EXTENDS Integers

CONSTANTS MaxRound, PlannedRounds

VARIABLES phase, played, planned

evars == <<phase, played, planned>>

Init ==
  /\ phase = "scheduled"
  /\ played = 0
  /\ planned = PlannedRounds

GoLive ==
  /\ phase = "scheduled"
  /\ phase' = "lobby_open"
  /\ UNCHANGED <<played, planned>>

\* The host plans one round more than there are.
ExtendPlan ==
  /\ phase \in {"lobby_open", "round_transition", "closing_lobby"}
  /\ played >= planned
  /\ planned' = played + 1
  /\ UNCHANGED <<phase, played>>

\* The host asks for another match preview during the goodbyes.
Reopen ==
  /\ phase = "closing_lobby"
  /\ phase' = "round_transition"
  /\ UNCHANGED <<played, planned>>

StartRound ==
  /\ phase \in {"lobby_open", "round_transition"}
  /\ played < MaxRound
  /\ played' = played + 1
  /\ planned' = IF played + 1 > planned THEN played + 1 ELSE planned
  /\ phase' = "round_active"

EndRound ==
  /\ phase = "round_active"
  /\ phase' = "round_rating"
  /\ UNCHANGED <<played, planned>>

CloseRating ==
  /\ phase = "round_rating"
  /\ phase' = IF played < planned THEN "round_transition" ELSE "closing_lobby"
  /\ UNCHANGED <<played, planned>>

Complete ==
  /\ phase # "completed"
  /\ phase' = "completed"
  /\ UNCHANGED <<played, planned>>

Next == GoLive \/ ExtendPlan \/ Reopen \/ StartRound \/ EndRound \/ CloseRating \/ Complete

Spec == Init /\ [][Next]_evars
=============================================================================
