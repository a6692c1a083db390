------------------------- MODULE ParticipantRecord -------------------------
(***************************************************************************)
(* What the participant state machine knows of one person in one event:    *)
(* the states, the moves it accepts, what a state is written as in         *)
(* session_participants, what a row is read back as, and what a move says  *)
(* to the canonical document.  The modules about one person share it.      *)
(***************************************************************************)
EXTENDS Naturals

ParticipantState ==
  {"not_joined", "registered", "checked_in", "in_main_room", "in_matching",
   "in_breakout", "in_rating", "disconnected", "left", "removed", "no_show"}
ParticipantStatus ==
  {"registered", "checked_in", "in_lobby", "in_round", "disconnected", "left",
   "removed", "no_show"}

\* connState of the canonical document; "none": the document does not have the person.
ConnState == {"none", "connected", "disconnected", "left", "removed", "no_show"}
Absences == {"disconnected", "left", "removed", "no_show"}

Ends == {"disconnected", "left", "removed", "no_show"}
LegalTransitions ==
  [s \in ParticipantState |->
     CASE s = "not_joined"   -> {"registered"}
       [] s = "registered"   -> {"checked_in", "in_main_room"} \cup Ends
       [] s = "checked_in"   -> {"in_main_room", "in_matching"} \cup Ends
       [] s = "in_main_room" -> {"in_matching", "in_breakout"} \cup Ends
       [] s = "in_matching"  -> {"in_breakout", "in_main_room"} \cup Ends
       [] s = "in_breakout"  -> {"in_rating", "in_main_room", "in_breakout"} \cup Ends
       [] s = "in_rating"    -> {"in_main_room", "in_breakout"} \cup Ends
       [] s = "disconnected" -> {"in_main_room", "in_breakout", "checked_in"}
                                  \cup (Ends \ {"disconnected"})
       [] s = "left"         -> {"in_main_room", "checked_in"}
       [] s = "removed"      -> {}
       [] s = "no_show"      -> {"in_main_room", "checked_in"}]

projectToDbStatus(s) ==
  CASE s \in {"not_joined", "registered"} -> "registered"
    [] s \in {"in_main_room", "in_matching", "in_rating"} -> "in_lobby"
    [] s = "in_breakout" -> "in_round"
    [] s \in {"checked_in", "disconnected", "left", "removed", "no_show"} -> s

liftFromDbStatus(d) ==
  CASE d = "in_lobby" -> "in_main_room"
    [] d = "in_round" -> "in_breakout"
    [] d \in ParticipantStatus \ {"in_lobby", "in_round"} -> d

\* A restart reads a person of the canonical document back as a state.
liftFromCanonical(conn, inBreakout) ==
  CASE conn \in Absences -> conn
    [] conn = "connected" -> IF inBreakout THEN "in_breakout" ELSE "in_main_room"

\* Someone the map does not hold moves as if registered.
FromState(s) == IF s = "none" THEN "registered" ELSE s

\* A kick of someone memory already holds as removed is written all the same.
RewritesRemoval(s, to) == FromState(s) = "removed" /\ to = "removed"
Idempotent(s, to) == FromState(s) = to /\ ~RewritesRemoval(s, to)
Accepted(s, to) == RewritesRemoval(s, to) \/ to \in LegalTransitions[FromState(s)]

\* A move takes connState down always, and up only for someone who heartbeats.
connAfter(conn, to, present) ==
  IF to \in Absences THEN to ELSE IF present THEN "connected" ELSE conn
=============================================================================
