----------------------------- MODULE MCServices -----------------------------
(***************************************************************************)
(* Three services beside the live event that share no state with it or     *)
(* with each other: the ways into an event, the sends after it, and the    *)
(* meetings of a pair, whose reminders and whose room share nothing but    *)
(* the bookings.  A behaviour explores one of them, chosen at the start;   *)
(* that a call can lapse matters to its own answer alone, so it is         *)
(* explored without the room.                                              *)
(***************************************************************************)
EXTENDS Admission, Broadcast, Meetings

\* Bound: bookings, moves, cancels and rings where the room is explored.
RoomMoves == 2

VARIABLE explored
mcVars == <<doorVars, sendVars, pairVars, explored>>

MCInit ==
  /\ DoorInit /\ SendInit /\ PairInit
  /\ explored \in {"doors", "sends", "reminders", "room", "calls"}

MCNext ==
  /\ UNCHANGED explored
  /\ \/ explored = "doors" /\ DoorNext /\ UNCHANGED <<sendVars, pairVars>>
     \/ explored = "sends" /\ SendNext /\ UNCHANGED <<doorVars, pairVars>>
     \/ explored = "calls" /\ (Ringing \/ Lapsing) /\ UNCHANGED <<doorVars, sendVars>>
     \/ /\ explored \in {"reminders", "room"} /\ UNCHANGED <<doorVars, sendVars>>
        /\ \/ Booking
           \/ explored = "reminders" /\ (Reminding \/ Deploying)
           \/ explored = "room" /\ (Entering \/ Ringing)
        /\ explored = "room" => moves' <= RoomMoves

MCSpec ==
  /\ MCInit /\ [][MCNext]_mcVars
  /\ SendFairness
=============================================================================
