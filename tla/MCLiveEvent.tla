---------------------------- MODULE MCLiveEvent ----------------------------
(***************************************************************************)
(* LiveEvent for TLC.  The slots of a round are interchangeable: no action *)
(* and no safety property names one, so the runs that check no liveness    *)
(* may permute them.                                                       *)
(***************************************************************************)
EXTENDS LiveEvent, TLC

RoomSymmetry == Permutations(Rooms)
=============================================================================
