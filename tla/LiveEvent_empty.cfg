SPECIFICATION Spec
CONSTANTS
  MaxRound = 2
  PlannedRounds = 2
  Rooms = {r1, r2}
  Env = {"startRound", "leave", "noShow", "skips", "roomFail"}
  MaxWaiting = 2
  MaxFaults = 1
  MaxRestarts = 0
INVARIANTS
  ActiveRoundHasRoom
SYMMETRY RoomSymmetry
CHECK_DEADLOCK FALSE
