SPECIFICATION Spec
CONSTANTS
  MaxRound = 3
  PlannedRounds = 2
  Rooms = {r1, r2}
  Env = {"startRound", "startAfterLast", "end", "ratings", "extend", "pause", "restPause", "other"}
  MaxWaiting = 2
  MaxFaults = 0
  MaxRestarts = 0
INVARIANTS
  MemoryAgreesWithDb
  RoundKeepsItsTime
SYMMETRY RoomSymmetry
CHECK_DEADLOCK FALSE
