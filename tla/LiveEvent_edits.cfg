SPECIFICATION Spec
CONSTANTS
  MaxRound = 2
  PlannedRounds = 2
  Rooms = {r1, r2}
  Env = {"preview", "rematch", "reopen", "restEnd"}
  MaxWaiting = 1
  MaxFaults = 0
  MaxRestarts = 0
PROPERTIES
  ActiveMatchNeverWiped
SYMMETRY RoomSymmetry
CHECK_DEADLOCK FALSE
