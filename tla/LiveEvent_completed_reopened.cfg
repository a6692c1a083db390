SPECIFICATION Spec
CONSTANTS
  MaxRound = 1
  PlannedRounds = 1
  Rooms = {r1}
  Env = {"preview", "reopen"}
  MaxWaiting = 2
  MaxFaults = 0
  MaxRestarts = 0
PROPERTIES
  TerminalIsFinal
CHECK_DEADLOCK FALSE
