SPECIFICATION Spec
CONSTANTS
  MaxRound = 1
  PlannedRounds = 1
  Rooms = {r1}
  Env = {"startRound", "startAfterLast", "end", "ratings", "throw", "crash", "pause"}
  MaxWaiting = 2
  MaxFaults = 1
  MaxRestarts = 1
INVARIANTS
  CompletionInv
  OneRecap
PROPERTIES
  TerminalIsFinal
CHECK_DEADLOCK FALSE
