SPECIFICATION FairSpec
CONSTANTS
  MaxRound = 3
  PlannedRounds = 3
  Rooms = {r1}
  Env = {"preview", "cancel", "exclude", "leave", "end", "ratings"}
  MaxWaiting = 2
  MaxFaults = 0
  MaxRestarts = 0
INVARIANTS
  TypeOK
  PhaseTimers
  NoStrayConversation
PROPERTIES
  EndsItsOwnRound
  ImplementsLifecycle
  RoundEnds
  RatingEnds
  ClosingEnds
CHECK_DEADLOCK FALSE
