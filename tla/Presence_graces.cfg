SPECIFICATION FairSpec
CONSTANTS
  People = {u, v}
  Tabs = {t1, t2}
  Actors = {"join", "leave", "back", "drop", "closing", "lapse", "stale", "end"}
  MaxMoves = 2
INVARIANTS NobodyStranded
PROPERTIES GraceEndsOnlyForAbsent SurvivorReleased
CHECK_DEADLOCK FALSE
