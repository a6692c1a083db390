SPECIFICATION Spec
CONSTANTS
  People = {u, v}
  Tabs = {t1, t2}
  Actors = {"leave", "end"}
  MaxMoves = 2
PROPERTIES
  LeaveStands
CHECK_DEADLOCK FALSE
