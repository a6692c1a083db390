SPECIFICATION FairSpec
CONSTANTS
  Actors = {"join", "leave", "disconnect", "lapse", "accept", "register", "unregister", "fail", "restart"}
  MaxKicks = 1
  MaxInvites = 1
  MaxMoves = 1
  MaxFailures = 1
PROPERTIES
  RemovalStands
  KickLands
  Converges
CHECK_DEADLOCK FALSE
