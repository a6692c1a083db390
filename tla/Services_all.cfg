SPECIFICATION MCSpec
CONSTANTS
  People = {p1, p2}
  Newcomers = {p2}
  Requests = {r1, r2}
  MaxUses = 1
  MaxInvites = 2
  MaxMoments = 3
  MaxCalls = 4
  Everyone = {p1, p2}
  Organisers = {o}
  Cycles = {c1, c2}
  Kinds = {"own", "template"}
  BatchSize = 1
  Stalls = FALSE
  MaxJobs = 1
  MaxRefusals = 1
  MaxFaults = 2
  Pair = {a, b}
  Slots = {2, 3}
  Runs = {r1, r2}
  Devices = {d1, d2}
  MaxClock = 3
  MaxRows = 2
  MaxMoves = 3
  MaxOldWrites = 1
  MaxRings = 2
INVARIANTS
  
  YesMeansIn
  NobodyWrittenTwice
  CompletedMissedNobody
  RemindedOnce
  NoReminderSkipped
  UnlockNeedsMeeting
  OneMeetingPerCall
PROPERTIES
  WithdrawnStays
  DecisionStands
  EverySendEnds
CHECK_DEADLOCK FALSE
