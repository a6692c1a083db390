SPECIFICATION MCSafety
CONSTANTS
  Callers = {a, b}
  Repairs = {q1, q2}
  MaxCalls = 3
  MaxRoster = 2
  Participants = {1, 2, 3, 4}
  Exact = 30
  Settings <- MCSettings
  StartSets = {{1, 2, 3, 4}}
  PlannedTotal = 2
  Editors = {h1}
  MaxEdits = 1
  MaxArrivals = 1
INVARIANT BlockedNeverShareARoom
CHECK_DEADLOCK FALSE
