CONSTANTS
  Jobs = {j1, j2}
  Runs = {r1, r2}
  Schedules <- MCSchedules
  Stale = 1
  Default = 1
  MaxTime = 3
  MaxEdits = 3
  MaxCrashes = 1
  None = None
SPECIFICATION Spec
SYMMETRY IdSymmetry
INVARIANTS
  WakesInTime
  ClaimsAgree
PROPERTIES
  ImplementsJobLock
CHECK_DEADLOCK FALSE
