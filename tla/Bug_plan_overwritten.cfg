SPECIFICATION Spec
CONSTANTS
  Submissions = {s1, s2}
  MaxKey = 2
  Counts = {0, 1}
  None = None
  Privileged = TRUE
  DailyLimit = 2
  MaxCancels = 1
  MaxFaults = 0
  MaxCommitFaults = 0
  MaxCuts = 0
  MaxDays = 0
  MaxCrashes = 0
SYMMETRY Interchangeable
INVARIANTS
  OpenHasOwnPlan
CHECK_DEADLOCK FALSE
