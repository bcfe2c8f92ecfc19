SPECIFICATION FairSpec
CONSTANTS
  Submissions = {s1, s2}
  MaxKey = 2
  Counts = {0, 1}
  None = None
  Privileged = FALSE
  DailyLimit = 1
  MaxCancels = 1
  MaxFaults = 2
  MaxCommitFaults = 1
  MaxCuts = 1
  MaxDays = 1
  MaxCrashes = 1
INVARIANTS
  TypeOK
  OwnPlanIfNobodyLeaves
  ExecutesOwnPlan
  LimitKept
PROPERTIES
  TxReleased
CHECK_DEADLOCK FALSE
