SPECIFICATION FairReconcileSpec
CONSTANTS
  Requests = {r1, r2}
  RuleIds = {1, 2}
  RangeMin = 1
  AllocMax = 2
  Absent = Absent
  Bodies = {b1}
  Workers = {w1, w2}
  Human = Human
  None = None
  Unreadable = Unreadable
  Preloaded = {}
  RuleComment = FALSE
  MaxEdits = 1
  MaxFaults = 1
  MaxLosses = 1
  MaxKills = 1
  MaxExpiries = 0
  MaxCrashes = 0
  MaxReboots = 1
  MaxUnchecked = 1
  MaxDisturbances = 2
INVARIANTS
  AlarmsAreTrue
  AlarmsHaveACause
PROPERTIES
  DispatchSettles
  LostRuleReported
CHECK_DEADLOCK FALSE
