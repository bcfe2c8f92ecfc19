SPECIFICATION Spec
CONSTANTS
  Requests = {r1}
  RuleIds = {1}
  RangeMin = 1
  AllocMax = 1
  Absent = Absent
  Bodies = {b1}
  Workers = {w1, w2}
  Human = Human
  None = None
  Unreadable = Unreadable
  Preloaded = {}
  RuleComment = FALSE
  MaxEdits = 1
  MaxFaults = 0
  MaxLosses = 0
  MaxKills = 0
  MaxExpiries = 0
  MaxCrashes = 0
  MaxReboots = 0
  MaxUnchecked = 0
  MaxDisturbances = 1
PROPERTIES
  EngineersRulesSurvive
CHECK_DEADLOCK FALSE
