SPECIFICATION Spec
CONSTANTS
  Requests = {r1, r2, r3}
  RuleIds = {1, 2}
  RangeMin = 1
  AllocMax = 2
  Absent = Absent
  Bodies = {b1}
  Workers = {w1, w2}
  Human = Human
  None = None
  Unreadable = Unreadable
  Preloaded = {}
  RuleComment = TRUE
  MaxEdits = 1
  MaxFaults = 1
  MaxLosses = 1
  MaxKills = 1
  MaxExpiries = 1
  MaxCrashes = 1
  MaxReboots = 1
  MaxUnchecked = 1
  MaxDisturbances = 2
SYMMETRY Interchangeable
INVARIANTS
  TypeOK
  AppliedToApproved
  ActiveInForce
  FailedLeftNothing
  OneApply
  RefusedNotApplied
  OneWriter
  RevokedIsGone
PROPERTIES
  KeepsLifecycle
CHECK_DEADLOCK FALSE
