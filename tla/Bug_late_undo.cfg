SPECIFICATION Spec
CONSTANTS
  RuleIds = {1, 2}
  PageLines = 2
  Cases <- CommentCase
  MayHang = FALSE
INVARIANTS
  UndoneMeansUndone
CHECK_DEADLOCK FALSE
