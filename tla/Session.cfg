SPECIFICATION FairSpec
CONSTANTS
  RuleIds = {1, 2, 3}
  PageLines = 2
  Cases <- EveryCase
  MayHang = TRUE
INVARIANTS
  SnapshotIsWhole
  WritesInOwnAcl
  GuardHeld
  OkMeansDone
PROPERTIES
  SavesOnlyFinished
  SessionEnds
CHECK_DEADLOCK FALSE
