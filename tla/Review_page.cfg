SPECIFICATION Spec
CONSTANTS
  RuleIds = {1, 2, 3, 4}
  RangeMin = 2
  AllocMax = 3
  RangeMax = 4
  Absent = Absent
  None = None
  body = body
  mark = mark
  Entries <- MCEntries
  Context = 1
  AddrBits = 3
  PortBits = 2
  Blank = Blank
  Junk = Junk
  Six = Six
  Samples <- MCSamples
  Plain <- MCPlain
INVARIANTS
  DrawnOnWholeAcl
  PageIsTrue
  PageMarksOnlyTheRequest
  PredictionComesTrue
  VerifiesTheRules
  WrittenIsAsked
  AcceptedIsExecutable
CHECK_DEADLOCK FALSE
