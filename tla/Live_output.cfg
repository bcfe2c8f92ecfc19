SPECIFICATION FairSpec
CONSTANTS
  Streams = {s1}
  Posts = {p1}
  None = None
  MaxLines = 4
  PipeMax = 2
  SocketMax = 2
INVARIANTS
  NothingLost
  AgentOutlivesBrowser
  ToldTheOutcome
PROPERTIES
  HandlerEnds
CHECK_DEADLOCK FALSE
