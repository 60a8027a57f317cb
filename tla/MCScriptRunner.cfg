SPECIFICATION FairSpec
CONSTANTS
  Program <- MCProgram
  HasSentinel = TRUE
  Children <- MCTree
  ChannelCap = 1
  PipeCap = 1
  ChildLines = 1
PROPERTY KeepsPromise
PROPERTY RunEnds
CHECK_DEADLOCK FALSE
