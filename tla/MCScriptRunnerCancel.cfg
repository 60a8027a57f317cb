SPECIFICATION FairSpec
CONSTANTS
  Program <- MCProgram
  HasSentinel = TRUE
  Children = {"helper"}
  ChannelCap = 1
  PipeCap = 1
  ChildLines = 0
PROPERTY CancelCloses
CHECK_DEADLOCK FALSE
