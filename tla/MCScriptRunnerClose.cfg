SPECIFICATION Spec
CONSTANTS
  Program <- MCProgram
  HasSentinel = TRUE
  Children <- MCTree
  ChannelCap = 1
  PipeCap = 1
  ChildLines = 1
INVARIANT NoSendAfterClose
CHECK_DEADLOCK FALSE
