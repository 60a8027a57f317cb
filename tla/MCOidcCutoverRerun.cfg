SPECIFICATION Spec
CONSTANTS
  NumNodes = 2
  MaxRuns = 2
  MaxEdits = 0
  Found <- MCFound
  AllowPartial = FALSE
  FlagsMayDrop = FALSE
INVARIANT AlreadyWiredIsLive
