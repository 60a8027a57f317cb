SPECIFICATION Spec
CONSTANTS
  N = 3
  T = 2
  MaxNames = 2
  MaxRuns = 2
  Payloads <- MCPayloads
  StampUnreadable = TRUE
INVARIANT ResumeReachesReady
