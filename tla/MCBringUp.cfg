SPECIFICATION SetupSpec
CONSTANTS
  NumNodes = 2
  MaxRuns = 2
  MaxEdits = 1
  Found <- MCFound
  AllowPartial = TRUE
  FlagsMayDrop = TRUE
  Artifacts <- MCArtifacts
  MaxStarts = 3
  Pinnable = {"install"}
  MaxInvocations = 2
  MaxMoves = 2
  Bundles = {"A", "B"}
  MaxInstalls = 2
  MaxReboots = 1
INVARIANT RollbackStaysPossible
INVARIANT KubeconfigFirst
INVARIANT WiredIsServing
INVARIANT StarterIsWhole
INVARIANT KeyNeverCommitted
INVARIANT WebhookKept
INVARIANT InstalledIsReady
PROPERTY ReviewedIsApplied
PROPERTY FluxLandsAsPlanned
CHECK_DEADLOCK FALSE
