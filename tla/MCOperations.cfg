SPECIFICATION Spec
CONSTANTS
  Writers = {"w1", "w2"}
  MaxTries = 2
  MaxEdits = 1
  MaxRuns = 2
  Changes <- MCChanges
  MaxGpuRuns = 2
  Cluster = {"a", "b", "c", "w"}
  ControlPlane = {"a", "b", "c"}
  NameExtends = {}
  Removers = {"r1", "r2"}
  MaxRemovals = 1
  MaxOutages = 1
  Realms = {"master", "org"}
  Clients = {"c1", "c2"}
  MaxCommands = 3
  MaxTokens = 2
  Replicas = 3
  Unsealers = {"u1", "u2"}
  MaxFaults = 2
  Domains = {"d1", "d2"}
  Orgs = {"o1", "o2"}
  Projects = {"p", "q"}
  Shells = {"s1", "s2"}
  MaxInvocations = 2
  T = 3
  Tries = 3
  Ceremonies = 2
  Checked = {"role"}
  MaxAuthRuns = 2
  Keepers = {"k1", "k2"}
  MaxKeyCommands = 3
INVARIANTS
  LiveTempIsSafe MarkerMeansSealed
  FluxHasOverlay NoPlaintextCommitted
  SchedulableIsSettled
  NoStrandedMember
  QualifiedIsRight SpentIsReplaced LogoutIsComplete
  NilMeansUnsealed
  FileHoldsTogether ContextKeepsIdentity
  TokenAccounted
PROPERTIES
  CrashNeverWedges
  FailedApplyMovesNothing OthersWorkKept RotationTakesHold
CHECK_DEADLOCK FALSE
