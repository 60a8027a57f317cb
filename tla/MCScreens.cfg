SPECIFICATION Spec
CONSTANTS
  InstallOptions <- MCOptions
  ChanCap = 1
  MaxLate = 1
  Signals = {"SIGINT"}
  Ports = {1, 2, 3}
  MaxAlertLoads = 2
INVARIANTS
  ScreenTellsTruth ReconcileCoversGpu NilMeansInstalled
  ForwardIsOwned
PROPERTIES
  EndIsShown
  ForwardComesBack
CHECK_DEADLOCK FALSE
