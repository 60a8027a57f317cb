SPECIFICATION RemoveSpec
CONSTANTS
  Cluster = {"cp", "cp-b"}
  ControlPlane = {"cp", "cp-b"}
  NameExtends <- MCNameExtends
  Removers = {"r1"}
  MaxRemovals = 1
  MaxOutages = 1
INVARIANT NoStrandedMember
CHECK_DEADLOCK FALSE
