SPECIFICATION ListSpec
CONSTANTS
  FleetList <- MCFleet
  StartTab = "fleet"
  MaxLoads = 1
  MaxChanges = 1
INVARIANTS
  ArmedByThisPanel
PROPERTIES
  StatusCatchesUp
CHECK_DEADLOCK FALSE
