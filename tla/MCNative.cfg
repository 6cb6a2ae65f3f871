CONSTANTS
  Apps = {"a", "f"}
  Versions = {1, 2}
  Plan <- MCPlan
  Function = {"f"}
  NoExec <- MCNoExec
  Ports = {1, 2, 3}
  Idle = Idle
  Deleting = Deleting
  None = None
  MaxUpdates = 1
  MaxFaults = 2
SPECIFICATION Spec
CHECK_DEADLOCK FALSE
INVARIANTS
  NothingLost
  SuccessIsExact
  
PROPERTIES
  KeepsContract
  Settles
