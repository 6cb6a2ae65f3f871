CONSTANTS
  Keys = {"k", "l"}
  Values = {1}
  None = None
  Same = Same
  Scenarios <- MCScenarios
  Wishes <- MCWishes
  OwnPatches <- MCOwnPatches
  MaxSets = 2
  MaxObs = 1
  MaxPatches = 1
  MaxFaults = 1
  MaxQueue = 1
SPECIFICATION Spec
CHECK_DEADLOCK FALSE
INVARIANTS
  PatchesKept
PROPERTIES
  ReportCatchesUp
  PropsConverge
  DevicesTold
