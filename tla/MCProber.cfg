CONSTANTS
  Keys = {"s", "u1", "u2"}
  NameOf <- Versioned
  Sys = {"s"}
  Probe <- AllLiveness
  Handler <- AllHttp
  FailureThreshold = 2
  maxProbeRetries = 2
  MaxDeploys = 3
  MaxFaults = 1
SPECIFICATION Spec
INVARIANTS
  TypeOK
  OrphanNeedsFailure
PROPERTIES
  NoInnocentStop
  
  OrphanWorkersStop
  
