CONSTANTS
  Keys = {"u1"}
  NameOf <- Versioned
  Sys = {}
  Probe <- AllStartup
  Handler <- AllTcp
  FailureThreshold = 2
  maxProbeRetries = 3
  MaxDeploys = 1
  MaxFaults = 1
SPECIFICATION Spec
INVARIANT StartupWorkerRuns
