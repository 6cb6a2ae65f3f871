CONSTANTS
  Svcs = {"core"}
  SysApps = {"core", "rule"}
  UserApps = {"a", "b"}
  CoreLike = {"core"}
  HostApp <- CoreHost
  Versions = {1, 2}
  None = None
  Nil = Nil
  Desires <- CoreDesires
  Installed <- CoreInstalled
  HostPort <- CorePorts
  MultiReplica <- CoreMulti
  Preserve <- CorePreserve
  AsyncLink = TRUE
  Graceful = FALSE
  MaxUpdates = 2
  MaxFaults = 2
SPECIFICATION Spec
INVARIANTS
  TypeOK
  PlanInv
  
  BatchPortsDisjoint
PROPERTIES
  NoNeedlessRestart
  Convergence
