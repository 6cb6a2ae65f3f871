CONSTANTS
  Svcs = {"init", "core"}
  SysApps = {"core", "init"}
  UserApps = {"a"}
  CoreLike = {"core"}
  HostApp <- CoreHost
  Versions = {1, 2}
  None = None
  Nil = Nil
  Desires <- KubeDesires
  Installed <- BothInstalled
  HostPort <- NoPorts
  MultiReplica = {}
  Preserve = {}
  AsyncLink = FALSE
  Graceful = TRUE
  MaxUpdates = 0
  MaxFaults = 0
  AppNames = {"p", "q", "r"}
  PortRange = {80, 81}
  MaxPorts = 2
SPECIFICATION PairSpec

  
  
PROPERTIES
  OnlyOwnerTouches
  
