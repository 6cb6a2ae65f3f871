CONSTANTS
  Apps <- SharedApps
  Cfgs <- SharedCfgs
  Uses <- SharedUses
  AutoClean <- SharedClean
  Jobs <- SharedJobs
  Md5 <- SharedCfgs
  Desires <- SharedDesires
  MaxUpdates = 3
  MaxCleans = 0
  MaxPressure = 1
  MaxFails = 1
  MaxFaults = 1
SPECIFICATION BothSpec
INVARIANT TypeOK
PROPERTIES
  
  CleanSparesSettled
  
