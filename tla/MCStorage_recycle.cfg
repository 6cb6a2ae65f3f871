CONSTANTS
  Apps <- UpgradeApps
  Cfgs <- UpgradeCfgs
  Uses <- UpgradeUses
  AutoClean <- CleanNone
  Jobs = {}
  Md5 <- UpgradeCfgs
  Desires <- UpgradeDesires
  MaxUpdates = 2
  MaxCleans = 0
  MaxPressure = 1
  MaxFails = 0
  MaxFaults = 0
SPECIFICATION BothSpec
PROPERTY RecycleKeepsUsed
