CONSTANTS
  Ticker = "t"
  Handlers = {}
  Modes = {"timer"}
  MaxActs = 2
  MaxFaults = 1
SPECIFICATION Spec
CHECK_DEADLOCK FALSE
PROPERTY Activates
