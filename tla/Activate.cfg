CONSTANTS
  Ticker = "t"
  Handlers = {"h1", "h2"}
  Modes = {"timer", "server"}
  MaxActs = 4
  MaxFaults = 2
SPECIFICATION Spec
CHECK_DEADLOCK FALSE
INVARIANTS
  RunningHasIdentity
  LockOutNeedsFault
PROPERTY Proceeds
