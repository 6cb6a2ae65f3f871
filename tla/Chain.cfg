CONSTANTS
  Keys = {"k"}
  Kinds = {"shell", "ws", "logs"}
  Room = 2
  MaxChains = 2
  MaxMsgs = 3
SPECIFICATION Spec
CHECK_DEADLOCK FALSE
INVARIANTS
  OneListener
PROPERTIES
  InputToYoungest
  RequestsAnswered
  DebugChainsEnd
  
