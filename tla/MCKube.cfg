CONSTANTS
  Apps = {"a", "b"}
  Versions = {1, 2}
  None = None
  Types <- MCTypes
  Work <- MCWork
  Extras <- MCExtras
  YamlObjs <- MCYamlObjs
  Preserve <- MCPreserve
  MaxUpdates = 1
  MaxFaults = 2
SPECIFICATION Spec
CHECK_DEADLOCK FALSE
INVARIANTS
  OneVersion
  

  
