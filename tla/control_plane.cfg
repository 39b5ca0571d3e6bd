SPECIFICATION Spec
CONSTANTS
  Commands = {a}
  Evidence = {e}
  CacheSize = 1
  MaxClicks = 3
  MaxGateways = 2
  MaxRings = 2
  MaxSyncs = 2
  MaxFaults = 1
INVARIANTS
  
  NeverTwice

  
CHECK_DEADLOCK FALSE
