SPECIFICATION Spec
CONSTANTS
  MaxPairings = 2
  MaxFaults = 4
  MaxStops = 1
INVARIANTS
  LinkInv
  Agreement
PROPERTIES
  NeverRotated
  
CHECK_DEADLOCK FALSE
