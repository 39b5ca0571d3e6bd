SPECIFICATION Spec
CONSTANTS
  k1 = k1
  k2 = k2
  k3 = k3
  p1 = p1
  p2 = p2
  Keys <- ThreeKeys
  Prints <- TwoPrints
  MaxGeneration = 1
  MaxRequests = 2
  CacheCapacity = 2
  OutboundCapacity = 1
  Faults = {"bad", "throw", "stop"}
INVARIANTS
  Accounted
  AppliedOnce
SYMMETRY KeySymmetry
CHECK_DEADLOCK FALSE
