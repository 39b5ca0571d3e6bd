SPECIFICATION FairSpec
CONSTANTS
  k1 = k1
  k2 = k2
  k3 = k3
  p1 = p1
  p2 = p2
  Keys <- OneKey
  Prints <- OnePrint
  MaxGeneration = 2
  MaxRequests = 1
  CacheCapacity = 1
  OutboundCapacity = 1
  Faults = {"bad", "throw", "stop"}
INVARIANTS
  AnswersOwn
PROPERTIES
  SlotReleased
  RequestsAnswered
CHECK_DEADLOCK FALSE
