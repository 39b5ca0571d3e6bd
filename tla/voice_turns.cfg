SPECIFICATION TalkSpec
CONSTANTS
  MaxFragments = 2
  MaxFailures = 2
  KeepEvents = 2
  Faults = {"rpc", "hermes"}
INVARIANTS
  ConversationInv
PROPERTIES
  
  ConversationEnds
CHECK_DEADLOCK FALSE
