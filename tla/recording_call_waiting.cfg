SPECIFICATION Spec
CONSTANTS
  in1 = in1
  in2 = in2
  out1 = out1
  k1 = k1
  k2 = k2
  Chain = Chain
  None = None
  Calls <- InAndOut
  Incoming <- OneIn
  Outgoing <- OneOut
  Clients <- OneClient
  MaxQueue = 2
  CallWaiting = TRUE
  Transcribed <- OneIn
  Faults = {"start", "realtime", "write", "finalize", "send"}
INVARIANTS
  OwnerReserved
  NoOrphan
  RealtimeReleased
PROPERTIES
  LedgerSpec
CHECK_DEADLOCK FALSE
