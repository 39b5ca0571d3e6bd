SPECIFICATION FairSpec
CONSTANTS
  in1 = in1
  in2 = in2
  out1 = out1
  k1 = k1
  k2 = k2
  Chain = Chain
  None = None
  Calls <- OneIn
  Incoming <- OneIn
  Outgoing <- NoCalls
  Clients <- OneClient
  MaxQueue = 2
  CallWaiting = FALSE
  Transcribed = {}
  Faults = {"start", "realtime", "write", "finalize", "send", "backpressure"}

  
  
PROPERTIES
  TeardownCompletes
  StopCompletes
CHECK_DEADLOCK FALSE
