SPECIFICATION FairSpec
CONSTANTS
  Calls = {a, b}
  None = None
  Chunks = 2
  WireSize = 1
  MaxFrames = 1
  MaxExports = 1
  MaxDeletes = 1
  MaxCopies = 1
  MaxFaults = 1
INVARIANTS
  
  DeletedStaysDeleted

  
CHECK_DEADLOCK FALSE
