SPECIFICATION Spec
CONSTANTS
  Children = {c1, c2}
  Incoming = {i1}
  Outgoing = {o1}
  Instructions = {"busy", "away"}
  MaxTurns = 1
  MaxFaults = 1
  None = None
INVARIANTS
  ListenerInv
  CallsAttended
PROPERTIES
  ListenerLive
CHECK_DEADLOCK FALSE
