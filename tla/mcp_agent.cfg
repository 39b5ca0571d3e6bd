SPECIFICATION AgentSpec
CONSTANTS
  MaxFragments = 2
  MaxPolls = 1
INVARIANTS
  AgentInv
  TurnsKept
PROPERTIES
  
  AgentLive
CHECK_DEADLOCK FALSE
