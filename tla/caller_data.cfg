SPECIFICATION Spec
CONSTANTS
  Kinds = {contacts, callLog}
  Offered = {{contacts}, {contacts, callLog}}
  PageCount = 2
  Callers = {ann}
  MaxItems = 2
  MaxLinks = 2
  MaxEdits = 1
  MaxCalls = 3
  MaxFaults = 1

  
PROPERTIES
  NeverRegresses
  DataLive
CHECK_DEADLOCK FALSE
