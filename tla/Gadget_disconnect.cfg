SPECIFICATION FairSpec
CONSTANTS
  Ffs = FALSE
  Requests = {"open", "get"}
  Controls = {"up", "down"}
  Faults = {}
  LoopOnDisconnect = TRUE
  FastReconnect = TRUE
  MaxBlocks = 1
  MaxQueue = 2
PROPERTIES DisconnectCompletes
CHECK_DEADLOCK FALSE
