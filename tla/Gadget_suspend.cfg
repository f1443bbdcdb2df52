SPECIFICATION FairSpec
CONSTANTS
  Ffs = FALSE
  Requests = {"open", "get", "send"}
  Controls = {"up", "down", "suspend", "unconfigure"}
  Faults = {"disk"}
  LoopOnDisconnect = TRUE
  FastReconnect = TRUE
  MaxBlocks = 2
  MaxQueue = 2
PROPERTIES SuspendEndsTransfer
CHECK_DEADLOCK FALSE
