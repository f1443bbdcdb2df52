SPECIFICATION FairSpec
CONSTANTS
  Ffs = TRUE
  LoopOnDisconnect = TRUE
  Requests = {"open", "close", "get", "list"}
  Controls = {"up", "down", "cancel", "status"}
  Faults = {"zlp"}
  FastReconnect = TRUE
  MaxBlocks = 2
  MaxQueue = 2
INVARIANTS CleanAfterDisable Serving LockHolderAlive
PROPERTIES DisableCompletes
