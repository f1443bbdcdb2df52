SPECIFICATION Spec
CONSTANTS
  Ffs = TRUE
  LoopOnDisconnect = TRUE
  Requests = {"open", "close", "get", "list"}
  Controls = {"up", "cancel", "status"}
  Faults = {"zlp"}
  FastReconnect = FALSE
  MaxBlocks = 2
  MaxQueue = 2
INVARIANTS TypeOK NoStaleCancel CancelSparesRead
