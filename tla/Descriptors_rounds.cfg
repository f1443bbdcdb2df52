SPECIFICATION Spec
CONSTANTS
  Objs = {1, 2}
  MaxFd = 5
  Settings <- MCSettings
INVARIANTS TypeOK TransferOnOwnFile NoLeak EndpointsOwn
CHECK_DEADLOCK FALSE
