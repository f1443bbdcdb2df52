\* A daemon that is started again and again and a process that sends commands
\* to a queue of one message, left over or not, or two processes that may both
\* become the daemon; crashes, SIGTERM or not, loop_on_disconnect or not.
SPECIFICATION Spec
CONSTANTS
  Procs = {p1, p2}
  Cmds = {c1, c2}
  Settings <- AllSettings
  Queues = {1, 2, 3, 4}
  MaxMsg = 1
  None = None
INVARIANTS TypeOK SingleDaemon
PROPERTIES CommandsSurvive CommandsServed SendersEnd StopsCleanly
CHECK_DEADLOCK FALSE
