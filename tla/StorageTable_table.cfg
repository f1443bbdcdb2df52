SPECIFICATION Spec
CONSTANTS
  NbSlots = 2
  Stores = {a, b, c}
  NoStore = NoStore
  Configured = {a, b}
  Locked = {a}
  NotMounted = {b}
  WithUid = {b, c}
  WithGid = {}
  Nobody = Nobody
  Daemon = Daemon
  Default = user
  Early = FALSE
  Kinds = {"add", "rm", "mount", "quoted", "unmount", "lock", "unlock"}
  MaxCmds = 3
INVARIANTS TypeOK TableWhole HostViewExact ServedFromOwn RunsAsOwner
