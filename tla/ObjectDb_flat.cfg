SPECIFICATION Spec
CONSTANTS
  NbStorages = 1
  Names = {a, b}
  Root = Root
  NoName = NoName
  hash_function_name <- OneNode
  ReadOnly = {}
  Lockable = {}
  NotMounted = {}
  MaxEntries = 3
  MaxWd = 1
  MaxEvents = 2
  MaxDepth = 1
  MaxRenames = 1
  MaxCmds = 0
  Uses = {{"rename"}, {"send", "partial", "move", "write"}}
SYMMETRY NameSymmetry
INVARIANTS TypeOK UniqueNames Mirror
PROPERTIES RemovedWasTold
