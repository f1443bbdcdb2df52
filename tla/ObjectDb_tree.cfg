SPECIFICATION Spec
CONSTANTS
  NbStorages = 2
  Names = {a}
  Root = Root
  NoName = NoName
  hash_function_name <- OneNode
  ReadOnly = {2}
  Lockable = {1}
  NotMounted = {2}
  MaxEntries = 4
  MaxWd = 1
  MaxEvents = 1
  MaxDepth = 2
  MaxRenames = 0
  MaxCmds = 1
  Uses = {{}}
PROPERTIES KeepsHandles ListingExact ReadOnlyUntouched
