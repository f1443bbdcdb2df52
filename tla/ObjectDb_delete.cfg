SPECIFICATION Spec
CONSTANTS
  NbStorages = 1
  Names = {a, b}
  Root = Root
  NoName = NoName
  hash_function_name <- OneNode
  ReadOnly = {}
  Lockable = {}
  NotMounted = {}
  MaxEntries = 4
  MaxWd = 0
  MaxEvents = 0
  MaxDepth = 2
  MaxRenames = 0
  MaxCmds = 0
  Uses = {{"send"}}
SYMMETRY NameSymmetry
PROPERTIES DeletedFolderHasNoChildren
