SPECIFICATION Spec
CONSTANTS
  Modules <- TrapModules
  Calls <- EntryCalls
  Imports <- MCImports
  NoBody = NoBody
  Base = 256
  Results = {0, 1}
  MemoryBytes = 8
  GlobalsWords = 3
  MaxFrames = 3
  MaxLocals = 9
  MaxStack = 8
INVARIANT
  StartsWithArguments
