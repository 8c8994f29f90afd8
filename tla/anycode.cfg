SPECIFICATION Spec
CONSTANTS
  Modules <- RawModules
  Calls <- RawCalls
  Imports <- MCImports
  NoBody = NoBody
  Base = 256
  Results = {0, 1}
  MemoryBytes = 4
  GlobalsWords = 2
  MaxFrames = 2
  MaxLocals = 7
  MaxStack = 4
INVARIANTS
  TypeOK
  ReadersInCode
  FramesDisjoint
PROPERTIES
  CallersUntouched
  Returns
  ImplementsActivations
