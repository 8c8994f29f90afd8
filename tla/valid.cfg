SPECIFICATION Spec
CONSTANTS
  Modules <- StructuredModules
  Calls <- EntryCalls
  Imports <- MCImports
  NoBody = NoBody
  Certificate <- MCCertificate
  Base = 256
  Results = {0, 1}
  MemoryBytes = 8
  GlobalsWords = 3
  MaxFrames = 3
  MaxLocals = 9
  MaxStack = 8
INVARIANTS
  StartsWithArguments
  NothingLeftBehind
  FailsOnHeapOnly
  OperandsCounted
  RunsStructure
  PremisesHold
PROPERTIES
  ImplementsActivations
