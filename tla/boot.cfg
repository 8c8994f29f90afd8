SPECIFICATION BootSpec
CONSTANTS
  Files <- BootFiles
  HostFunctions <- KnownNames
  MemoryBytes = 4
  Usize = 1024
  MaxTypes = 8
  NoBody = NoBody
  NoName = NoName
INVARIANTS
  DeliversMeaning
  NamesResolve
  InitializersMean
  GlobalsInPlace
  MemoryOverlaid
  ImportsByIndex
  BootsValid
