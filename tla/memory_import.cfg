SPECIFICATION Spec
CONSTANTS
  Files <- MemoryImportFiles
  Usize = 1024
  MaxTypes = 8
  NoBody = NoBody
  NoName = NoName
INVARIANT
  DeliversMeaning
