SPECIFICATION Spec
CONSTANTS
  Files <- AnyFiles
  Usize = 1024
  MaxTypes = 8
  NoBody = NoBody
  NoName = NoName
INVARIANTS
  TypeOK
  DeliversRunnable
PROPERTY
  Progresses
