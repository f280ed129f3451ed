SPECIFICATION FairSpec
CONSTANTS
  None = None
  Row <- Rows
  Config = {c1, c2}
  MaxRow = 4
  MaxBypassed = 2
  MaxFile = 2
  Window = 1
INVARIANTS
  TypeOK
  MemoryIsSound
PROPERTIES
  ImplementsFullMirror
  LoadKeepsSoundRows
  CallsReturn
