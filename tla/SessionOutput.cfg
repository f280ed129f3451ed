SPECIFICATION OutputFairSpec
CONSTANTS
  Nothing = Nothing
  c1 = c1  c2 = c2  c3 = c3  c4 = c4
  Callers = {c1, c2, c3, c4}
  ActionKey <- ThreeActions
  Embedded = {c4}
  Attempts = {k1, k2}
  MaxEvents = 3
  MaxChunks = 4
  Operations = {o1, o2, o3}
INVARIANTS
  AnnouncedWhenWritten
  HostSeesEachOnce
  OneHolderAtATime
PROPERTIES
  CloseReleasesCalls
CHECK_DEADLOCK FALSE
