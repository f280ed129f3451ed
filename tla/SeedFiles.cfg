SPECIFICATION FairSpec
CONSTANTS
  None = None
  Launches = {p1, p2}
  Names = {1, 2}
  Contents = {c1, c2}
  Link = Link
  Requests <- OneOrAll
  MaxCalls = 3
  MaxTouches = 2
INVARIANTS
  TypeOK
  ManagedFilesOnly
  SuccessMeansWritten
PROPERTIES
  StandingFilesSurvive
  CallsEnd
CHECK_DEADLOCK FALSE
