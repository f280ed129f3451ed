SPECIFICATION Spec
CONSTANTS
  None = None
  Launches = {p1}
  Names = {1}
  Contents = {c1, c2}
  Link = Link
  Requests <- OneOrAll
  MaxCalls = 2
  MaxTouches = 1
PROPERTIES
  NeverOverwritesOthers
CHECK_DEADLOCK FALSE
