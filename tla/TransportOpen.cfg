SPECIFICATION FairSpec
CONSTANTS
  None = None
  Ids = {1, 2, 3}
  Sessions = {s1, s2}
  Values = {v1, v2}
  Offers <- Usual
  MaxHooks <- SecondTwice
INVARIANTS
  TypeOK
  OpeningsTakeTurns
  PromptsKeepTheirParams
PROPERTIES
  AdmittedBehindOpenings
  WaitersReturn
CHECK_DEADLOCK FALSE
