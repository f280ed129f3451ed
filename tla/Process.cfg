SPECIFICATION FairSpec
CONSTANTS
  None = None
  c1 = c1
  c2 = c2
  Callers = {c1, c2}
  Calls <- ClientAndOwner
  MaxLines = 2
  TailLines = 1
INVARIANTS
  TypeOK
  AnswersAgree
  TailIsTheEnd
PROPERTIES
  CallsReturn
  KilledGroupIsReaped
CHECK_DEADLOCK FALSE
