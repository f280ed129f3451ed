SPECIFICATION Spec
CONSTANTS
  None = None
  Ids = {1, 2, 3}
  Sessions = {s1}
  Values = {v1}
  Offers <- Restoring
  MaxHooks <- Once
INVARIANTS
  SuccessorsWait
CHECK_DEADLOCK FALSE
