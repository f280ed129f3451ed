SPECIFICATION Spec
CONSTANTS
  None = None
  Turn <- Ids
  Cycle <- Ids
  Activity = {}
  Action = {p1, p2}
  Stream = {s1, s2}
  Progress = {}
  NegotiatedKind = {}
  MaxSequence = 9
  RetainFrames = FALSE
  MaxId = 7
SYMMETRY Names
INVARIANTS
  TypeOK
  HostFollowsEmitter
  AgentTurnsStayInTheirIncarnation
  DisciplinedCallersAreNotRefused
  BlockersAgreeWithProjection
