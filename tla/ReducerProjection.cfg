SPECIFICATION Spec
CONSTANTS
  None = None
  t1 = t1  t2 = t2  c1 = c1  c2 = c2  a1 = a1  a2 = a2  a3 = a3  p1 = p1  p2 = p2
  Turn = {t1, t2}
  Cycle = {c1, c2}
  Activity = {a1, a2, a3}
  Action = {p1, p2}
  Stream = {s1}
  Progress = {g1, g2}
  NegotiatedKind = {"task"}
  MaxSequence = 7
  RetainFrames = FALSE
  Offered <- ProjectionEvents
  Lead <- InOrder
  OfferedCarrier <- OnlyCarrier
  Undecodable <- NoRefusals
  MaxSuppressed = 0
CONSTRAINT TreeOrForeground
INVARIANTS
  TypeOK
  ForegroundIsSound
  TreeIsSound
PROPERTIES
  RefusalKeepsProjection
  TerminalIsFinal
