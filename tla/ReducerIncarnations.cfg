SPECIFICATION Spec
CONSTANTS
  None = None
  t1 = t1  t2 = t2  c1 = c1  c2 = c2  a1 = a1  a2 = a2  a3 = a3  p1 = p1  p2 = p2
  Turn = {t1}
  Cycle = {c1}
  Activity = {a1}
  Action = {}
  Stream = {s1, s2, s3}
  Progress = {}
  NegotiatedKind = {}
  MaxSequence = 4
  RetainFrames = TRUE
  Offered <- IncarnationEvents
  Lead <- AnyOrder
  OfferedCarrier <- Carrier
  Undecodable <- Refusals
  MaxSuppressed = 1
INVARIANTS
  RetransmissionIsNoOp
PROPERTIES
  RefusalAndCloseAreFinal
  BoundaryIsContiguous
