SPECIFICATION Spec
CONSTANTS
  None = None
  Undecodable = Undecodable
  Scalar = Scalar
  in1 = in1  in2 = in2  out1 = out1
  n1 = n1  n2 = n2  pipe = pipe
  root = root  other = other
  Path = {in1, in2, out1}
  Node = {n1, n2, pipe}
  Irregular = {pipe}
  Root = {root, other}
  Holds <- RootHolds
  Bytes <- AllBytes
  Mixed <- TornBytes
  Formats = {"png", "gif"}
  ImageTypes = {"png", "gif", "tiff"}
  FrameClamp = 3
  MaxHandoffs = 2
  Calls <- AllCalls
  Disks <- AllDisks
  Contents <- AllContents
  MaxChanges = 2
INVARIANTS
  EnvelopeIsExact
  AdmittedAsDeclared
  ArtifactIsWhole
CHECK_DEADLOCK FALSE
