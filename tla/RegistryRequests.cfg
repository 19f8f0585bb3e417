SPECIFICATION Spec
CONSTANTS
  Op = {o1, o2}
  Gateway = {g1, g2, g3}
  Workspace = {w1}
  Key = {k1}
  Request = {r1, r2}
  ProgressFlush = FALSE
  WriteFaults = FALSE
  Orderly = {g1}
  Ends = {"failed"}
  None = None
INVARIANTS
  OneOperationPerRequest
  AcknowledgedIsKnown
  IndexNeverDangles
  IndexIsComplete
  RunningHasTask
  ShutdownSettlesAll
PROPERTIES
  ImplementsLedger
SYMMETRY RegistrySymmetry
CHECK_DEADLOCK FALSE
