SPECIFICATION FairSpec
CONSTANTS
  Op = {o1}
  Gateway = {g1, g2}
  Workspace = {w1}
  Key = {k1}
  Request = {r1}
  ProgressFlush = TRUE
  WriteFaults = TRUE
  Orderly = {g1, g2}
  Ends = {"succeeded", "failed", "timed_out", "canceled"}
  None = None
INVARIANTS
  DiskAgreesAtRest
PROPERTIES
  MemoryTerminalOnce
  EveryOperationSettles
  ShutdownCompletes
CHECK_DEADLOCK FALSE
