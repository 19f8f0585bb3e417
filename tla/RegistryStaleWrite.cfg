SPECIFICATION Spec
CONSTANTS
  Op = {o1}
  Gateway = {g1}
  Workspace = {w1}
  Key = {k1}
  Request = {r1}
  ProgressFlush = TRUE
  WriteFaults = FALSE
  Orderly = {g1}
  Ends = {"succeeded", "failed", "timed_out", "canceled"}
  None = None
PROPERTIES
  DurableTerminalOnce
CHECK_DEADLOCK FALSE
