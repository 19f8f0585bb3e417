CONSTANTS
  stdout = stdout
  stderr = stderr
  Limit = 2
  Pipe = 2
  MaxBytes = 6
  Continuing <- MCContinuing
  Escaped <- MCEscaped
  PlainOutput = TRUE
  Replaced = Replaced
  Removed = Removed
SPECIFICATION Spec
INVARIANTS OutputIsAccounted PagesAreTheLog
PROPERTIES NeverBlocks
CHECK_DEADLOCK FALSE
