CONSTANTS
  File = {f, g}
  None = None
  Width = {1, 3}
  MaxLines = 2
  Budget = {1, 3, 8}
  MaxEdits = 1
  MaxCalls = 3
  MaxInspects = 1
SPECIFICATION Spec
INVARIANTS PagesAreTheFile LossIsFlagged
PROPERTIES RetryAdvances
SYMMETRY Symmetry
CHECK_DEADLOCK FALSE
