SPECIFICATION Spec
CONSTANTS
  Workspace = {w1, w2, w3}
  Key = {k1, k2}
  Slot = {s1, s2}
  Fixed = Fixed
  Nothing = Nothing
  MaxCalls = 3
INVARIANTS
  AnswersAgree
  OneBranchPerKey
  VisibleIsWhole
PROPERTIES
  KeptWhileUsed
SYMMETRY PrepareSymmetry
CHECK_DEADLOCK FALSE
