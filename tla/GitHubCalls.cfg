SPECIFICATION Spec
CONSTANTS
  Slot = {s1, s2}
  Key = {k1}
  Nothing = Nothing
  Cache = {c1, c2, c3}
  Reviewed = {c1, c2}
  MaxDelete = 2
  MaxCalls = 2
  MaxHead = 1
INVARIANTS
  CarriedOutOnce
  DeletesAsAsked
  ResponseIsTrue
  MergesOnlyExpected
SYMMETRY CallsSymmetry
CHECK_DEADLOCK FALSE
