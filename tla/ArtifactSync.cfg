CONSTANTS
  Slot = {s1, s2}
  None = None
  Torn = Torn
  PageSize = 1
  MaxId = 3
  MaxCalls = 3
SPECIFICATION Spec
INVARIANTS ManifestIsTrue
PROPERTIES ResponseIsWhole ResponseIsASnapshot
SYMMETRY Symmetry
CHECK_DEADLOCK FALSE
