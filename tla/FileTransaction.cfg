SPECIFICATION Spec
CONSTANTS
  Path = {p1, p2}
  Content = {c1, c2, c3}
  Request = {r1}
  Absent = Absent
INVARIANTS
  OriginalsKept
PROPERTIES
  ImplementsAtomicEdit
SYMMETRY FileSymmetry
CHECK_DEADLOCK FALSE
