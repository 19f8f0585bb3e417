SPECIFICATION Spec
CONSTANTS
  Path = {p1, p2}
  Content = {c1, c2}
  Key = {k1}
  Nothing = Nothing
  Slot = {s1, s2}
  Selection = {{p1}}
  Denied = {p2}
  MaxCommits = 4
  MaxCalls = 2
INVARIANTS
  ExpectedHeadRespected
  PublishedAsReported
  RetryCommitsOnce
PROPERTIES
  RemoteOnlyGrows
SYMMETRY PublishSymmetry
CHECK_DEADLOCK FALSE
