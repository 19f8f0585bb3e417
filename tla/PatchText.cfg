SPECIFICATION Spec
CONSTANTS
  Word = {a}
  Blank = Blank
  Absent = Absent
  MaxLines = 3
  HunkLines = 2
  MaxHunks = 2
INVARIANTS
  PlacedWhereTheyFit
  NothingElseChanges
CHECK_DEADLOCK FALSE
