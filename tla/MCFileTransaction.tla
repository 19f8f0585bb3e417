------------------------- MODULE MCFileTransaction -------------------------
EXTENDS FileTransaction, TLC

\* Paths, contents and requests are interchangeable.
FileSymmetry ==
  Permutations(Path) \cup Permutations(Content) \cup Permutations(Request)
=============================================================================
