--------------------------- MODULE MCArtifactSync ---------------------------
\* Requests are interchangeable.
EXTENDS ArtifactSync, TLC
Symmetry == Permutations(Slot)
=============================================================================
