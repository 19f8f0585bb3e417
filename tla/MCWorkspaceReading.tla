------------------------- MODULE MCWorkspaceReading -------------------------
(* WorkspaceReading for TLC: the files are interchangeable.                *)
EXTENDS WorkspaceReading, TLC

Symmetry == Permutations(File)
=============================================================================
