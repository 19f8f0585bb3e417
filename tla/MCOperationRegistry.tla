------------------------ MODULE MCOperationRegistry ------------------------
(* Instances of OperationRegistry and RegistryRefinement for TLC.          *)
EXTENDS RegistryRefinement, TLC

\* Operation ids and request hashes are interchangeable, and so are processes
\* with the same bound.
RegistrySymmetry ==
  Permutations(Op) \cup Permutations(Request)
    \cup Permutations(Orderly) \cup Permutations(Gateway \ Orderly)
=============================================================================
