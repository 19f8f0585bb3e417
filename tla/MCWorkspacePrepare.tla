------------------------- MODULE MCWorkspacePrepare -------------------------
(* prepare with few workspaces. *)
EXTENDS WorkspacePrepare, TLC

PrepareSymmetry == Permutations(Workspace) \cup Permutations(Key) \cup Permutations(Slot)
=============================================================================
