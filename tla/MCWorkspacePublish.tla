------------------------- MODULE MCWorkspacePublish -------------------------
(* commit_and_push on a small workspace. *)
EXTENDS WorkspacePublish, TLC

PublishSymmetry == Permutations(Slot) \cup Permutations(Content)
=============================================================================
