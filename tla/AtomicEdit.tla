----------------------------- MODULE AtomicEdit -----------------------------
(***************************************************************************)
(* What one file editing request promises about the worktree, without      *)
(* staging, backups or rollback: its targets change all at once or not at  *)
(* all, whatever fails on the way; only a failed rollback and a crash may  *)
(* leave some targets old, some new and some missing.                      *)
(*                                                                         *)
(* Files that others write while the edit is under way are contested:      *)
(* nothing is promised about them.  So is a target that the request took   *)
(* for a new file but that is there when the edit begins.                  *)
(***************************************************************************)
EXTENDS FiniteSets

CONSTANTS Path, Bytes, Absent

VARIABLES
  worktree,
  status,     \* "none", "pending", "applied" and the answers
              \* "done", "undone", "broken"
  plan,       \* the new content of each target
  contested

edit == <<worktree, status, plan, contested>>

NoPlan == [p \in {} |-> Absent]
Plans == UNION {[targets -> Bytes] : targets \in SUBSET Path}

Init ==
  /\ worktree \in [Path -> Bytes]
  /\ status = "none" /\ plan = NoPlan /\ contested = {}

Refuse ==
  /\ status = "none" /\ status' = "undone"
  /\ UNCHANGED <<worktree, plan, contested>>

Begin ==
  /\ status = "none" /\ status' = "pending"
  /\ plan' \in Plans
  /\ \E new \in SUBSET DOMAIN plan' : contested' = {p \in new : worktree[p] # Absent}
  /\ UNCHANGED worktree

Close == plan' = NoPlan /\ contested' = {}

Targets == DOMAIN plan \ contested

Apply ==
  /\ status = "pending" /\ status' = "applied"
  /\ worktree' = [p \in Path |-> IF p \in Targets THEN plan[p] ELSE worktree[p]]
  /\ Close

Succeed ==
  /\ status = "applied" /\ status' = "done"
  /\ UNCHANGED <<worktree, plan, contested>>

Undo ==
  /\ status = "pending" /\ status' = "undone"
  /\ Close /\ UNCHANGED worktree

Break ==
  /\ status = "pending" /\ status' = "broken"
  /\ \A p \in Path : worktree'[p] \in {worktree[p]} \cup
       (IF p \in Targets THEN {plan[p], Absent} ELSE {})
  /\ DOMAIN worktree' = Path
  /\ Close

\* Commands and other requests write a file.
Others ==
  /\ \E p \in Path, b \in Bytes :
       /\ worktree' = [worktree EXCEPT ![p] = b]
       /\ contested' = IF status = "pending" THEN contested \cup {p} ELSE contested
  /\ UNCHANGED <<status, plan>>

Next == Refuse \/ Begin \/ Apply \/ Succeed \/ Undo \/ Break \/ Others

Spec == Init /\ [][Next]_edit
=============================================================================
