--------------------------- MODULE FileTransaction ---------------------------
(***************************************************************************)
(* apply_patch and write_file (src/app/services/workspaces.py) and the     *)
(* file transaction under them, commit_prepared_changes                    *)
(* (src/app/workspace/text_ops.py).                                        *)
(*                                                                         *)
(* A request reads its targets and computes their new content in one go,   *)
(* awaits git to describe the changes, and then commits them without       *)
(* another await: every new content is staged, each target is moved to a   *)
(* backup and replaced, and an error rolls the targets back.  Other        *)
(* requests run during the await; commands that run in the workspace       *)
(* change files at any time, during a commit too; and the gateway may be   *)
(* killed.  Nothing looks at the transaction directories of a gateway that *)
(* was killed, so what it left behind is where the model stops.            *)
(***************************************************************************)
EXTENDS Naturals, Sequences, FiniteSets

CONSTANTS
  Path,     \* files of one workspace
  Content,  \* what a file may contain
  Request,  \* apply_patch and write_file calls
  Absent

ASSUME AbsentIsNew == Absent \notin Content
ASSUME PathsAreFew == IsFiniteSet(Path)

Bytes  == Content \cup {Absent}
Change == [path : Path, before : Bytes, after : Bytes]

VARIABLES
  alive,      \* the gateway process
  file,       \* the worktree
  pc,         \* where each request stands
  guarded,    \* the request made its write conditional on what it read
  changes,    \* the prepared changes of a request, in commit order
  committed,  \* how many of them are in the list "committed"
  broken,     \* rollback_errors is not empty
  backup,     \* the files of the transaction's backup directory
  outcome,    \* what the caller was told
  start,      \* history: the worktree when the commit of a request began
  touched     \* history: paths that others changed since then

transaction == <<guarded, changes, committed, broken, backup, start>>
vars == <<alive, file, pc, transaction, outcome, touched>>

Forward == {"backup", "install", "cleanup"}
Undoing == {"rollback", "discard"}

TypeOK ==
  /\ alive \in BOOLEAN
  /\ file \in [Path -> Bytes]
  /\ pc \in [Request -> {"idle", "prepared", "done"} \cup Forward \cup Undoing]
  /\ guarded \in [Request -> BOOLEAN]
  /\ changes \in [Request -> Seq(Change)]
  /\ committed \in [Request -> Nat]
  /\ \A r \in Request : committed[r] <= Len(changes[r])
  /\ broken \in [Request -> BOOLEAN]
  /\ backup \in [Request -> [Path -> Bytes]]
  /\ outcome \in [Request -> {"none", "unwritten", "ok", "leftover", "error",
                              "incomplete"}]
  /\ start \in [Request -> [Path -> Bytes]]
  /\ touched \in [Request -> SUBSET Path]

Nothing == [p \in Path |-> Absent]

Init ==
  /\ alive = TRUE
  /\ file \in [Path -> Bytes]
  /\ pc = [r \in Request |-> "idle"]
  /\ guarded = [r \in Request |-> FALSE]
  /\ changes = [r \in Request |-> <<>>]
  /\ committed = [r \in Request |-> 0]
  /\ broken = [r \in Request |-> FALSE]
  /\ backup = [r \in Request |-> Nothing]
  /\ outcome = [r \in Request |-> "none"]
  /\ start = [r \in Request |-> Nothing]
  /\ touched = [r \in Request |-> {}]

-----------------------------------------------------------------------------
(* Preparing a request.                                                    *)

\* Targets of a patch, each once, in the order the patch names them: those of
\* its targets that it would change, which may be none.
Targets == {s \in UNION {[1..n -> Path] : n \in 0..Cardinality(Path)} :
              \A i, j \in DOMAIN s : s[i] = s[j] => i = j}

Prepared(targets, after) ==
  [i \in DOMAIN targets |-> [path   |-> targets[i],
                             before |-> file[targets[i]],
                             after  |-> after[i]]]

Differs(c) == c.before # c.after

\* parse_codex_patch, snapshot_files and prepare_text_patch, or the checks of
\* write_file: a file that is absent is not deleted, and a target that would
\* not change is not prepared.  A write (one target) may be create_only or
\* overwrite_if_sha256_matches, which this step decides from what it reads.
Prepare(r) ==
  /\ alive /\ pc[r] = "idle"
  /\ \E targets \in Targets : \E after \in [DOMAIN targets -> Bytes] :
       /\ \A i \in DOMAIN targets : Differs(Prepared(targets, after)[i])
       /\ changes' = [changes EXCEPT ![r] = Prepared(targets, after)]
       /\ \E g \in BOOLEAN :
            /\ g => Len(targets) <= 1 /\ \A i \in DOMAIN targets : after[i] # Absent
            /\ guarded' = [guarded EXCEPT ![r] = g]
  /\ pc' = [pc EXCEPT ![r] = "prepared"]
  /\ UNCHANGED <<alive, file, committed, broken, backup, outcome, start,
                 touched>>

\* A commit has no await, so there is one at a time.
Committing(r) == pc[r] \in Forward \cup Undoing
Idle == \A r \in Request : ~Committing(r)

\* The await reads the HEAD version of every target, which may fail; then a
\* dry run, a refusal by policy, binary check or size limits, and a write that
\* changes nothing end here.
EndUnwritten(r) ==
  /\ alive /\ Idle /\ pc[r] = "prepared"
  /\ pc' = [pc EXCEPT ![r] = "done"]
  /\ outcome' = [outcome EXCEPT ![r] = "unwritten"]
  /\ UNCHANGED <<alive, file, transaction, touched>>

\* The transaction directory is made and every new content staged; an error
\* while staging is rolled back like any other.
Stage(r) ==
  /\ alive /\ Idle /\ pc[r] = "prepared"
  /\ guarded[r] => changes[r] # <<>>
  /\ \E next \in {"backup", "rollback"} : pc' = [pc EXCEPT ![r] = next]
  /\ start' = [start EXCEPT ![r] = file]
  /\ touched' = [touched EXCEPT ![r] = {}]
  /\ UNCHANGED <<alive, file, guarded, changes, committed, broken, backup,
                 outcome>>

-----------------------------------------------------------------------------
(* commit_prepared_changes.                                                *)

\* The change the loop has come to, and the one "committed" ends with.
Upcoming(r) == changes[r][committed[r] + 1]
Latest(r)   == changes[r][committed[r]]

OneIsLeft(r) == committed[r] + 1 >= Len(changes[r])
AllInstalled(r) == committed[r] = Len(changes[r])

Installed(r) ==
  /\ alive /\ pc[r] = "backup" /\ AllInstalled(r)
  /\ pc' = [pc EXCEPT ![r] = "cleanup"]
  /\ UNCHANGED <<alive, file, transaction, outcome, touched>>

Unlinked(r, p) == backup' = backup
\* os.replace(target, backup_path)
MovedToBackup(r, p) == backup' = [backup EXCEPT ![r][p] = file[p]]

\* The target is moved to its backup if the snapshot had it; if it is gone by
\* now this fails.  Then the change counts as committed.
TakeBackup(r) ==
  LET c == Upcoming(r) IN
  /\ alive /\ pc[r] = "backup" /\ ~AllInstalled(r)
  /\ \/ /\ c.before # Absent
        /\ file[c.path] # Absent
        /\ MovedToBackup(r, c.path)
        /\ file' = [file EXCEPT ![c.path] = Absent]
     \/ /\ c.before = Absent
        /\ UNCHANGED <<file, backup>>
  /\ committed' = [committed EXCEPT ![r] = @ + 1]
  /\ pc' = [pc EXCEPT ![r] = "install"]
  /\ UNCHANGED <<alive, guarded, changes, broken, outcome, start, touched>>

\* Making the parent directories or moving the target raises.
BackupFails(r) ==
  /\ alive /\ pc[r] = "backup" /\ ~AllInstalled(r)
  /\ pc' = [pc EXCEPT ![r] = "rollback"]
  /\ UNCHANGED <<alive, file, transaction, outcome, touched>>

\* os.replace(temporary, target) puts the new content there, over whatever
\* has appeared meanwhile; a deletion has nothing more to do.
Install(r) ==
  LET c == Latest(r) IN
  /\ alive /\ pc[r] = "install"
  /\ file' = [file EXCEPT ![c.path] = IF c.after = Absent THEN @ ELSE c.after]
  /\ pc' = [pc EXCEPT ![r] = "backup"]
  /\ UNCHANGED <<alive, transaction, outcome, touched>>

WithoutLatest(r) == committed[r] - 1
WithLatest(r) == committed[r]

InstallFails(r) ==
  /\ alive /\ pc[r] = "install"
  /\ Latest(r).after # Absent
  /\ committed' = [committed EXCEPT ![r] = WithLatest(r)]
  /\ pc' = [pc EXCEPT ![r] = "rollback"]
  /\ UNCHANGED <<alive, file, guarded, changes, broken, backup, outcome,
                 start, touched>>

\* _rollback_committed_changes, last change first.  Putting a backup back is
\* an unlink of the target and a replace, each of which may raise; without a
\* backup nothing is touched.
Undo(r) ==
  LET c == Latest(r) p == c.path b == backup[r][p] IN
  /\ alive /\ pc[r] = "rollback" /\ committed[r] > 0
  /\ committed' = [committed EXCEPT ![r] = @ - 1]
  /\ \/ /\ c.before # Absent /\ b # Absent
        /\ file' = [file EXCEPT ![p] = b]
        /\ backup' = [backup EXCEPT ![r][p] = Absent]
        /\ UNCHANGED broken
     \/ /\ c.before # Absent
        /\ file' \in {file} \cup (IF b = Absent THEN {}
                                  ELSE {[file EXCEPT ![p] = Absent]})
        /\ broken' = [broken EXCEPT ![r] = TRUE]
        /\ UNCHANGED backup
     \/ /\ c.before = Absent
        /\ file' = [file EXCEPT ![p] = Absent]
        /\ UNCHANGED <<broken, backup>>
     \/ /\ c.before = Absent /\ file[p] # Absent
        /\ broken' = [broken EXCEPT ![r] = TRUE]
        /\ UNCHANGED <<file, backup>>
  /\ UNCHANGED <<alive, pc, guarded, changes, outcome, start,
                 touched>>

Undone(r) ==
  /\ alive /\ pc[r] = "rollback" /\ committed[r] = 0
  /\ pc' = [pc EXCEPT ![r] = "discard"]
  /\ UNCHANGED <<alive, file, transaction, outcome, touched>>

\* _cleanup_transaction_dir: rmtree removes all of it, or raises after some
\* of it is gone.  What the caller is told depends on it and on the rollback.
\* The local variables of the request go with it.
Cleanup(r) ==
  /\ alive /\ pc[r] \in {"cleanup", "discard"}
  /\ \/ /\ backup' = [backup EXCEPT ![r] = Nothing]
        /\ outcome' = [outcome EXCEPT ![r] =
             IF pc[r] = "cleanup" THEN "ok"
             ELSE IF broken[r] THEN "incomplete" ELSE "error"]
     \/ /\ \E kept \in SUBSET Path :
             backup' = [backup EXCEPT ![r] =
               [p \in Path |-> IF p \in kept THEN @[p] ELSE Absent]]
        /\ outcome' = [outcome EXCEPT ![r] =
             IF pc[r] = "cleanup" THEN "leftover" ELSE "incomplete"]
  /\ pc' = [pc EXCEPT ![r] = "done"]
  /\ guarded' = [guarded EXCEPT ![r] = FALSE]
  /\ changes' = [changes EXCEPT ![r] = <<>>]
  /\ committed' = [committed EXCEPT ![r] = 0]
  /\ broken' = [broken EXCEPT ![r] = FALSE]
  /\ start' = [start EXCEPT ![r] = Nothing]
  /\ touched' = [touched EXCEPT ![r] = {}]
  /\ UNCHANGED <<alive, file>>

-----------------------------------------------------------------------------
(* The surroundings.                                                       *)

\* A command of the workspace writes or deletes a file.
CommandWrites(p, b) ==
  /\ alive
  /\ file[p] # b
  /\ file' = [file EXCEPT ![p] = b]
  /\ touched' = [r \in Request |-> IF Committing(r) THEN touched[r] \cup {p}
                                   ELSE touched[r]]
  /\ UNCHANGED <<alive, pc, transaction, outcome>>

Crash ==
  /\ alive
  /\ alive' = FALSE
  /\ UNCHANGED <<file, pc, transaction, outcome, touched>>

CommitStep(r) == Installed(r) \/ TakeBackup(r) \/ BackupFails(r) \/ Install(r)
                   \/ InstallFails(r) \/ Undo(r) \/ Undone(r) \/ Cleanup(r)

Next == \/ \E r \in Request :
             Prepare(r) \/ EndUnwritten(r) \/ Stage(r) \/ CommitStep(r)
        \/ \E p \in Path, b \in Bytes : CommandWrites(p, b)
        \/ Crash

Spec == Init /\ [][Next]_vars

-----------------------------------------------------------------------------
(* Properties.                                                             *)

ChangesOf(r) == {changes[r][i] : i \in DOMAIN changes[r]}

\* The changes of r whose files nobody else has changed during the commit.
Untouched(r) == {c \in ChangesOf(r) : c.path \notin touched[r]}

\* A file that did not exist when the request read it, and exists when the
\* commit begins.
Appeared(r, c) == c.before = Absent /\ start[r][c.path] # Absent

\* An edit is pending until its last change is installed or it is rolled back;
\* up to then its promise hides what the commit has done to its targets.
Underway(r) == pc[r] \in {"backup", "install", "rollback", "discard"}
Pending(r) == alive /\ Underway(r)

StatusOf(r) ==
  CASE Pending(r)                        -> "pending"
    [] ~alive /\ Underway(r)             -> "broken"
    [] pc[r] = "cleanup"                 -> "applied"
    [] outcome[r] \in {"ok", "leftover"} -> "done"
    [] outcome[r] \in {"error", "unwritten"} -> "undone"
    [] outcome[r] = "incomplete"         -> "broken"
    [] OTHER                             -> "none"

Targeted(r) == {c.path : c \in Untouched(r)}
Contested(r) == touched[r] \cup {c.path : c \in {d \in ChangesOf(r) : Appeared(r, d)}}

WorktreeOf(r) ==
  [p \in Path |-> IF Pending(r) /\ p \in Targeted(r) \ Contested(r) THEN start[r][p] ELSE file[p]]

PlanOf(r) ==
  IF Pending(r) THEN [p \in {c.path : c \in ChangesOf(r)} |->
                        (CHOOSE c \in ChangesOf(r) : c.path = p).after]
                ELSE [p \in {} |-> Absent]

Edit(r) == INSTANCE AtomicEdit WITH
  worktree <- WorktreeOf(r), status <- StatusOf(r), plan <- PlanOf(r),
  contested <- IF Pending(r) THEN Contested(r) ELSE {}

EditStep == \A r \in Request : [Edit(r)!Next]_(Edit(r)!edit)

\* README.md, file editing: an edit takes effect as a whole or, when the caller
\* gets an error, not at all, whichever step failed and although other requests
\* changed the targets since they were read.  After an incomplete rollback or a
\* crash each target still holds its old or its new content or is missing.
\* Not promised: a file that appeared at a target after write_file had checked
\* create_only or expected_sha256, and files that commands write meanwhile.
ImplementsAtomicEdit == (\A r \in Request : Edit(r)!Init) /\ [][EditStep]_vars

\* At every point of a commit and of its rollback, and so after a crash at
\* that point, the previous content of each target is in the worktree or in
\* the backup directory.
OriginalsKept ==
  \A r \in Request : Underway(r) =>
    \A c \in Untouched(r) :
      \/ start[r][c.path] \in {file[c.path], backup[r][c.path]}
      \/ Appeared(r, c)

-----------------------------------------------------------------------------
(* A statement of the documents that the code does not keep; README.md of  *)
(* this project, section 4, says how to see it.                            *)

\* README.md, file editing: "per-file backups used to roll back commit
\* errors".  When a request ends in an error, the previous content of each
\* target is in the worktree or still in its backup.
BackupsOutliveErrors ==
  [][\A r \in Request : outcome[r] = "none" /\ outcome'[r] \in {"error", "incomplete"} =>
       \A c \in Untouched(r) :
         \/ start[r][c.path] \in {file'[c.path], backup'[r][c.path]}
         \/ Appeared(r, c)]_vars
=============================================================================
