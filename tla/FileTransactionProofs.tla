------------------------ MODULE FileTransactionProofs ------------------------
(***************************************************************************)
(* Theorems about FileTransaction, for any number of files, contents and   *)
(* requests: an edit that is underway never loses what was in its targets, *)
(* and every request implements an edit that happens as a whole or not at  *)
(* all.                                                                    *)
(***************************************************************************)
EXTENDS FileTransaction, TLAPS

\* A commit has no await in it.
Alone == \A q, r \in Request : Committing(q) /\ Committing(r) => q = r

\* What a request knows before its commit begins, and when it has an answer.
Fresh(r) ==
  /\ pc[r] \in {"idle", "prepared"} =>
       committed[r] = 0 /\ ~broken[r] /\ backup[r] = Nothing
  /\ pc[r] = "idle" => changes[r] = <<>>
  /\ pc[r] = "done" <=> outcome[r] # "none"
  /\ pc[r] = "install" => committed[r] > 0
  /\ pc[r] = "discard" => committed[r] = 0

\* A request names each of its targets once ...
Distinct(r) ==
  \A i, j \in DOMAIN changes[r] : changes[r][i].path = changes[r][j].path => i = j

\* ... and has no backup of a file that it did not find.
NoBackupOfNew(r) ==
  \A i \in DOMAIN changes[r] :
    changes[r][i].before = Absent => backup[r][changes[r][i].path] = Absent

\* What the commit of r has made of its change c, the i-th: nothing yet, or no
\* more, unless it could not be undone; ...
AsBefore(r, c) ==
  \/ file[c.path] = start[r][c.path]
  \/ /\ pc[r] \in Undoing /\ broken[r]
     /\ file[c.path] \in {c.after, Absent}
     /\ backup[r][c.path] = start[r][c.path]

\* ... or it is installed, being installed, or about to be undone, and the
\* previous content is kept.
InHand(r, c, i) ==
  /\ backup[r][c.path] = start[r][c.path]
  /\ \/ pc[r] = "backup" /\ file[c.path] = c.after
     \/ pc[r] = "install" /\ file[c.path] = IF i = committed[r] THEN Absent ELSE c.after
     \/ pc[r] = "rollback" /\ file[c.path] \in {start[r][c.path], c.after, Absent}
  /\ c.before # Absent => start[r][c.path] # Absent

\* A change whose file nobody else has touched, and that did not appear.
Promised(r, c) == c.path \notin touched[r] /\ ~Appeared(r, c)

Progress(r) ==
  Underway(r) => \A i \in DOMAIN changes[r] :
    LET c == changes[r][i] IN
    Promised(r, c) => IF i > committed[r] THEN AsBefore(r, c) ELSE InHand(r, c, i)

\* What holds for each request at any time.
RequestInv(r) == Fresh(r) /\ Distinct(r) /\ NoBackupOfNew(r) /\ Progress(r)

EditInv == TypeOK /\ Alone /\ \A r \in Request : RequestInv(r)

-----------------------------------------------------------------------------
\* The change that the loop has come to, and the one it has done last.
LEMMA ChangeAt ==
  ASSUME TypeOK, NEW r \in Request, NEW i \in 1..Len(changes[r])
  PROVE  i \in DOMAIN changes[r] /\ changes[r][i] \in Change
  BY DEF TypeOK

\* Each change of a request has its type.
LEMMA ChangeFacts ==
  ASSUME TypeOK, NEW r \in Request, NEW i \in DOMAIN changes[r]
  PROVE  /\ i \in Nat \ {0} /\ i <= Len(changes[r])
         /\ changes[r][i].path \in Path
         /\ changes[r][i].before \in Bytes /\ changes[r][i].after \in Bytes
<1>1. changes[r] \in Seq(Change)
  BY DEF TypeOK
<1>2. Len(changes[r]) \in Nat /\ DOMAIN changes[r] = 1..Len(changes[r])
  BY <1>1
<1>3. changes[r][i] \in Change /\ i \in 1..Len(changes[r])
  BY <1>1, <1>2
<1> QED
  BY <1>2, <1>3 DEF Change

\* What Prepare puts together is a list of changes, each of another file.
LEMMA PreparedChanges ==
  ASSUME TypeOK, NEW targets \in Targets,
         NEW after, after \in [DOMAIN targets -> Bytes]
  PROVE  Prepared(targets, after) \in Seq(Change)
<1>1. PICK n \in Nat : targets \in [1..n -> Path]
  BY DEF Targets
<1>2. \A i \in 1..n : targets[i] \in Path /\ file[targets[i]] \in Bytes /\ after[i] \in Bytes
  BY <1>1 DEF TypeOK
<1>3. [i \in 1..n |-> [path |-> targets[i], before |-> file[targets[i]],
                       after |-> after[i]]] \in [1..n -> Change]
  BY <1>2 DEF Change
<1> QED
  BY <1>1, <1>3 DEF Prepared

\* Every step keeps the types.
LEMMA TypeStep == EditInv /\ [Next]_vars => TypeOK'
<1> SUFFICES ASSUME EditInv, [Next]_vars PROVE TypeOK'
  OBVIOUS
<1> USE DEF EditInv
<1>1. ASSUME NEW r \in Request, Prepare(r) PROVE TypeOK'
  <2>1. PICK targets \in Targets : \E after \in [DOMAIN targets -> Bytes] :
          changes' = [changes EXCEPT ![r] = Prepared(targets, after)]
    BY <1>1 DEF Prepare
  <2>2. changes' \in [Request -> Seq(Change)]
    BY <2>1, PreparedChanges DEF TypeOK
  <2>3. \A q \in Request : committed'[q] <= Len(changes'[q])
    <3> SUFFICES ASSUME NEW q \in Request PROVE committed'[q] <= Len(changes'[q])
      OBVIOUS
    <3>1. committed' = committed /\ committed[r] = 0
      BY <1>1 DEF Prepare, RequestInv, Fresh
    <3>2. CASE q = r
      BY <2>2, <3>1, <3>2
    <3>3. CASE q # r
      BY <2>1, <3>1, <3>3 DEF TypeOK
    <3> QED
      BY <3>2, <3>3
  <2> QED
    BY <1>1, <2>2, <2>3 DEF Prepare, TypeOK
<1>2. ASSUME NEW r \in Request,
             EndUnwritten(r) \/ Installed(r) \/ BackupFails(r) \/ Undone(r)
      PROVE  TypeOK'
  BY <1>2 DEF EndUnwritten, Installed, BackupFails, Undone, Forward, Undoing, transaction,
              TypeOK
<1>3. ASSUME NEW r \in Request, Stage(r) PROVE TypeOK'
  <2>1. pc' \in [Request -> {"idle", "prepared", "done"} \cup Forward \cup Undoing]
    BY <1>3 DEF Stage, TypeOK, Forward, Undoing
  <2>2. start' \in [Request -> [Path -> Bytes]] /\ touched' \in [Request -> SUBSET Path]
    BY <1>3 DEF Stage, TypeOK
  <2> QED
    BY <1>3, <2>1, <2>2 DEF Stage, TypeOK
<1>4. ASSUME NEW r \in Request, InstallFails(r) PROVE TypeOK'
  <2>1. committed' = committed
    BY <1>4 DEF InstallFails, WithLatest, TypeOK
  <2>2. pc' \in [Request -> {"idle", "prepared", "done"} \cup Forward \cup Undoing]
    BY <1>4 DEF InstallFails, TypeOK, Undoing
  <2> QED
    BY <1>4, <2>1, <2>2 DEF InstallFails, TypeOK
<1>5. ASSUME NEW r \in Request, TakeBackup(r) PROVE TypeOK'
  <2>1. committed[r] + 1 \in 1..Len(changes[r])
    BY <1>5 DEF TakeBackup, AllInstalled, TypeOK
  <2>2. Upcoming(r) \in Change
    BY <2>1, ChangeAt DEF Upcoming
  <2>3. file' \in [Path -> Bytes]
    BY <1>5, <2>2 DEF TakeBackup, TypeOK, Change, Bytes
  <2>4. backup' \in [Request -> [Path -> Bytes]]
    <3>1. Upcoming(r).path \in Path
      BY <2>2 DEF Change
    <3>2. [backup[r] EXCEPT ![Upcoming(r).path] = file[Upcoming(r).path]] \in [Path -> Bytes]
      BY <3>1 DEF TypeOK
    <3> QED
      BY <1>5, <3>2 DEF TakeBackup, MovedToBackup, TypeOK
  <2>5. committed' \in [Request -> Nat] /\ \A q \in Request : committed'[q] <= Len(changes[q])
    BY <1>5, <2>1 DEF TakeBackup, TypeOK
  <2> QED
    BY <1>5, <2>3, <2>5, <2>4 DEF TakeBackup, TypeOK, Forward
<1>6. ASSUME NEW r \in Request, Install(r) PROVE TypeOK'
  <2>1. committed[r] \in 1..Len(changes[r])
    BY <1>6 DEF Install, TypeOK, RequestInv, Fresh
  <2>2. Latest(r) \in Change
    BY <2>1, ChangeAt DEF Latest
  <2>3. file' \in [Path -> Bytes]
    BY <1>6, <2>2 DEF Install, TypeOK, Change
  <2> QED
    BY <1>6, <2>3 DEF Install, TypeOK, transaction, Forward
<1>7. ASSUME NEW r \in Request, Undo(r) PROVE TypeOK'
  <2>1. committed[r] \in 1..Len(changes[r])
    BY <1>7 DEF Undo, TypeOK
  <2>2. Latest(r) \in Change
    BY <2>1, ChangeAt DEF Latest
  <2>3. backup[r][Latest(r).path] \in Bytes /\ Absent \in Bytes
    BY <2>2 DEF TypeOK, Change, Bytes
  <2>4. file' \in [Path -> Bytes]
    BY <1>7, <2>2, <2>3 DEF Undo, TypeOK, Change
  <2>5. backup' \in [Request -> [Path -> Bytes]]
    <3>1. [backup[r] EXCEPT ![Latest(r).path] = Absent] \in [Path -> Bytes]
      BY <2>2, <2>3 DEF TypeOK
    <3> QED
      BY <1>7, <3>1 DEF Undo, TypeOK
  <2>6. committed' \in [Request -> Nat] /\ \A q \in Request : committed'[q] <= Len(changes[q])
    BY <1>7, <2>1 DEF Undo, TypeOK
  <2> QED
    BY <1>7, <2>4, <2>6, <2>5 DEF Undo, TypeOK
<1>8. ASSUME NEW r \in Request, Cleanup(r) PROVE TypeOK'
  <2>1. Nothing \in [Path -> Bytes]
    BY DEF Nothing, Bytes
  <2>2. backup' \in [Request -> [Path -> Bytes]] /\ start' \in [Request -> [Path -> Bytes]]
    <3>1. PICK left : backup' = [backup EXCEPT ![r] = left] /\ left \in [Path -> Bytes]
      <4>1. CASE backup' = [backup EXCEPT ![r] = Nothing]
        BY <2>1, <4>1
      <4>2. ASSUME NEW kept \in SUBSET Path,
                   backup' = [backup EXCEPT ![r] =
                     [p \in Path |-> IF p \in kept THEN @[p] ELSE Absent]]
            PROVE  \E left : backup' = [backup EXCEPT ![r] = left] /\ left \in [Path -> Bytes]
        <5>1. [p \in Path |-> IF p \in kept THEN backup[r][p] ELSE Absent] \in [Path -> Bytes]
          BY DEF TypeOK, Bytes
        <5>2. backup' = [backup EXCEPT ![r] =
                          [p \in Path |-> IF p \in kept THEN backup[r][p] ELSE Absent]]
          BY <4>2 DEF TypeOK
        <5> QED
          BY <5>1, <5>2
      <4> QED
        BY <1>8, <4>1, <4>2 DEF Cleanup
    <3> QED
      BY <1>8, <2>1, <3>1 DEF Cleanup, TypeOK
  <2>3. changes' \in [Request -> Seq(Change)]
    BY <1>8 DEF Cleanup, TypeOK
  <2>4. committed' \in [Request -> Nat] /\ \A q \in Request : committed'[q] <= Len(changes'[q])
    BY <1>8 DEF Cleanup, TypeOK
  <2> QED
    BY <1>8, <2>2, <2>3, <2>4 DEF Cleanup, TypeOK
<1>9. ASSUME NEW p \in Path, NEW b \in Bytes, CommandWrites(p, b) PROVE TypeOK'
  BY <1>9 DEF CommandWrites, transaction, TypeOK
<1>10. CASE Crash \/ UNCHANGED vars
  BY <1>10 DEF Crash, vars, transaction, TypeOK
<1> QED
  BY <1>1, <1>2, <1>5, <1>6, <1>7, <1>8, <1>9, <1>10, <1>3, <1>4 DEF Next, CommitStep

-----------------------------------------------------------------------------
\* One commit at a time.
LEMMA AloneStep == EditInv /\ [Next]_vars => Alone'
<1> SUFFICES ASSUME EditInv, [Next]_vars PROVE Alone'
  OBVIOUS
<1> USE DEF EditInv, TypeOK, Alone, Committing, Forward, Undoing
<1>1. ASSUME NEW r \in Request, Stage(r) PROVE Alone'
  BY <1>1 DEF Stage, Idle
<1>2. ASSUME NEW r \in Request, Prepare(r) \/ EndUnwritten(r) \/ CommitStep(r)
      PROVE  Alone'
  <2>1. \A q \in Request : Committing(q)' => Committing(q)
    BY <1>2 DEF Prepare, EndUnwritten, CommitStep, Installed, TakeBackup, BackupFails, Install,
                InstallFails, Undo, Undone, Cleanup
  <2> QED
    BY <2>1
<1>3. CASE (\E p \in Path, b \in Bytes : CommandWrites(p, b)) \/ Crash \/ UNCHANGED vars
  BY <1>3 DEF CommandWrites, Crash, vars
<1> QED
  BY <1>1, <1>2, <1>3 DEF Next

\* Nothing of request q changes.
Kept(q) ==
  /\ pc'[q] = pc[q] /\ outcome'[q] = outcome[q] /\ changes'[q] = changes[q]
  /\ committed'[q] = committed[q] /\ broken'[q] = broken[q] /\ backup'[q] = backup[q]
  /\ start'[q] = start[q] /\ touched'[q] = touched[q]

\* A step of one request is none of another, and leaves the files alone unless
\* it is a commit.
LEMMA OthersKept ==
  ASSUME EditInv, NEW r \in Request, NEW q \in Request \ {r},
         Prepare(r) \/ EndUnwritten(r) \/ Stage(r) \/ CommitStep(r)
  PROVE  Kept(q) /\ (file' = file \/ ~Committing(q))
<1>1. Kept(q)
  BY DEF Kept, EditInv, TypeOK, Prepare, EndUnwritten, Stage, CommitStep, Installed, TakeBackup,
     BackupFails, Install, InstallFails, Undo, Undone, Cleanup, transaction, MovedToBackup
<1>2. CASE Prepare(r) \/ EndUnwritten(r) \/ Stage(r)
  BY <1>1, <1>2 DEF Prepare, EndUnwritten, Stage
<1>3. CASE CommitStep(r)
  <2>1. Committing(r)
    BY <1>3 DEF CommitStep, Installed, TakeBackup, BackupFails, Install, InstallFails, Undo,
                Undone, Cleanup, Committing, Forward, Undoing
  <2> QED
    BY <1>1, <2>1 DEF EditInv, Alone
<1> QED
  BY <1>2, <1>3

\* What is kept of a request keeps what holds for it.
LEMMA KeptInv ==
  ASSUME EditInv, NEW q \in Request, Kept(q), file' = file \/ ~Committing(q)
  PROVE  RequestInv(q)'
<1>1. Fresh(q)' /\ Distinct(q)' /\ NoBackupOfNew(q)'
  BY DEF EditInv, RequestInv, Fresh, Distinct, NoBackupOfNew, Kept
<1>2. Progress(q)'
  BY DEF EditInv, RequestInv, Progress, Kept, Underway, Committing, Forward, Undoing,
         Promised, Appeared, AsBefore, InHand
<1> QED
  BY <1>1, <1>2 DEF RequestInv
-----------------------------------------------------------------------------
(* The steps of a request keep what holds for it.                          *)

\* Before its commit, and after it, a request has done nothing to a file.
LEMMA OutsideCommit ==
  ASSUME EditInv, NEW r \in Request,
         Prepare(r) \/ EndUnwritten(r) \/ Installed(r) \/ Cleanup(r)
  PROVE  RequestInv(r)'
<1>1. ~Underway(r)'
  BY DEF EditInv, TypeOK, Prepare, EndUnwritten, Installed, Cleanup, Underway
<1>2. CASE Prepare(r)
  <2>1. PICK targets \in Targets : \E after \in [DOMAIN targets -> Bytes] :
          changes' = [changes EXCEPT ![r] = Prepared(targets, after)]
    BY <1>2 DEF Prepare
  <2>2. PICK after \in [DOMAIN targets -> Bytes] :
          changes'[r] = Prepared(targets, after)
    BY <2>1 DEF EditInv, TypeOK
  <2>3. Distinct(r)'
    BY <2>2 DEF Prepared, Targets, Distinct
  <2>4. \A i \in DOMAIN changes'[r] : changes'[r][i].path \in Path
    BY <2>2 DEF Prepared, Targets
  <2>5. backup'[r] = Nothing
    BY <1>2 DEF Prepare, EditInv, RequestInv, Fresh
  <2>6. NoBackupOfNew(r)'
    BY <2>4, <2>5 DEF NoBackupOfNew, Nothing
  <2>7. Fresh(r)'
    BY <1>2 DEF Prepare, EditInv, TypeOK, RequestInv, Fresh
  <2> QED
    BY <1>1, <2>3, <2>6, <2>7 DEF RequestInv, Progress
<1>3. CASE EndUnwritten(r) \/ Installed(r)
  <2>1. Fresh(r)'
    BY <1>3 DEF EndUnwritten, Installed, EditInv, TypeOK, RequestInv, Fresh, transaction
  <2>2. Distinct(r)' /\ NoBackupOfNew(r)'
    BY <1>3 DEF EndUnwritten, Installed, EditInv, RequestInv, Distinct, NoBackupOfNew, transaction
  <2> QED
    BY <1>1, <2>1, <2>2 DEF RequestInv, Progress
<1>4. CASE Cleanup(r)
  <2>1. changes'[r] = <<>> /\ pc'[r] = "done" /\ outcome'[r] # "none"
    BY <1>4 DEF Cleanup, EditInv, TypeOK
  <2>2. Fresh(r)' /\ Distinct(r)' /\ NoBackupOfNew(r)'
    BY <2>1 DEF Fresh, Distinct, NoBackupOfNew
  <2> QED
    BY <1>1, <2>2 DEF RequestInv, Progress
<1> QED
  BY <1>2, <1>3, <1>4

\* The commit begins with the worktree that it promises to restore.
LEMMA StageKeeps ==
  ASSUME EditInv, NEW r \in Request, Stage(r)
  PROVE  RequestInv(r)'
<1>1. /\ committed'[r] = 0 /\ backup'[r] = Nothing /\ start'[r] = file' /\ file' = file
      /\ pc'[r] \in {"backup", "rollback"} /\ outcome' = outcome /\ changes' = changes
  BY DEF Stage, EditInv, TypeOK, RequestInv, Fresh
<1>2. Fresh(r)'
  BY <1>1 DEF Stage, EditInv, RequestInv, Fresh
<1>3. Distinct(r)' /\ NoBackupOfNew(r)'
  BY <1>1 DEF Stage, EditInv, RequestInv, Distinct, NoBackupOfNew
<1>4. Progress(r)'
  BY <1>1 DEF Progress, AsBefore, EditInv, TypeOK
<1> QED
  BY <1>2, <1>3, <1>4 DEF RequestInv

\* Steps of a commit that change neither files nor backups.
LEMMA TurnKeeps ==
  ASSUME EditInv, NEW r \in Request, BackupFails(r) \/ InstallFails(r) \/ Undone(r)
  PROVE  RequestInv(r)'
<1>1. /\ UNCHANGED <<file, changes, committed, broken, backup, start, outcome, touched>>
      /\ \/ pc[r] = "backup" /\ pc'[r] = "rollback"
         \/ pc[r] = "install" /\ pc'[r] = "rollback"
         \/ pc[r] = "rollback" /\ pc'[r] = "discard" /\ committed[r] = 0
  BY DEF BackupFails, InstallFails, Undone, WithLatest, EditInv, TypeOK, transaction
<1>2. Fresh(r)' /\ Distinct(r)' /\ NoBackupOfNew(r)'
  BY <1>1 DEF EditInv, RequestInv, Fresh, Distinct, NoBackupOfNew
<1>3. Progress(r)'
  <2> SUFFICES ASSUME NEW i \in DOMAIN changes[r], Promised(r, changes[r][i])
               PROVE  IF i > committed[r] THEN AsBefore(r, changes[r][i])'
                                          ELSE InHand(r, changes[r][i], i)'
    BY <1>1 DEF Progress, Promised, Appeared, AsBefore, InHand
  <2>1. IF i > committed[r] THEN AsBefore(r, changes[r][i]) ELSE InHand(r, changes[r][i], i)
    BY <1>1 DEF EditInv, RequestInv, Progress, Underway
  <2>2. i \in 1..Len(changes[r]) /\ committed[r] \in Nat
    BY DEF EditInv, TypeOK
  <2> QED
    BY <1>1, <2>1, <2>2 DEF AsBefore, InHand, Undoing
<1> QED
  BY <1>2, <1>3 DEF RequestInv

\* The next target is moved to its backup, and counts as committed.
LEMMA TakeBackupKeeps ==
  ASSUME EditInv, NEW r \in Request, TakeBackup(r)
  PROVE  RequestInv(r)'
<1>1. PICK n, c : /\ n = committed[r] + 1 /\ n \in DOMAIN changes[r] \cap Nat
                  /\ c = changes[r][n] /\ c \in Change /\ c = Upcoming(r)
  BY ChangeAt DEF TakeBackup, AllInstalled, EditInv, TypeOK, Upcoming
<1>2. /\ pc[r] = "backup" /\ pc'[r] = "install" /\ committed'[r] = n
      /\ UNCHANGED <<changes, start, touched, broken, outcome>>
  BY <1>1 DEF TakeBackup, EditInv, TypeOK
<1>3. \/ /\ c.before # Absent /\ file[c.path] # Absent
         /\ backup'[r] = [backup[r] EXCEPT ![c.path] = file[c.path]]
         /\ file' = [file EXCEPT ![c.path] = Absent]
      \/ /\ c.before = Absent /\ file' = file /\ backup'[r] = backup[r]
  <2>1. MovedToBackup(r, c.path) =>
          backup'[r] = [backup[r] EXCEPT ![c.path] = file[c.path]]
    BY DEF MovedToBackup, EditInv, TypeOK
  <2> QED
    BY <1>1, <2>1 DEF TakeBackup
<1>4. \A p \in Path \ {c.path} : file'[p] = file[p] /\ backup'[r][p] = backup[r][p]
  BY <1>3 DEF EditInv, TypeOK
<1>5. \A i \in DOMAIN changes[r] \ {n} :
        changes[r][i].path \in Path \ {c.path} /\ (i > n <=> i > committed[r])
  <2> SUFFICES ASSUME NEW i \in DOMAIN changes[r] \ {n}
               PROVE  changes[r][i].path \in Path \ {c.path} /\ (i > n <=> i > committed[r])
    OBVIOUS
  <2>1. changes[r][i].path # c.path
    BY <1>1 DEF EditInv, RequestInv, Distinct
  <2>2. i \in Nat /\ committed[r] \in Nat /\ changes[r][i].path \in Path
    BY ChangeFacts DEF EditInv, TypeOK
  <2>3. i > n <=> i > committed[r]
    BY <1>1, <2>2
  <2> QED
    BY <2>1, <2>2, <2>3
<1>6. Fresh(r)'
  BY <1>1, <1>2 DEF EditInv, TypeOK, RequestInv, Fresh
<1>7. Distinct(r)'
  BY <1>2 DEF EditInv, RequestInv, Distinct
<1>8. NoBackupOfNew(r)'
  BY <1>1, <1>2, <1>3, <1>4, <1>5 DEF EditInv, RequestInv, NoBackupOfNew
<1>9. Progress(r)'
  <2> SUFFICES ASSUME NEW i \in DOMAIN changes[r], Promised(r, changes[r][i])
               PROVE  IF i > n THEN AsBefore(r, changes[r][i])'
                               ELSE InHand(r, changes[r][i], i)'
    BY <1>2 DEF Progress, Promised, Appeared, AsBefore, InHand
  <2>1. IF i > committed[r] THEN AsBefore(r, changes[r][i]) ELSE InHand(r, changes[r][i], i)
    BY <1>2 DEF EditInv, RequestInv, Progress, Underway
  <2>2. CASE i # n
    <3>1. file'[changes[r][i].path] = file[changes[r][i].path]
          /\ backup'[r][changes[r][i].path] = backup[r][changes[r][i].path]
          /\ (i > n <=> i > committed[r])
      BY <1>4, <1>5, <2>2
    <3>2. CASE i > committed[r]
      BY <1>2, <2>1, <3>1, <3>2 DEF AsBefore, Undoing
    <3>3. CASE ~(i > committed[r])
      <4>1. i # n /\ i # committed[r] => file[changes[r][i].path] = changes[r][i].after
        BY <1>2, <2>1, <3>3 DEF InHand
      <4> QED
        BY <1>1, <1>2, <2>1, <2>2, <3>1, <3>3 DEF InHand
    <3> QED
      BY <3>2, <3>3
  <2>3. CASE i = n
    <3>1. n > committed[r] /\ pc[r] \notin Undoing
      BY <1>1, <1>2 DEF EditInv, TypeOK, Undoing
    <3>2. file[c.path] = start[r][c.path]
      BY <1>1, <2>1, <2>3, <3>1 DEF AsBefore
    <3>3. c.before = Absent => start[r][c.path] = Absent /\ backup[r][c.path] = Absent
      BY <1>1, <2>3 DEF Promised, Appeared, EditInv, RequestInv, NoBackupOfNew
    <3>4. backup'[r][c.path] = start[r][c.path] /\ file'[c.path] = Absent
      BY <1>1, <1>3, <3>2, <3>3 DEF EditInv, TypeOK, Change
    <3>5. InHand(r, c, n)'
      BY <1>2, <1>3, <3>2, <3>3, <3>4 DEF InHand
    <3>6. InHand(r, changes[r][n], n)'
      BY <1>1, <1>2, <3>5 DEF InHand
    <3> QED
      BY <1>1, <2>3, <3>6
  <2> QED
    BY <2>2, <2>3
<1> QED
  BY <1>6, <1>7, <1>8, <1>9 DEF RequestInv
\* Paths of two changes differ.
LEMMA OtherPath ==
  ASSUME EditInv, NEW r \in Request, NEW n \in DOMAIN changes[r],
         NEW i \in DOMAIN changes[r] \ {n}
  PROVE  changes[r][i].path # changes[r][n].path
  BY DEF EditInv, RequestInv, Distinct

\* The new content is put where the target was.
LEMMA InstallKeeps ==
  ASSUME EditInv, NEW r \in Request, Install(r)
  PROVE  RequestInv(r)'
<1>1. PICK n, c : /\ n = committed[r] /\ n \in DOMAIN changes[r] \cap Nat
                  /\ c = changes[r][n] /\ c.path \in Path /\ c = Latest(r)
  <2>1. committed[r] \in 1..Len(changes[r])
    BY DEF Install, EditInv, TypeOK, RequestInv, Fresh
  <2> QED
    BY <2>1, ChangeAt, ChangeFacts DEF EditInv, Latest
<1>2. /\ pc[r] = "install" /\ pc'[r] = "backup"
      /\ UNCHANGED <<changes, committed, start, touched, broken, backup, outcome>>
  BY DEF Install, EditInv, TypeOK, transaction
<1>3. file' = [file EXCEPT ![c.path] = IF c.after = Absent THEN @ ELSE c.after]
  BY <1>1 DEF Install
<1>4. Fresh(r)' /\ Distinct(r)' /\ NoBackupOfNew(r)'
  BY <1>2 DEF EditInv, RequestInv, Fresh, Distinct, NoBackupOfNew
<1>5. Progress(r)'
  <2> SUFFICES ASSUME NEW i \in DOMAIN changes[r], Promised(r, changes[r][i])
               PROVE  IF i > n THEN AsBefore(r, changes[r][i])'
                               ELSE InHand(r, changes[r][i], i)'
    BY <1>1, <1>2 DEF Progress, Promised, Appeared, AsBefore, InHand
  <2>1. IF i > n THEN AsBefore(r, changes[r][i]) ELSE InHand(r, changes[r][i], i)
    BY <1>1, <1>2 DEF EditInv, RequestInv, Progress, Underway
  <2>2. CASE i # n
    <3>1. file'[changes[r][i].path] = file[changes[r][i].path]
      <4>1. changes[r][i].path # c.path /\ changes[r][i].path \in Path
        BY <1>1, <2>2, OtherPath, ChangeFacts DEF EditInv
      <4> QED
        BY <1>3, <4>1 DEF EditInv, TypeOK
    <3>2. CASE i > n
      BY <1>2, <2>1, <3>1, <3>2 DEF AsBefore, Undoing
    <3>3. CASE ~(i > n)
      BY <1>1, <1>2, <2>1, <2>2, <3>1, <3>3 DEF InHand
    <3> QED
      BY <3>2, <3>3
  <2>3. CASE i = n
    <3>1. n \in Nat /\ ~(n > n)
      BY <1>1
    <3>2. InHand(r, c, n)
      BY <1>1, <2>1, <2>3, <3>1
    <3>3. file[c.path] = Absent
      BY <1>1, <1>2, <3>2 DEF InHand
    <3>4. file'[c.path] = c.after
      BY <1>1, <1>3, <3>3 DEF EditInv, TypeOK
    <3>5. InHand(r, changes[r][n], n)'
      BY <1>1, <1>2, <3>2, <3>4 DEF InHand
    <3> QED
      BY <1>1, <2>3, <3>5
  <2> QED
    BY <2>2, <2>3
<1> QED
  BY <1>4, <1>5 DEF RequestInv

\* The change that was done last is undone, or cannot be.
LEMMA UndoKeeps ==
  ASSUME EditInv, NEW r \in Request, Undo(r)
  PROVE  RequestInv(r)'
<1>1. PICK n, c : /\ n = committed[r] /\ n \in DOMAIN changes[r] \cap Nat /\ n > 0
                  /\ c = changes[r][n] /\ c.path \in Path /\ c = Latest(r)
  <2>1. committed[r] \in 1..Len(changes[r])
    BY DEF Undo, EditInv, TypeOK
  <2> QED
    BY <2>1, ChangeAt, ChangeFacts DEF EditInv, Latest
<1>2. /\ pc[r] = "rollback" /\ pc'[r] = "rollback" /\ committed'[r] = n - 1
      /\ UNCHANGED <<changes, start, touched, outcome>>
  BY <1>1 DEF Undo, EditInv, TypeOK
<1>3. \/ /\ c.before # Absent /\ backup[r][c.path] # Absent
         /\ file' = [file EXCEPT ![c.path] = backup[r][c.path]]
         /\ backup'[r] = [backup[r] EXCEPT ![c.path] = Absent]
         /\ broken'[r] = broken[r]
      \/ /\ c.before # Absent
         /\ file' = file \/ file' = [file EXCEPT ![c.path] = Absent]
         /\ backup'[r] = backup[r] /\ broken'[r]
      \/ /\ c.before = Absent
         /\ file' = [file EXCEPT ![c.path] = Absent]
         /\ backup'[r] = backup[r] /\ broken'[r] = broken[r]
      \/ /\ c.before = Absent
         /\ file' = file /\ backup'[r] = backup[r] /\ broken'[r]
  <2>1. backup' = [backup EXCEPT ![r][c.path] = Absent]
          => backup'[r] = [backup[r] EXCEPT ![c.path] = Absent]
    BY DEF EditInv, TypeOK
  <2>2. broken' = [broken EXCEPT ![r] = TRUE] => broken'[r]
    BY DEF EditInv, TypeOK
  <2> QED
    BY <1>1, <2>1, <2>2 DEF Undo
<1>4. \A p \in Path \ {c.path} : file'[p] = file[p] /\ backup'[r][p] = backup[r][p]
  BY <1>3 DEF EditInv, TypeOK
<1>5. Fresh(r)'
  BY <1>2 DEF EditInv, TypeOK, RequestInv, Fresh
<1>6. Distinct(r)'
  BY <1>2 DEF EditInv, RequestInv, Distinct
<1>7. NoBackupOfNew(r)'
  BY <1>1, <1>2, <1>3, <1>4, OtherPath, ChangeFacts DEF EditInv, RequestInv, NoBackupOfNew
<1>8. Progress(r)'
  <2> SUFFICES ASSUME NEW i \in DOMAIN changes[r], Promised(r, changes[r][i])
               PROVE  IF i > n - 1 THEN AsBefore(r, changes[r][i])'
                                   ELSE InHand(r, changes[r][i], i)'
    BY <1>1, <1>2 DEF Progress, Promised, Appeared, AsBefore, InHand
  <2>1. IF i > n THEN AsBefore(r, changes[r][i]) ELSE InHand(r, changes[r][i], i)
    BY <1>1, <1>2 DEF EditInv, RequestInv, Progress, Underway
  <2>2. CASE i # n
    <3>1. /\ file'[changes[r][i].path] = file[changes[r][i].path]
          /\ backup'[r][changes[r][i].path] = backup[r][changes[r][i].path]
      <4>1. changes[r][i].path # c.path /\ changes[r][i].path \in Path
        BY <1>1, <2>2, OtherPath, ChangeFacts DEF EditInv
      <4> QED
        BY <1>4, <4>1
    <3>2. i > n <=> i > n - 1
      BY <1>1, <2>2, ChangeFacts DEF EditInv
    <3>3. broken[r] => broken'[r]
      BY <1>3
    <3>4. CASE i > n
      BY <1>2, <2>1, <3>1, <3>2, <3>3, <3>4 DEF AsBefore, Undoing
    <3>5. CASE ~(i > n)
      BY <1>2, <2>1, <3>1, <3>2, <3>5 DEF InHand
    <3> QED
      BY <3>4, <3>5
  <2>3. CASE i = n
    <3>1. n \in Nat /\ ~(n > n)
      BY <1>1
    <3>2. InHand(r, c, n)
      BY <1>1, <2>1, <2>3, <3>1
    <3>3. /\ backup[r][c.path] = start[r][c.path]
          /\ file[c.path] \in {start[r][c.path], c.after, Absent}
          /\ c.before # Absent => start[r][c.path] # Absent
          /\ c.before = Absent => start[r][c.path] = Absent
      BY <1>1, <1>2, <2>3, <3>2 DEF InHand, Promised, Appeared
    <3>4. \/ file'[c.path] = start[r][c.path]
          \/ /\ broken'[r] /\ backup'[r] = backup[r]
             /\ file'[c.path] \in {start[r][c.path], c.after, Absent}
      BY <1>1, <1>3, <3>3 DEF EditInv, TypeOK
    <3>5. AsBefore(r, changes[r][n])'
      BY <1>1, <1>2, <3>3, <3>4 DEF AsBefore, Undoing
    <3> QED
      BY <1>1, <2>3, <3>5
  <2> QED
    BY <2>2, <2>3
<1> QED
  BY <1>5, <1>6, <1>7, <1>8 DEF RequestInv

\* A file that a command writes is no longer promised; the others are as they
\* were.  A crash changes nothing that is promised.
LEMMA SurroundingsKeep ==
  ASSUME EditInv, NEW r \in Request,
         \/ \E p \in Path, b \in Bytes : CommandWrites(p, b)
         \/ Crash \/ UNCHANGED vars
  PROVE  RequestInv(r)'
<1>1. UNCHANGED <<pc, changes, committed, broken, backup, start, outcome>>
  BY DEF CommandWrites, Crash, vars, transaction
<1>2. Fresh(r)' /\ Distinct(r)' /\ NoBackupOfNew(r)'
  BY <1>1 DEF EditInv, RequestInv, Fresh, Distinct, NoBackupOfNew
<1>3. Underway(r) => \A p \in Path \ touched'[r] : p \notin touched[r] /\ file'[p] = file[p]
  BY DEF CommandWrites, Crash, vars, EditInv, TypeOK, Underway, Committing, Forward, Undoing
<1>4. Progress(r)'
  <2> SUFFICES ASSUME Underway(r), NEW i \in DOMAIN changes[r], Promised(r, changes[r][i])'
               PROVE  IF i > committed[r] THEN AsBefore(r, changes[r][i])'
                                          ELSE InHand(r, changes[r][i], i)'
    BY <1>1 DEF Progress, Underway, Promised, Appeared, AsBefore, InHand
  <2>1. /\ Promised(r, changes[r][i])
        /\ file'[changes[r][i].path] = file[changes[r][i].path]
    BY <1>1, <1>3, ChangeFacts DEF EditInv, Promised, Appeared
  <2>2. IF i > committed[r] THEN AsBefore(r, changes[r][i]) ELSE InHand(r, changes[r][i], i)
    BY <2>1 DEF EditInv, RequestInv, Progress
  <2> QED
    BY <1>1, <2>1, <2>2 DEF AsBefore, InHand
<1> QED
  BY <1>2, <1>4 DEF RequestInv

\* Every step keeps the invariant.
LEMMA EditStepKeeps == EditInv /\ [Next]_vars => EditInv'
<1> SUFFICES ASSUME EditInv, [Next]_vars PROVE \A q \in Request : RequestInv(q)'
  BY TypeStep, AloneStep DEF EditInv
<1>1. ASSUME NEW r \in Request,
             Prepare(r) \/ EndUnwritten(r) \/ Stage(r) \/ CommitStep(r)
      PROVE  \A q \in Request : RequestInv(q)'
  <2>1. RequestInv(r)'
    BY <1>1, OutsideCommit, StageKeeps, TurnKeeps, TakeBackupKeeps, InstallKeeps, UndoKeeps
       DEF CommitStep
  <2>2. \A q \in Request \ {r} : RequestInv(q)'
    BY <1>1, OthersKept, KeptInv
  <2> QED
    BY <2>1, <2>2
<1> QED
  BY <1>1, SurroundingsKeep DEF Next

\* No request has begun.
LEMMA EditInit == Init => EditInv
<1> SUFFICES ASSUME Init PROVE EditInv
  OBVIOUS
<1>1. TypeOK
  BY DEF Init, TypeOK, Nothing, Bytes
<1>2. Alone
  BY DEF Init, Alone, Committing, Forward, Undoing
<1>3. \A r \in Request : RequestInv(r)
  BY DEF Init, RequestInv, Fresh, Distinct, NoBackupOfNew, Progress, Underway
<1> QED
  BY <1>1, <1>2, <1>3 DEF EditInv

\* Each file operation of a commit, of its rollback, and of anybody else in
\* between leaves every edit in a state that it can be finished or undone from.
THEOREM EditInductive == Spec => []EditInv
<1> QED
  BY EditInit, EditStepKeeps, PTL DEF Spec

\* The previous content of each target is in the worktree or in the backup
\* directory, at every point of commit_prepared_changes and of its rollback.
THEOREM OriginalsAreKept == Spec => []OriginalsKept
<1>1. EditInv => OriginalsKept
  <2> SUFFICES ASSUME EditInv, NEW r \in Request, Underway(r), NEW c \in Untouched(r),
                      ~Appeared(r, c)
               PROVE  start[r][c.path] \in {file[c.path], backup[r][c.path]}
    BY DEF OriginalsKept
  <2>1. PICK i \in DOMAIN changes[r] : c = changes[r][i] /\ Promised(r, c)
    BY DEF Untouched, ChangesOf, Promised
  <2>2. IF i > committed[r] THEN AsBefore(r, c) ELSE InHand(r, c, i)
    BY <2>1 DEF EditInv, RequestInv, Progress
  <2> QED
    BY <2>2 DEF AsBefore, InHand
<1> QED
  BY <1>1, EditInductive, PTL
-----------------------------------------------------------------------------
(* Every request implements an atomic edit.                                *)

\* The paths that a pending edit hides.
Hidden(r) == {c.path : c \in ChangesOf(r)} \ Contested(r)

\* A hidden path is the target of a change that is promised, and its plan is
\* what that change installs.
LEMMA HiddenFacts ==
  ASSUME EditInv, NEW r \in Request, NEW p \in Hidden(r)
  PROVE  /\ \E i \in DOMAIN changes[r] : p = changes[r][i].path /\ Promised(r, changes[r][i])
         /\ p \in Path /\ p \notin touched[r]
<1>1. PICK i \in DOMAIN changes[r] : p = changes[r][i].path
  BY DEF Hidden, ChangesOf
<1>2. p \notin touched[r] /\ ~Appeared(r, changes[r][i])
  BY <1>1 DEF Hidden, Contested, ChangesOf
<1> QED
  BY <1>1, <1>2, ChangeFacts DEF EditInv, Promised

\* The worktree that r shows.
WorktreeShown(r) ==
  /\ ~Pending(r) => WorktreeOf(r) = file
  /\ Pending(r) => WorktreeOf(r) =
       [p \in Path |-> IF p \in Hidden(r) THEN start[r][p] ELSE file[p]]

\* It is the worktree, but for the targets of a pending edit.
LEMMA WorktreeFacts ==
  ASSUME EditInv, NEW r \in Request
  PROVE  WorktreeShown(r)
<1>1. Targeted(r) \ Contested(r) = Hidden(r)
  BY DEF Targeted, Contested, Hidden, Untouched
<1> QED
  BY <1>1 DEF WorktreeShown, WorktreeOf, EditInv, TypeOK

\* The plan that r shows: the new content of each target while it is pending.
PlanShown(r) ==
  /\ Pending(r) =>
       /\ DOMAIN PlanOf(r) = {c.path : c \in ChangesOf(r)}
       /\ PlanOf(r) \in [{c.path : c \in ChangesOf(r)} -> Bytes]
       /\ {c.path : c \in ChangesOf(r)} \subseteq Path
       /\ \A i \in DOMAIN changes[r] :
            PlanOf(r)[changes[r][i].path] = changes[r][i].after
  /\ ~Pending(r) => PlanOf(r) = Edit(r)!NoPlan

\* Its targets are those of the changes.
LEMMA PlanFacts ==
  ASSUME EditInv, NEW r \in Request
  PROVE  PlanShown(r)
<1> SUFFICES ASSUME Pending(r) PROVE PlanShown(r)
  BY DEF PlanShown, PlanOf, Edit!NoPlan
<1> DEFINE paths == {c.path : c \in ChangesOf(r)}
           new(p) == (CHOOSE c \in ChangesOf(r) : c.path = p).after
<1>1. PlanOf(r) = [p \in paths |-> new(p)]
  BY DEF PlanOf
<1>2. paths \subseteq Path
  BY ChangeFacts DEF ChangesOf, EditInv
<1>3. ASSUME NEW i \in DOMAIN changes[r] PROVE new(changes[r][i].path) = changes[r][i].after
  <2>1. changes[r][i] \in ChangesOf(r)
    BY DEF ChangesOf
  <2>2. \A c \in ChangesOf(r) : c.path = changes[r][i].path => c = changes[r][i]
    BY DEF ChangesOf, EditInv, RequestInv, Distinct
  <2>3. (CHOOSE c \in ChangesOf(r) : c.path = changes[r][i].path) = changes[r][i]
    BY <2>1, <2>2
  <2> QED
    BY <2>3
<1>4. ASSUME NEW p \in paths PROVE new(p) \in Bytes
  <2>1. PICK i \in DOMAIN changes[r] : p = changes[r][i].path
    BY DEF ChangesOf
  <2> QED
    BY <1>3, <2>1, ChangeFacts DEF EditInv
<1>5. \A i \in DOMAIN changes[r] : changes[r][i].path \in paths
  BY DEF ChangesOf
<1> HIDE DEF new
<1> QED
  BY <1>1, <1>2, <1>3, <1>4, <1>5 DEF PlanShown

\* The status that r shows, by where the request stands.
StatusShown(r) ==
  /\ Pending(r) => StatusOf(r) = "pending"
  /\ ~Pending(r) => StatusOf(r) # "pending"
  /\ Underway(r) /\ ~alive => StatusOf(r) = "broken"
  /\ pc[r] = "cleanup" => StatusOf(r) = "applied"
  /\ pc[r] \in {"idle", "prepared"} => StatusOf(r) = "none"
  /\ pc[r] = "done" =>
       /\ outcome[r] \in {"ok", "leftover"} => StatusOf(r) = "done"
       /\ outcome[r] \in {"error", "unwritten"} => StatusOf(r) = "undone"
       /\ outcome[r] = "incomplete" => StatusOf(r) = "broken"

\* Where a request stands determines it.
LEMMA StatusFacts ==
  ASSUME EditInv, NEW r \in Request
  PROVE  StatusShown(r)
  BY DEF StatusShown, StatusOf, Pending, Underway, EditInv, TypeOK, RequestInv, Fresh

Shown(r) == WorktreeShown(r) /\ PlanShown(r) /\ StatusShown(r)

\* All that, before and after a step.
LEMMA ShownFacts ==
  /\ EditInv => \A r \in Request : Shown(r)
  /\ EditInv' => \A r \in Request : Shown(r)'
<1>1. EditInv => \A r \in Request : Shown(r)
  BY WorktreeFacts, PlanFacts, StatusFacts DEF Shown
<1>2. EditInv' => (\A r \in Request : Shown(r))'
  BY <1>1, PTL
<1> QED
  BY <1>1, <1>2

\* A pending edit, and another step that writes at most one file: the target of
\* one of its changes, or a file that becomes contested.
LEMMA PendingStep ==
  ASSUME EditInv, EditInv', NEW r \in Request, Pending(r), Pending(r)',
         changes'[r] = changes[r], start'[r] = start[r],
         \/ /\ touched'[r] = touched[r]
            /\ \/ file' = file
               \/ \E c \in ChangesOf(r) : \E b \in Bytes : file' = [file EXCEPT ![c.path] = b]
         \/ \E p \in Path, b \in Bytes :
              file' = [file EXCEPT ![p] = b] /\ touched'[r] = touched[r] \cup {p}
  PROVE  Edit(r)!Others \/ UNCHANGED Edit(r)!edit
<1>1. StatusOf(r) = "pending" /\ StatusOf(r)' = "pending"
  BY ShownFacts DEF Shown, StatusShown
<1>2. ChangesOf(r)' = ChangesOf(r) /\ PlanOf(r)' = PlanOf(r)
  BY DEF ChangesOf, PlanOf
<1>3. /\ WorktreeOf(r) = [p \in Path |-> IF p \in Hidden(r) THEN start[r][p] ELSE file[p]]
      /\ WorktreeOf(r)' = [p \in Path |-> IF p \in Hidden(r)' THEN start[r][p] ELSE file'[p]]
  BY ShownFacts DEF Shown, WorktreeShown
<1> DEFINE appeared == {c.path : c \in {d \in ChangesOf(r) : Appeared(r, d)}}
           paths == {c.path : c \in ChangesOf(r)}
<1>4. /\ Contested(r) = touched[r] \cup appeared /\ Contested(r)' = touched'[r] \cup appeared
      /\ Hidden(r) = paths \ Contested(r) /\ Hidden(r)' = paths \ Contested(r)'
  BY <1>2 DEF Contested, Hidden, Appeared
<1>5. CASE file' = file /\ touched'[r] = touched[r]
  BY <1>1, <1>2, <1>3, <1>4, <1>5 DEF Edit!edit
<1>6. ASSUME NEW p \in Path, NEW b \in Bytes, file' = [file EXCEPT ![p] = b],
             touched'[r] = touched[r] \cup {p} \/ (touched'[r] = touched[r] /\ p \in Contested(r))
      PROVE  Edit(r)!Others
  <2>1. Contested(r)' = Contested(r) \cup {p}
    BY <1>4, <1>6
  <2>2. WorktreeOf(r)' = [WorktreeOf(r) EXCEPT ![p] = b]
    <3>1. p \notin Hidden(r)' /\ Hidden(r)' = Hidden(r) \ {p}
      BY <1>4, <2>1
    <3>2. \A q \in Path : file'[q] = IF q = p THEN b ELSE file[q]
      BY <1>6 DEF EditInv, TypeOK
    <3> HIDE DEF appeared, paths
    <3> QED
      BY <1>3, <3>1, <3>2
  <2> QED
    BY <1>1, <1>2, <2>1, <2>2 DEF Edit!Others
<1>7. ASSUME touched'[r] = touched[r], NEW c \in ChangesOf(r), NEW b \in Bytes,
             file' = [file EXCEPT ![c.path] = b]
      PROVE  Edit(r)!Others \/ UNCHANGED Edit(r)!edit
  <2>1. c.path \in Path /\ c.path \in paths
    BY ChangeFacts DEF ChangesOf, EditInv
  <2>2. CASE c.path \in Contested(r)
    BY <1>6, <1>7, <2>1, <2>2
  <2>3. CASE c.path \notin Contested(r)
    <3>1. c.path \in Hidden(r) /\ Contested(r)' = Contested(r) /\ Hidden(r)' = Hidden(r)
      BY <1>4, <1>7, <2>1, <2>3
    <3>2. \A q \in Path \ Hidden(r) : file'[q] = file[q]
      BY <1>7, <3>1 DEF EditInv, TypeOK
    <3>3. WorktreeOf(r)' = WorktreeOf(r)
      <4> HIDE DEF appeared, paths
      <4> QED
        BY <1>3, <3>1, <3>2
    <3> QED
      BY <1>1, <1>2, <3>1, <3>3 DEF Edit!edit
  <2> QED
    BY <2>2, <2>3
<1> QED
  BY <1>5, <1>6, <1>7

\* An edit that is not pending, and a step that keeps its status and writes at
\* most one file.
LEMMA RestingStep ==
  ASSUME EditInv, EditInv', NEW r \in Request, ~Pending(r), ~Pending(r)',
         StatusOf(r)' = StatusOf(r),
         file' = file \/ \E p \in Path, b \in Bytes : file' = [file EXCEPT ![p] = b]
  PROVE  Edit(r)!Others \/ UNCHANGED Edit(r)!edit
<1>1. StatusOf(r) # "pending"
  BY ShownFacts DEF Shown, StatusShown
<1>2. PlanOf(r)' = PlanOf(r)
  BY DEF PlanOf
<1>3. WorktreeOf(r) = file /\ WorktreeOf(r)' = file'
  BY ShownFacts DEF Shown, WorktreeShown
<1> QED
  BY <1>1, <1>2, <1>3 DEF Edit!Others, Edit!edit

\* The commit, and its edit, begin.
LEMMA StageBegins ==
  ASSUME EditInv, EditInv', NEW r \in Request, Stage(r)
  PROVE  Edit(r)!Begin
<1>1. /\ alive /\ alive' /\ pc[r] = "prepared" /\ pc'[r] \in {"backup", "rollback"}
      /\ start'[r] = file /\ touched'[r] = {} /\ UNCHANGED <<file, changes>>
  BY DEF Stage, EditInv, TypeOK
<1>2. ~Pending(r) /\ Pending(r)'
  BY <1>1 DEF Pending, Underway
<1>3. StatusOf(r) = "none" /\ StatusOf(r)' = "pending"
  BY <1>1, <1>2, ShownFacts DEF Shown, StatusShown
<1>4. WorktreeOf(r) = file /\ WorktreeOf(r)' = file
  <2>1. WorktreeOf(r)' = [p \in Path |-> IF p \in Hidden(r)' THEN start'[r][p] ELSE file'[p]]
    BY <1>2, ShownFacts DEF Shown, WorktreeShown
  <2>2. WorktreeOf(r)' = [p \in Path |-> file[p]]
    BY <1>1, <2>1
  <2> QED
    BY <1>2, <2>2, ShownFacts DEF Shown, StatusShown, WorktreeShown, PlanShown, EditInv, TypeOK
<1>5. /\ DOMAIN PlanOf(r)' = {c.path : c \in ChangesOf(r)}
      /\ PlanOf(r)' \in Edit(r)!Plans
  <2>1. /\ DOMAIN PlanOf(r)' = {c.path : c \in ChangesOf(r)'}
        /\ PlanOf(r)' \in [{c.path : c \in ChangesOf(r)'} -> Bytes]
        /\ {c.path : c \in ChangesOf(r)'} \subseteq Path
    BY <1>2, ShownFacts DEF Shown, PlanShown
  <2>2. ChangesOf(r)' = ChangesOf(r)
    BY <1>1 DEF ChangesOf
  <2> QED
    BY <2>1, <2>2 DEF Edit!Plans
<1> DEFINE new == {c.path : c \in {d \in ChangesOf(r) : d.before = Absent}}
<1>6. new \in SUBSET DOMAIN PlanOf(r)'
  BY <1>5
<1>7. Contested(r)' = {p \in new : file[p] # Absent}
  BY <1>1 DEF Contested, Appeared, ChangesOf
<1> HIDE DEF new
<1> QED
  BY <1>2, <1>3, <1>4, <1>5, <1>6, <1>7 DEF Edit!Begin

\* All changes are installed: they take effect at once.
LEMMA InstalledApplies ==
  ASSUME EditInv, EditInv', NEW r \in Request, Installed(r)
  PROVE  Edit(r)!Apply
<1>1. /\ alive /\ alive' /\ pc[r] = "backup" /\ pc'[r] = "cleanup"
      /\ committed[r] = Len(changes[r]) /\ file' = file
  BY DEF Installed, AllInstalled, EditInv, TypeOK, transaction
<1>2. Pending(r) /\ ~Pending(r)'
  BY <1>1 DEF Pending, Underway
<1>3. StatusOf(r) = "pending" /\ StatusOf(r)' = "applied"
  BY <1>1, <1>2, ShownFacts DEF Shown, StatusShown
<1>4. WorktreeOf(r)' = file
  BY <1>1, <1>2, ShownFacts DEF Shown, WorktreeShown
<1>5. ASSUME NEW p \in Hidden(r) PROVE PlanOf(r)[p] = file[p]
  <2>1. PICK i \in DOMAIN changes[r] : p = changes[r][i].path /\ Promised(r, changes[r][i])
    BY HiddenFacts
  <2>2. i <= committed[r] /\ i \in Nat /\ committed[r] \in Nat
    BY <1>1, ChangeFacts DEF EditInv, TypeOK
  <2>3. InHand(r, changes[r][i], i)
    BY <1>1, <2>1, <2>2 DEF EditInv, RequestInv, Progress, Underway
  <2>4. file[p] = changes[r][i].after
    BY <1>1, <2>1, <2>3 DEF InHand
  <2> QED
    BY <1>2, <2>1, <2>4, ShownFacts DEF Shown, StatusShown, WorktreeShown, PlanShown
<1>6. DOMAIN PlanOf(r) \ Contested(r) = Hidden(r)
  BY <1>2, ShownFacts DEF Shown, PlanShown, Hidden
<1>7. WorktreeOf(r) = [p \in Path |-> IF p \in Hidden(r) THEN start[r][p] ELSE file[p]]
  BY <1>2, ShownFacts DEF Shown, WorktreeShown
<1>8. file = [p \in Path |-> IF p \in Hidden(r) THEN PlanOf(r)[p] ELSE WorktreeOf(r)[p]]
  BY <1>5, <1>7 DEF EditInv, TypeOK
<1>9. PlanOf(r)' = Edit(r)!NoPlan
  BY <1>2 DEF PlanOf, Edit!NoPlan
<1> QED
  BY <1>2, <1>3, <1>4, <1>6, <1>8, <1>9 DEF Edit!Apply, Edit!Targets, Edit!Close

\* A pending edit that ends otherwise: each target is old, new or missing, and
\* is old if the rollback was complete.
LEMMA EndFacts ==
  ASSUME EditInv, EditInv', NEW r \in Request, Pending(r), ~Pending(r)', file' = file
  PROVE  /\ WorktreeOf(r)' = file /\ PlanOf(r)' = Edit(r)!NoPlan
         /\ pc[r] = "discard" /\ ~broken[r] => WorktreeOf(r) = file
         /\ \A p \in Path : file[p] \in {WorktreeOf(r)[p]} \cup
              (IF p \in DOMAIN PlanOf(r) \ Contested(r) THEN {PlanOf(r)[p], Absent} ELSE {})
<1>1. WorktreeOf(r)' = file /\ PlanOf(r)' = Edit(r)!NoPlan
  BY ShownFacts DEF Shown, WorktreeShown, PlanShown, PlanOf, Edit!NoPlan
<1>2. WorktreeOf(r) = [p \in Path |-> IF p \in Hidden(r) THEN start[r][p] ELSE file[p]]
  BY ShownFacts DEF Shown, WorktreeShown
<1>3. DOMAIN PlanOf(r) \ Contested(r) = Hidden(r)
  BY ShownFacts DEF Shown, PlanShown, Hidden
<1>4. ASSUME NEW p \in Hidden(r)
      PROVE  /\ file[p] \in {start[r][p], PlanOf(r)[p], Absent}
             /\ pc[r] = "discard" /\ ~broken[r] => file[p] = start[r][p]
  <2>1. PICK i \in DOMAIN changes[r] : p = changes[r][i].path /\ Promised(r, changes[r][i])
    BY HiddenFacts
  <2>2. IF i > committed[r] THEN AsBefore(r, changes[r][i]) ELSE InHand(r, changes[r][i], i)
    BY <2>1 DEF EditInv, RequestInv, Progress, Pending
  <2>3. PlanOf(r)[p] = changes[r][i].after
    BY <2>1, ShownFacts DEF Shown, PlanShown
  <2>4. pc[r] = "discard" => i > committed[r]
    BY ChangeFacts DEF EditInv, RequestInv, Fresh
  <2> QED
    BY <2>1, <2>2, <2>3, <2>4 DEF AsBefore, InHand
<1>5. pc[r] = "discard" /\ ~broken[r] => WorktreeOf(r) = file
  BY <1>2, <1>4 DEF EditInv, TypeOK
<1> QED
  BY <1>1, <1>2, <1>3, <1>4, <1>5

\* The answer is that of the edit.
LEMMA CleanupAnswers ==
  ASSUME EditInv, EditInv', NEW r \in Request, Cleanup(r)
  PROVE  Edit(r)!Succeed \/ Edit(r)!Undo \/ Edit(r)!Break
<1>1. pc'[r] = "done" /\ ~Pending(r)' /\ file' = file /\ alive /\ outcome'[r] # "none"
  BY DEF Cleanup, EditInv, TypeOK, Pending, Underway
<1>2. CASE pc[r] = "cleanup"
  <2>1. ~Pending(r) /\ StatusOf(r) = "applied"
    BY <1>2, ShownFacts DEF Shown, StatusShown, Pending, Underway
  <2>2. outcome'[r] \in {"ok", "leftover"}
    BY <1>2 DEF Cleanup, EditInv, TypeOK
  <2>3. StatusOf(r)' = "done"
    BY <1>1, <2>2, ShownFacts DEF Shown, StatusShown
  <2>4. WorktreeOf(r)' = WorktreeOf(r) /\ PlanOf(r)' = PlanOf(r)
    BY <1>1, <2>1, ShownFacts DEF Shown, WorktreeShown, PlanShown, PlanOf
  <2> QED
    BY <1>1, <2>1, <2>3, <2>4 DEF Edit!Succeed
<1>3. CASE pc[r] = "discard"
  <2>1. Pending(r) /\ StatusOf(r) = "pending"
    BY <1>1, <1>3, ShownFacts DEF Shown, StatusShown, Pending, Underway
  <2>2. outcome'[r] = "incomplete" \/ (outcome'[r] = "error" /\ ~broken[r])
    BY <1>3 DEF Cleanup, EditInv, TypeOK
  <2>3. Edit(r)!Close
    BY <1>1, <2>1, EndFacts DEF Edit!Close
  <2>4. CASE outcome'[r] = "error" /\ ~broken[r]
    <3>1. StatusOf(r)' = "undone"
      BY <1>1, <2>4, ShownFacts DEF Shown, StatusShown
    <3>2. WorktreeOf(r)' = WorktreeOf(r)
      BY <1>1, <1>3, <2>1, <2>4, EndFacts
    <3> QED
      BY <2>1, <2>3, <3>1, <3>2 DEF Edit!Undo
  <2>5. CASE outcome'[r] = "incomplete"
    <3>1. StatusOf(r)' = "broken"
      BY <1>1, <2>5, ShownFacts DEF Shown, StatusShown
    <3>2. DOMAIN file = Path
      BY DEF EditInv, TypeOK
    <3> QED
      BY <1>1, <2>1, <2>3, <3>1, <3>2, EndFacts DEF Edit!Break, Edit!Targets
  <2> QED
    BY <2>2, <2>4, <2>5
<1> QED
  BY <1>2, <1>3 DEF Cleanup
\* A step of a commit writes at most one file, the target of one of its
\* changes.
LEMMA CommitWrites ==
  ASSUME EditInv, NEW r \in Request, CommitStep(r)
  PROVE  /\ alive /\ alive'
         /\ \/ file' = file
            \/ \E c \in ChangesOf(r) : \E b \in Bytes : file' = [file EXCEPT ![c.path] = b]
<1>1. alive /\ alive'
  BY DEF CommitStep, Installed, TakeBackup, BackupFails, Install, InstallFails, Undo, Undone,
         Cleanup
<1>2. ASSUME NEW c, NEW b \in Bytes, file' = file \/ file' = [file EXCEPT ![c.path] = b],
             c \in ChangesOf(r)
      PROVE  \/ file' = file
             \/ \E d \in ChangesOf(r) : \E v \in Bytes : file' = [file EXCEPT ![d.path] = v]
  BY <1>2
<1>3. ASSUME NEW n \in DOMAIN changes[r]
      PROVE  changes[r][n] \in ChangesOf(r) /\ changes[r][n].path \in Path
             /\ changes[r][n].after \in Bytes /\ Absent \in Bytes
  BY ChangeFacts DEF ChangesOf, EditInv, Bytes
<1>4. CASE TakeBackup(r)
  <2>1. committed[r] + 1 \in DOMAIN changes[r]
    BY <1>4, ChangeAt DEF TakeBackup, AllInstalled, EditInv, TypeOK
  <2>2. file' = file \/ file' = [file EXCEPT ![Upcoming(r).path] = Absent]
    BY <1>4 DEF TakeBackup
  <2> QED
    BY <1>1, <1>2, <1>3, <2>1, <2>2 DEF Upcoming
<1>5. CASE Install(r)
  <2>1. committed[r] \in DOMAIN changes[r]
    BY <1>5, ChangeAt DEF Install, EditInv, TypeOK, RequestInv, Fresh
  <2>2. file' = file \/ file' = [file EXCEPT ![Latest(r).path] = Latest(r).after]
    BY <1>5 DEF Install, EditInv, TypeOK
  <2> QED
    BY <1>1, <1>2, <1>3, <2>1, <2>2 DEF Latest
<1>6. CASE Undo(r)
  <2>1. committed[r] \in DOMAIN changes[r]
    BY <1>6, ChangeAt DEF Undo, EditInv, TypeOK
  <2>2. Latest(r).path \in Path /\ Absent \in Bytes /\ Latest(r) \in ChangesOf(r)
    BY <1>3, <2>1 DEF Latest
  <2>3. \E b \in Bytes : file' = file \/ file' = [file EXCEPT ![Latest(r).path] = b]
    BY <1>6, <2>2 DEF Undo, EditInv, TypeOK
  <2> QED
    BY <1>1, <1>2, <2>2, <2>3
<1>7. CASE Installed(r) \/ BackupFails(r) \/ InstallFails(r) \/ Undone(r) \/ Cleanup(r)
  BY <1>1, <1>7 DEF Installed, BackupFails, InstallFails, Undone, Cleanup, transaction
<1> QED
  BY <1>4, <1>5, <1>6, <1>7 DEF CommitStep

\* Every step is a step of the edit of each request, or none of it.
LEMMA EditRefined ==
  ASSUME EditInv, EditInv', [Next]_vars
  PROVE  EditStep
<1> SUFFICES ASSUME NEW r \in Request
             PROVE  Edit(r)!Next \/ UNCHANGED Edit(r)!edit
  BY DEF EditStep
<1>1. CASE Prepare(r)
  <2>1. ~Pending(r) /\ ~Pending(r)' /\ file' = file
    BY <1>1 DEF Prepare, Pending, Underway, EditInv, TypeOK
  <2>2. StatusOf(r) = "none" /\ StatusOf(r)' = "none"
    BY <1>1, ShownFacts DEF Shown, StatusShown, Prepare, EditInv, TypeOK
  <2> QED
    BY <2>1, <2>2, RestingStep DEF Edit!Next
<1>2. CASE EndUnwritten(r)
  <2>1. ~Pending(r) /\ ~Pending(r)' /\ file' = file
    BY <1>2 DEF EndUnwritten, Pending, Underway, EditInv, TypeOK
  <2>2. StatusOf(r) = "none" /\ StatusOf(r)' = "undone"
    BY <1>2, ShownFacts DEF Shown, StatusShown, EndUnwritten, EditInv, TypeOK
  <2>3. WorktreeOf(r)' = WorktreeOf(r) /\ PlanOf(r)' = PlanOf(r)
    BY <2>1, ShownFacts DEF Shown, WorktreeShown, PlanShown, PlanOf
  <2> QED
    BY <2>1, <2>2, <2>3 DEF Edit!Refuse, Edit!Next
<1>3. CASE Stage(r) \/ Installed(r) \/ Cleanup(r)
  BY <1>3, StageBegins, InstalledApplies, CleanupAnswers DEF Edit!Next
<1>4. CASE TakeBackup(r) \/ BackupFails(r) \/ Install(r) \/ InstallFails(r) \/ Undo(r)
           \/ Undone(r)
  <2>1. Pending(r) /\ Pending(r)'
    BY <1>4 DEF TakeBackup, BackupFails, Install, InstallFails, Undo, Undone, Pending, Underway,
                EditInv, TypeOK
  <2>2. changes'[r] = changes[r] /\ start'[r] = start[r] /\ touched'[r] = touched[r]
    BY <1>4 DEF TakeBackup, BackupFails, Install, InstallFails, Undo, Undone, transaction
  <2>3. \/ file' = file
        \/ \E c \in ChangesOf(r) : \E b \in Bytes : file' = [file EXCEPT ![c.path] = b]
    BY <1>4, CommitWrites DEF CommitStep
  <2> QED
    BY <2>1, <2>2, <2>3, PendingStep DEF Edit!Next
<1>5. ASSUME NEW q \in Request \ {r},
             Prepare(q) \/ EndUnwritten(q) \/ Stage(q) \/ CommitStep(q)
      PROVE  Edit(r)!Next \/ UNCHANGED Edit(r)!edit
  <2>1. Kept(r) /\ (file' = file \/ ~Committing(r))
    BY <1>5, OthersKept
  <2>2. alive /\ alive'
    BY <1>5, CommitWrites DEF Prepare, EndUnwritten, Stage
  <2>3. (Pending(r)' <=> Pending(r)) /\ StatusOf(r)' = StatusOf(r)
    BY <2>1, <2>2 DEF Kept, Pending, Underway, StatusOf
  <2>4. CASE Pending(r)
    <3>1. file' = file
      BY <2>1, <2>4 DEF Pending, Underway, Committing, Forward, Undoing
    <3> QED
      BY <2>1, <2>3, <2>4, <3>1, PendingStep DEF Kept, Edit!Next
  <2>5. CASE ~Pending(r)
    <3>1. file' = file \/ \E p \in Path, b \in Bytes : file' = [file EXCEPT ![p] = b]
      <4>1. \A c \in ChangesOf(q) : c.path \in Path
        BY ChangeFacts DEF ChangesOf, EditInv
      <4>2. CASE CommitStep(q)
        BY <4>1, <4>2, CommitWrites
      <4>3. CASE Prepare(q) \/ EndUnwritten(q) \/ Stage(q)
        BY <4>3 DEF Prepare, EndUnwritten, Stage
      <4> QED
        BY <1>5, <4>2, <4>3
    <3> QED
      BY <2>3, <2>5, <3>1, RestingStep DEF Edit!Next
  <2> QED
    BY <2>4, <2>5
<1>6. ASSUME NEW p \in Path, NEW b \in Bytes, CommandWrites(p, b)
      PROVE  Edit(r)!Next \/ UNCHANGED Edit(r)!edit
  <2>1. /\ UNCHANGED <<alive, pc, outcome>> /\ changes' = changes /\ start' = start
        /\ file' = [file EXCEPT ![p] = b]
    BY <1>6 DEF CommandWrites, transaction
  <2>2. (Pending(r)' <=> Pending(r)) /\ StatusOf(r)' = StatusOf(r)
    BY <2>1 DEF Pending, Underway, StatusOf
  <2>3. Pending(r) => touched'[r] = touched[r] \cup {p}
    BY <1>6 DEF CommandWrites, Pending, Underway, Committing, Forward, Undoing
  <2> QED
    BY <2>1, <2>2, <2>3, PendingStep, RestingStep DEF Edit!Next
<1>7. CASE Crash
  <2>1. alive /\ ~alive' /\ UNCHANGED <<file, pc, outcome>>
    BY <1>7 DEF Crash
  <2>2. ~Pending(r)'
    BY <2>1 DEF Pending
  <2>3. CASE Pending(r)
    <3>1. StatusOf(r) = "pending" /\ StatusOf(r)' = "broken"
      BY <2>1, <2>3, ShownFacts DEF Shown, StatusShown, Pending, Underway
    <3>2. DOMAIN file = Path
      BY DEF EditInv, TypeOK
    <3> QED
      BY <2>1, <2>2, <2>3, <3>1, <3>2, EndFacts
         DEF Edit!Break, Edit!Targets, Edit!Close, Edit!Next
  <2>4. CASE ~Pending(r)
    <3>1. StatusOf(r)' = StatusOf(r)
      BY <2>1, <2>4 DEF StatusOf, Pending, Underway
    <3> QED
      BY <2>1, <2>2, <2>4, <3>1, RestingStep DEF Edit!Next
  <2> QED
    BY <2>3, <2>4
<1>8. CASE UNCHANGED vars
  BY <1>8 DEF vars, transaction, Edit!edit, WorktreeOf, StatusOf, PlanOf, Pending, Underway,
              Targeted, Contested, Untouched, ChangesOf, Appeared
<1> QED
  BY <1>1, <1>2, <1>3, <1>4, <1>5, <1>6, <1>7, <1>8 DEF Next, CommitStep

\* Each request is an edit that takes effect as a whole or, when the caller
\* gets an error, not at all, whatever fails, crashes or interferes.
THEOREM AtomicEditImplemented == Spec => ImplementsAtomicEdit
<1>1. Init => \A r \in Request : Edit(r)!Init
  <2> SUFFICES ASSUME Init, NEW r \in Request PROVE Edit(r)!Init
    OBVIOUS
  <2>1. EditInv
    BY EditInit
  <2>2. ~Pending(r) /\ pc[r] = "idle" /\ file \in [Path -> Bytes]
    BY DEF Init, Pending, Underway
  <2> QED
    BY <2>1, <2>2, ShownFacts
       DEF Shown, WorktreeShown, PlanShown, StatusShown, Edit!Init
<1>2. EditInv /\ EditInv' /\ [Next]_vars => [EditStep]_vars
  BY EditRefined
<1> QED
  BY <1>1, <1>2, EditInductive, PTL DEF Spec, ImplementsAtomicEdit
=============================================================================
