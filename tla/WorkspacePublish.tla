-------------------------- MODULE WorkspacePublish --------------------------
(***************************************************************************)
(* commit_and_push (services/workspaces.py): how the edits of a workspace  *)
(* become a commit of its branch at the origin.  Every git command is      *)
(* awaited, and the workspace is not locked, so between any two of them    *)
(* the commands of the workspace edit, stage or commit, other requests     *)
(* run, and other clones push to the branch.                               *)
(***************************************************************************)
EXTENDS Naturals, FiniteSets, Sequences

CONSTANTS Path, Content, Key,
          Nothing,               \* no stored response
          Slot,                  \* requests that may run at the same time
          Selection,             \* what requests may select: sets of paths
          Denied,                \* paths that the policy forbids to write
          MaxCommits, MaxCalls   \* bounds of the model

ASSUME PublishAssumption == /\ IsFiniteSet(Path) /\ IsFiniteSet(Slot)
                            /\ Denied \subseteq Path /\ Selection \subseteq SUBSET Path
                            /\ MaxCommits \in Nat /\ MaxCalls \in Nat

VARIABLES
  commits,     \* every commit there is, in order of creation
  remote,      \* the branch at the origin
  head,        \* HEAD of the workspace, on the branch
  index, work, \* the index and the worktree
  req,         \* what the coroutine of each request knows
  saved,       \* the stored responses, by idempotency key
  late,        \* pushes given up by the gateway that may still land
  calls,       \* requests so far
  published    \* history: the pushes that landed, with the request of each

repo == <<commits, head, index, work>>
vars == <<repo, remote, req, saved, late, calls, published>>

Tree == [Path -> Content]
Id == 1..MaxCommits
Ask == [key: Key, expected: Id, paths: Selection, dry: BOOLEAN]
Idle == [pc |-> "idle"]

(***************************************************************************)
(* Commits.                                                                *)
(***************************************************************************)
TreeOf(c) == commits[c].tree

\* the id of a commit stands for its hash, which determines its whole history
History(c) == commits[c].past
IsAncestor(c, d) == c \in History(d)
Diff(s, t) == {p \in Path : s[p] # t[p]}

\* git status: what differs between HEAD and the index, or from the worktree
Changed == Diff(TreeOf(head), index) \cup Diff(index, work)
Staged == Diff(TreeOf(head), index)
Valid(files) == files \cap Denied = {}

\* by whom a commit was made; for a request, with what it asked for
Commands == [who |-> "command"]
Others == [who |-> "other"]
Request(r) == [who |-> "request", ask |-> req[r].ask, alone |-> req[r].alone]

Committed(parent, tree, by) ==
  commits' = Append(commits, [past |-> History(parent) \cup {Len(commits) + 1},
                              tree |-> tree, by |-> by])

\* the workspace was prepared at the second commit of the branch
Init ==
  /\ \E t \in Tree : commits = << [past |-> {1}, tree |-> t, by |-> Others],
                                   [past |-> {1, 2}, tree |-> t, by |-> Others] >>
  /\ remote = 2 /\ head = 2
  /\ index = commits[2].tree /\ work = commits[2].tree
  /\ req = [r \in Slot |-> Idle]
  /\ saved = [k \in Key |-> Nothing]
  /\ late = {} /\ calls = 0 /\ published = {}

(***************************************************************************)
(* One request.                                                            *)
(***************************************************************************)
At(r, pc) == req[r].pc = pc
Goes(r, next) == req' = [req EXCEPT ![r] = next]
Ends(r) == Goes(r, Idle)
Active == {r \in Slot : req[r] # Idle}

\* whoever was running is not alone with the repository any more
NotAlone(new) ==
  [r \in Slot |-> IF req[r] = Idle THEN new[r] ELSE [req[r] EXCEPT !.alone = FALSE]]

\* save_idempotent_response: a second save keeps the payload of the first
Saves(ask, response) ==
  saved' = [saved EXCEPT ![ask.key] =
              IF @ = Nothing THEN [ask |-> ask, response |-> response]
                             ELSE [@ EXCEPT !.response = response]]

\* a stored key is answered from the store, or refused, without any effect; a
\* client can expect any commit that there is
Arrive(r) ==
  /\ req[r] = Idle /\ calls < MaxCalls
  /\ \E ask \in Ask :
       /\ saved[ask.key] = Nothing /\ ask.expected <= Len(commits)
       /\ req' = NotAlone([s \in Slot |->
                    IF s = r THEN [pc |-> "fetch", ask |-> ask, alone |-> Active = {}]
                             ELSE Idle])
  /\ calls' = calls + 1
  /\ UNCHANGED <<repo, remote, saved, late, published>>

\* what a request that looks at the workspace remembers
Reading(r, pc, base, old) ==
  [pc |-> pc, ask |-> req[r].ask, alone |-> req[r].alone, base |-> base, old |-> old]

HeadIgnored(r) == FALSE
HeadMoved(r) == remote # req[r].ask.expected

\* the fetch and the reading of origin/<branch>: later fetches only make it newer
Fetch(r) ==
  /\ At(r, "fetch")
  /\ IF HeadMoved(r) THEN Ends(r)
     ELSE Goes(r, Reading(r, "head", remote, 0))
  /\ UNCHANGED <<repo, remote, saved, late, calls, published>>

ReadHead(r) ==
  /\ At(r, "head")
  /\ Goes(r, Reading(r, "status", req[r].base, head))
  /\ UNCHANGED <<repo, remote, saved, late, calls, published>>

\* what a request that is about to push remembers; restaged is history: the paths
\* that commands have staged since the files were determined
Pushing(r, pc, files, new) ==
  [pc |-> pc, ask |-> req[r].ask, alone |-> req[r].alone, files |-> files, new |-> new,
   restaged |-> {}]

\* an earlier request committed and could not push: publish that commit
Leftover(r) ==
  LET base == req[r].base  old == req[r].old  files == Diff(TreeOf(base), TreeOf(old))
  IN IF ~IsAncestor(base, old) \/ ~Valid(files) THEN Ends(r) /\ UNCHANGED saved
     ELSE IF req[r].ask.dry THEN Ends(r) /\ Saves(req[r].ask, old)
     ELSE Goes(r, Pushing(r, "push", files, old)) /\ UNCHANGED saved

\* uncommitted changes are committed only on top of the expected head
MayAlwaysCommit(r) == TRUE
MayCommit(r) == req[r].old = req[r].base

ReadStatus(r) ==
  /\ At(r, "status")
  /\ \/ /\ Changed = {} /\ req[r].old # req[r].base
        /\ Leftover(r)
     \/ /\ Changed = {} /\ req[r].old = req[r].base
        /\ Ends(r) /\ UNCHANGED saved
     \/ /\ Changed # {} /\ MayCommit(r) /\ Valid(Changed)
        /\ Goes(r, [req[r] EXCEPT !.pc = "add"]) /\ UNCHANGED saved
     \/ /\ Changed # {} /\ ~(MayCommit(r) /\ Valid(Changed))
        /\ Ends(r) /\ UNCHANGED saved
  /\ UNCHANGED <<repo, remote, late, calls, published>>

Add(r) ==
  /\ At(r, "add")
  /\ index' = [p \in Path |-> IF p \in req[r].ask.paths THEN work[p] ELSE index[p]]
  /\ Goes(r, [req[r] EXCEPT !.pc = "staged"])
  /\ UNCHANGED <<commits, head, work, remote, saved, late, calls, published>>

\* the files that the response will name
ReportedChanged == Changed
Reported == Staged

\* the policy is asked again: the worktree may have changed since the status
StagedValid == Valid(Staged)

AfterStaging(r) == IF req[r].ask.dry THEN "unstage" ELSE "commit"

ReadStaged(r) ==
  /\ At(r, "staged")
  /\ IF Staged = {} THEN Goes(r, [req[r] EXCEPT !.pc = "unstage"])
     ELSE IF ~StagedValid THEN Ends(r)
     ELSE Goes(r, Pushing(r, AfterStaging(r), Reported, 0))
  /\ UNCHANGED <<repo, remote, saved, late, calls, published>>

\* git reset --mixed, after nothing was staged or for a dry run
Unstage(r) ==
  /\ At(r, "unstage")
  /\ index' = TreeOf(head)
  /\ Ends(r)
  /\ IF "files" \in DOMAIN req[r] THEN Saves(req[r].ask, req[r].ask.expected) ELSE UNCHANGED saved
  /\ UNCHANGED <<commits, head, work, remote, late, calls, published>>

Commit(r) ==
  /\ At(r, "commit")
  /\ Staged # {} /\ Len(commits) < MaxCommits
  /\ Committed(head, index, Request(r))
  /\ head' = Len(commits')
  /\ Goes(r, [req[r] EXCEPT !.pc = "newhead"])
  /\ UNCHANGED <<index, work, remote, saved, late, calls, published>>

ReadNewHead(r) ==
  /\ At(r, "newhead")
  /\ Goes(r, [req[r] EXCEPT !.pc = "push", !.new = head])
  /\ UNCHANGED <<repo, remote, saved, late, calls, published>>

\* what a push of HEAD without --force sends: a commit, for a request
Sent(r) == [commit |-> req[r].new, tip |-> head, ask |-> req[r].ask,
            files |-> req[r].files, alone |-> req[r].alone, restaged |-> req[r].restaged]

\* the origin accepts nothing but descendants of the branch
AcceptsForced(push) == TRUE
Accepts(push) == IsAncestor(remote, push.tip)

Lands(push) ==
  /\ Accepts(push)
  /\ remote' = push.tip
  /\ published' = published \cup {push}

\* the metadata, the audit record and the response are saved without an await
Push(r) ==
  /\ At(r, "push")
  /\ Lands(Sent(r))
  /\ Saves(req[r].ask, req[r].new)
  /\ Ends(r)
  /\ UNCHANGED <<repo, late, calls>>

\* a failed, rejected or timed out command is an error; nothing is put back
GitFails(r) ==
  /\ req[r] # Idle
  /\ Ends(r)
  /\ late' = IF At(r, "push") THEN late \cup {Sent(r)} ELSE late
  /\ UNCHANGED <<repo, remote, saved, calls, published>>

(***************************************************************************)
(* The environment.                                                        *)
(***************************************************************************)
\* the origin completes a push whose client was killed
LandsLate ==
  /\ \E push \in late : Lands(push) /\ late' = late \ {push}
  /\ UNCHANGED <<repo, req, saved, calls>>

\* another clone of the branch, perhaps another workspace, pushes; no request
\* builds on that commit, so its content does not matter
OtherPushes ==
  /\ Len(commits) < MaxCommits
  /\ Committed(remote, TreeOf(remote), Others)
  /\ remote' = Len(commits')
  /\ UNCHANGED <<head, index, work, req, saved, late, calls, published>>

CommandEdits ==
  /\ \E t \in Tree : t # work /\ work' = t
  /\ UNCHANGED <<commits, head, index, remote, req, saved, late, calls, published>>

\* git add, rm or restore --staged in a command
CommandStages ==
  /\ index' \in {t \in Tree : \A p \in Path : t[p] \in {index[p], work[p], TreeOf(head)[p]}}
  /\ index' # index
  /\ req' = [r \in Slot |->
               IF At(r, "commit") THEN [req[r] EXCEPT !.restaged = @ \cup Diff(index, index')]
               ELSE req[r]]
  /\ UNCHANGED <<commits, head, work, remote, saved, late, calls, published>>

\* git commit, or git commit -a, in a command
CommandCommits ==
  /\ Len(commits) < MaxCommits
  /\ \E tree \in {index, work} \ {TreeOf(head)} :
       Committed(head, tree, Commands) /\ index' = tree
  /\ head' = Len(commits')
  /\ req' = NotAlone(req)
  /\ UNCHANGED <<work, remote, saved, late, calls, published>>

\* the gateway dies; the store and the repository are on disk
Crash ==
  /\ Active # {}
  /\ late' = late \cup {Sent(r) : r \in {s \in Slot : At(s, "push")}}
  /\ req' = [r \in Slot |-> Idle]
  /\ UNCHANGED <<repo, remote, saved, calls, published>>

Next ==
  \/ \E r \in Slot : \/ Arrive(r) \/ Fetch(r) \/ ReadHead(r) \/ ReadStatus(r)
                     \/ Add(r) \/ ReadStaged(r) \/ Unstage(r) \/ Commit(r)
                     \/ ReadNewHead(r) \/ Push(r) \/ GitFails(r)
  \/ LandsLate \/ OtherPushes \/ CommandEdits \/ CommandStages \/ CommandCommits \/ Crash

Spec == Init /\ [][Next]_vars

(***************************************************************************)
(* What must hold.                                                         *)
(***************************************************************************)
Files == SUBSET Path
Step == {"fetch", "head", "status", "add", "staged", "unstage", "commit", "newhead", "push"}

\* Every variable keeps its type; a request knows what its step needs.
TypeOK ==
  /\ \A c \in 1..Len(commits) :
       /\ commits[c].tree \in Tree
       /\ commits[c].past \subseteq 1..c /\ c \in commits[c].past
       /\ commits[c].by.who \in {"request", "command", "other"}
  /\ {remote, head} \subseteq 1..Len(commits)
  /\ {index, work} \subseteq Tree
  /\ \A r \in Slot : req[r] # Idle =>
       /\ req[r].pc \in Step /\ req[r].ask \in Ask /\ req[r].alone \in BOOLEAN
       /\ At(r, "push") => req[r].new \in 1..Len(commits) /\ req[r].files \in Files
       /\ At(r, "commit") => req[r].files \in Files /\ ~req[r].ask.dry

\* The branch at the origin is never rewound or replaced: whatever was
\* published, by anyone, stays in its history (PLAN 8.3, no force push).
RemoteOnlyGrows == [][(remote \in History(remote)')]_remote

\* What a request publishes contains the head its client expected, and between
\* that head and the published tip there is no commit of anyone else: the
\* client has seen all that its commit builds upon.  What the response names
\* is in the history of the branch.
ExpectedHeadRespected ==
  \A p \in published :
    /\ IsAncestor(p.ask.expected, p.tip)
    /\ \A c \in History(p.tip) \ History(p.ask.expected) : commits[c].by # Others
    /\ IsAncestor(p.commit, remote)

\* When no other request or commit interferes, the files that the response
\* reports are those in which the branch changed, whatever the commands do to
\* the worktree meanwhile, whatever they stage before the staged files are read,
\* and whatever failed requests left in the index.  Only paths that a command
\* stages later, before the commit, may differ.
ReportIsTheDiff ==
  \A p \in published : p.alone =>
    /\ p.commit = p.tip
    /\ p.files \ p.restaged = Diff(TreeOf(p.ask.expected), TreeOf(p.commit)) \ p.restaged

\* Nor does such a request publish a change of a path the policy denies, in its
\* own commit or in one that a command or an earlier request made, with the same
\* exception.
DeniedNeverPublished ==
  \A p \in published : p.alone =>
    Diff(TreeOf(p.ask.expected), TreeOf(p.tip)) \cap Denied \subseteq p.restaged

\* A dry run publishes nothing, not even what an earlier request left behind.
DryRunsPublishNothing == \A p \in published : ~p.ask.dry

\* A client that works alone can rely on the response: what it names is all that
\* was published, and the policy allows it, but for what its own commands stage
\* between the check and the commit; and what was asked for as a dry run was not
\* published.
PublishedAsReported == ReportIsTheDiff /\ DeniedNeverPublished /\ DryRunsPublishNothing

\* For the same request with the same key the gateway makes one commit, however
\* often it is retried after timeouts, crashes and pushes that landed unnoticed.
RetryCommitsOnce ==
  \A c, d \in 1..Len(commits) :
    LET a == commits[c].by  b == commits[d].by
    IN a.who = "request" /\ b.who = "request" /\ a = b /\ a.alone => c = d

(***************************************************************************)
(* Stronger, and not so.                                                   *)
(***************************************************************************)
\* The staged files are checked (1094) and then committed (1113): what is in the
\* commit has been checked, and is what the response names.
StagedIsCommitted ==
  \A p \in published : p.alone =>
    LET diff == Diff(TreeOf(p.ask.expected), TreeOf(p.tip))
    IN p.files = diff /\ diff \cap Denied = {}
=============================================================================
