# A verification of the GitHub GPT Actions gateway

The gateway is a single-process FastAPI service for Windows. It prepares git
workspaces on disk for a remote client, runs PowerShell commands in them in the
background, edits files, commits and pushes, and forwards pull-request and CI
calls to GitHub. This directory holds TLA+ models of the parts that are
hard to test, configurations for TLC, and proofs checked by TLAPS.
`PROJECT.json` maps every definition to the source lines it stands for, and
lists runs, mutants, findings, hazards and theorems.

Check everything from this directory:

    tlc -workers 2 -config RegistryRequests.cfg MCOperationRegistry
    tlapm OperationRegistryProofs.tla

The module that each configuration belongs to is in the table of runs below; the
modules to be proved are those whose names end in `Proofs`.

## 1. The system

| Component | State it keeps | Operations | Talks to |
|---|---|---|---|
| Command operations (`app/workspace/operations.py`) | `_records`, `_idempotency`, `_runtimes` in memory; `op_*/state.json`, logs on disk; per operation an asyncio task, two readers, a lock, cancel and shutdown events | `start`, `cancel`, `get`, `list`, `logs`, `shutdown`, recovery, prune | worker threads (`asyncio.to_thread`), PowerShell, Job Objects; life cycle in `main.py` |
| Life cycle (`app/main.py`, `app/single_instance.py`) | named mutex of the machine | construct, acquire, recover, serve, shut down, release | the operations manager, GitHub client, store |
| Command process (`_run` and `WindowsJob`) | a process, its job, the ready file, late results of abandoned stages | create job, spawn, assign, publish ready file, watch, terminate | Windows |
| File edits (`app/workspace/text_ops.py`, `write_file`, `apply_patch`) | targets, backups in a transaction directory | prepare, stage, back up, install, roll back, clean up | git (for status), commands that edit the same files |
| Commit and push (`commit_and_push`) | git repository of the workspace, remote branch, stored responses | fetch, check, add, commit, push, answer | git, GitHub, the idempotency store |
| Preparation (`prepare`, `WorkspaceManager`, `BranchService`) | `ws_*` directories with `meta.json`, a lock per key, stored responses | create branch, prune, clone, publish metadata, answer | git, GitHub, active operations |
| Idempotency and audit store (`app/storage/audit.py`) | SQLite rows by (scope, key) | look up, save, record | all writing services |
| Output and logs (`_drain_stream`, `logs`) | log files, counters and truncation marks of a record | drain, store up to the limit, write progress, page | pipes of the command, the operation's lock |
| Artifact synchronisation (`sync_run_artifacts_to_workspace`) | downloaded archives and a manifest per run, in a workspace | list, compare, download, unpack, write manifest | GitHub, commands that delete files |
| CI and pull requests (`services/ci.py`, `services/pulls.py`) | none of their own | dispatch, rerun, delete cache, create pull request, read logs | GitHub, the store |
| Workspace reading (`read_files`, `search`, `inspect`, `status`, `diff`) | none | answers within byte budgets, pages of files | ripgrep, git, files |
| Policy, path checks, authentication, HTTP layer | settings, token cache | predicates, wiring | |

What is hard here, and what makes each component correct:

* **Operations.** asyncio tasks, readers and `shutdown` share a lock that is
  held across worker threads; a coroutine can be cancelled, its thread cannot.
  A request (workspace, key, payload) must run once across retries, crashes,
  restarts and failing writes; an operation must settle exactly once; nothing
  may stay running after a shutdown.
* **Command process.** Each start-up stage is awaited until the deadline only,
  and a late stage goes on by itself. No script may run outside its job or
  survive its operation.
* **File edits.** Several files are moved and replaced one by one; any step and
  any step of the rollback may fail, other writers interfere, the gateway may
  die between two steps. All or nothing, and no content may be lost.
* **Commit and push.** Every git command is awaited and the workspace is not
  locked. Nothing may be overwritten at the origin; what is published must be
  what was asked for, allowed and reported; a retry must not commit twice.
* **Preparation.** A key must name one workspace and one branch although
  preparations run at once, fail and are retried; pruning must spare what is
  used; half a clone must not pass for a workspace.
* **CI and pull requests.** Requests are not serialised, and GitHub gets no
  idempotency key. A run must not be started twice because an answer was lost;
  caches are listed, reviewed and then deleted one by one while others change
  them; a merge must not take commits that nobody reviewed; a stored response
  must not claim what did not happen.
* **Output.** Two readers share a limit and a lock. Whatever fails, they must go on
  emptying the pipes, since a command blocks on a full one; what is not
  stored must be marked as truncated; a client that follows the offsets must get the
  log as it is, and must not be told too early that it has all of it.
* **Artifacts.** The list is read in pages while artifacts are deleted and runs
  restarted; files of an earlier synchronisation are still there when the next one fails
  half way. A manifest, and an answer "nothing has changed", must be true.
* **Reading.** A page ends at a line limit, at the budget of the file, or at that of the
  response, which is applied last and cuts in four different ways. No line may be skipped
  or repeated, a retry with a larger budget must get on, losses must be flagged.
* **Patches.** Hunks have no line numbers: each is searched for behind the one
  before, then from the start of the file. No other line may change.

## 2. Modules

| Module | Models | Lines of code |
|---|---|---|
| `OperationRegistry` | the records of all command operations, over several gateway processes | `operations.py`, `main.py`, `single_instance.py` |
| `OperationLedger` | abstract specification: what one process promises about operations | |
| `RegistryRefinement` | the registry of each process implements the ledger | |
| `OperationRegistryProofs` | inductive invariants and theorems of `OperationRegistry`, within a process and across restarts; the refinement of the ledger | |
| `CommandProcess` | the process of one command, its job and its start-up stages | `operations.py` |
| `FileTransaction` | multi-file edits with backup and rollback | `text_ops.py`, `workspaces.py` |
| `AtomicEdit` | abstract specification: what one edit promises about the worktree | |
| `FileTransactionProofs` | inductive invariant, theorems, the refinement of `AtomicEdit` | |
| `OperationOutput` | the readers of one command, its logs and their pages | `operations.py` |
| `OperationOutputProofs` | inductive invariant and theorems of `OperationOutput` | |
| `ArtifactSync` | the synchronisation of one run's artifacts | `workspaces.py` |
| `ArtifactSyncProofs` | inductive invariant and theorems of `ArtifactSync` | |
| `WorkspaceReading` | `read_files`, `search`, `inspect` and a client that reads on | `workspaces.py`, `models/workspaces.py` |
| `WorkspacePublish` | `commit_and_push` in one workspace | `workspaces.py`, `manager.py`, `audit.py` |
| `WorkspacePublishProofs` | inductive invariant and theorems of `WorkspacePublish` | |
| `WorkspacePrepare` | `prepare`, branch creation and prune | `workspaces.py`, `manager.py`, `branches.py` |
| `WorkspacePrepareProofs` | inductive invariant and theorems of `WorkspacePrepare` | |
| `GitHubCalls` | workflow starts, cache deletion and merges at GitHub | `ci.py`, `pulls.py`, `client.py`, `audit.py` |
| `GitHubCallsProofs` | inductive invariant and theorems of `GitHubCalls` | |
| `PatchText` | what a patch makes of a file: operations, hunks, line endings | `text_ops.py` |
| `PatchTextProofs` | inductive invariant and theorems of `PatchText` | |
| `MC...` | symmetry and constants for TLC | |

### OperationRegistry

A *gateway* is one process that goes through the phases `off`, `loaded`
(`create_app` has read the records), `serving`, `stopping`, `forcing`,
`released`, `closing`, `exited`. `records[g]` and `index[g]` are its memory,
`disk` is what the next process reads. Nothing keeps a process from being created while
another one serves, and a state file that cannot be opened or parsed is passed over:
`Load` reads any subset of the files there are. Two history variables say what a
process cannot help: `blind[g]`, the operations whose file it passed over, or that others
started after it had read the files, and `clashing[g]`, the requests of which it
read several operations. `pc[o]` is where the task of operation
`o` stands in `_run`: start-up, the wait for an event (`watch`), the draining of
the readers (`settle`), waiting to record (`finish`, or `handler` for the
exception handlers), the thread that writes the terminal record (`commit`), the
finally clause (`ending`).

`writes[o]` is the set of threads writing the state file of `o`. A thread is
started by a reader (progress), by the task, or by `shutdown`, and holds the
operation's lock through the coroutine that awaits it. When that coroutine is
cancelled the lock is free again while the thread goes on: it becomes an
`orphan` (`Abandon`). `LockFree` is therefore "no thread but orphans".

`StartReplays`, `StartFails` and `StartAccepted` are the outcomes of `start`,
each with the prune that `start` begins with. `Watch` takes any non-empty set of
events that have happened and judges them in the code's order. `ForceVisit`,
`ForceAcquire`, `Land` and `ForceDone` are the loop of `shutdown` over
the runtimes that are left after its timeout. `Exit` and `Crash` end a process,
and with it its coroutines and threads.

`OperationLedger` is the abstract view: an operation answers one request, is
settled once, may then be retired, and only then is the request free again.
`RegistryRefinement` shows of each process what its clients see; the requests in
`clashing[g]` stay out of its ledger, since the index can name only one of their operations.

### CommandProcess

The four awaited stages (create the job, spawn PowerShell behind its gate,
assign it to the job, publish the ready file) each end, fail, time out or are
cancelled. An abandoned stage leaves a `late...` flag: its thread or creation
still ends some time, and the callback that the code has attached runs.
`TreeKill` is `_terminate_process_tree`, and `JobKill` the kill-on-close job.
The events of the wait, the handlers, the finally clause, the forced finish of a
shutdown and the death of the gateway follow. Removing the ready file may fail at any time,
and the rest of the finally clause is skipped then. It is assumed that a kill takes
effect and that, if `taskkill` cannot be started, there is none (section 4).

### FileTransaction

A request reads its targets (`Prepare`), awaits git, and then commits: per
target one step that moves the old file into the backup, and one that moves the
staged file into place. Every step may fail, which starts the rollback (`Undo`,
in reverse order, each step of which may fail too) and the removal of the
transaction directory (`Cleanup`). The commit has no await, so at most one
request commits at a time (`Idle`), while commands of the workspace write
between any two of its file operations.

`AtomicEdit` is the abstract view of one request: its targets change all at once
(`Apply`) or not at all (`Undo`), and only a failed rollback or a crash may leave
some old, some new and some missing (`Break`). The mapping (`WorktreeOf`) shows of a
pending edit the worktree it began with, and of a file that others wrote meanwhile
(`contested`) the file as it is. So `TakeBackup`, `Install` and the steps of the
rollback are invisible, and `Installed` is `Apply`.

### OperationOutput

The bytes of a stream are numbered, so that a log shows which of them it has. They make
units, characters of several bytes and escape sequences (`Continuing`, `Escaped`). The command
blocks while its pipe is full; a reader takes a chunk (`Read`), stores what
the shared limit leaves (`Store`, or `StoreFails` after some of it), perhaps holds
the lock while a thread writes progress (`saving`), and goes on. `Finish` comes
when the processes are gone: it cancels readers that are not done, whose
last chunk is lost. `Restart` is the death of the gateway and the recovery by
the next one, with an older copy of the record. `Poll` is a client that asks
for pages from where the last one ended; each page is decoded and stripped by itself
(`Decoded`), so a unit that the border of a page cuts (`Splits`) is not what it was:
a character becomes replacement characters, an escape sequence stays in the text.
`borders` records where pages began and ended. `Kill` stands for everything in
`CommandProcess` that ends the processes.

### ArtifactSync

An artifact is an id, since its content never changes. A request reads the run
(`ReadRun`) and the pages of its artifacts (`ReadPage`); with the last page and
without another await it decides (`Decide`): the manifest cannot be read, is current,
or the directory is removed and made anew. Then it downloads and unpacks one artifact
after the other (`Extract`), and with the last writes the manifest. `ExtractStops`,
the fourth case of `Decide` and `CallFails` are failures and deaths half way, which may
leave parts of a destination and a torn manifest. GitHub lists the newest artifact
first, which decides what a page misses when others are deleted (`Delete`) or
uploaded by a new attempt (`Rerun`, `Upload`) between two pages. `trusted`, `removed` and
`steady` are history that no action reads: whether the files come from one undisturbed
synchronisation, what commands deleted since, and whether the run went on without a new
attempt while the artifacts of the manifest were listed.

### WorkspaceReading

A line is its width in bytes. `ReadFile` makes a page; `Shrunk` is one round of the
loops that fit a response, and `Fitted` all of them, one step because nothing is
awaited. Sizes are relative: an envelope, a page, a match or an entry of the
tree takes a byte besides its text, a query of `inspect` a byte for each of its own, and in
JSON a newline takes two. What is empty and still too large is refused with 422 (`None`): a
query may be longer than the budget. The client
(`Send`) appends a page that starts where it has come to, and starts again when
`sha256` shows another version. Search results are whatever ripgrep may have found
before the files changed. `max_search_matches`, `max_tree_entries` and
`max_read_files` have one value; the walk of the tree, path checks and binary
files are left out.

### WorkspacePublish

Commits are numbers, each with a tree and its whole past: the hash of a commit
determines its history, so `IsAncestor` is membership. A client may expect any commit
there is, also one that somebody else pushed or that is no ancestor of the
workspace's HEAD. A request goes through `fetch`,
`head`, `status`, then either the commit of a failed predecessor (`Leftover`) or
`add`, `staged`, `commit`, `newhead`, `push`; every one of these is an await at
which other requests, `CommandEdits`, `CommandStages`, `CommandCommits` and `OtherPushes`
happen: of git the script policy forbids `push` and `remote set-url` only.
`GitFails` is any failing or timed-out git command; a push that was given
up may land later (`late`, `LandsLate`). Fetching and reading the remote-tracking
ref are one step, because a later fetch only makes that ref newer. After the push
the code saves metadata, audit record and response without an await, so these
are part of `Push`; a death in between is `GitFails` or `Crash` with a late push.
The history variable `published` holds each push that landed with its request,
`alone` says whether another request or a commit by a command overlapped it, and
`restaged` which paths commands have staged since the staged files were checked.
Commands that move HEAD backwards or switch branches are left out.

### WorkspacePrepare

A request waits for its key's lock (`Enter` also looks the key up), creates or
finds its branch (`Branch`), prunes and makes the directory in one step without
an await (`Make`), clones, and answers (`Finish`). A directory is `absent`,
`partial` (no `meta.json`), `damaged` (`meta.json` without all of the
repository) or `ready`. `Ages` lets time pass for any workspace except
one that is being cloned: the code relies on a time to live (48 hours by
default) longer than any preparation. A running operation may be older.
`FinishUnrecorded` is a failing audit store, or a death, after the metadata were
written and before the response is stored.

### GitHubCalls

A request looks its key up (`Lookup`), reads (`ReadToStart`, `ReadToDelete`,
`ReadToMerge`), and posts its changes one at a time: `Post` is the moment at which
GitHub decides, `Reply` the one at which the gateway continues. `Lost` is a
timeout or broken connection on either side of it: the change may have
happened, may still land (`late`, `Arrives`), or never. `Attempts` is the rule of
the HTTP client that only a GET is sent twice. `dispatch`, `rerun` of a run and
`rerun` of a job are one operation `start`; the caches are those that the key of
a request selects, of which `Reviewed` are those with the expected metadata; by
id, one cache is deleted without being listed. Dry run, `confirm` and expected metadata are
independent of each other, except that a dry run looks at neither; an empty `expected_ref`
is a case of its own. `Evict` and `OthersChangePull`
are the rest of the world. Caches that appear during a request, and creating,
updating and commenting pull requests are left out.

### PatchText

One file, since operations on different files do not meet. A file is a sequence of
lines with their ends, and `WellFormed` says which ones are a text; `LinesOf`,
`EndsWithNewline`, `KeepsCrlf` and `Joined` are the conversions between text
and lines. `Parse` accepts or refuses all operations against the file as it is,
`AddFile`, `DeleteFile` and `UpdateFile` carry them out in order, and an update
places one hunk in a step (`PlaceHunk`, `PlaceBehind`, `NotFound`). A hunk is
reduced to what it expects and what it puts there. The reference definition is
`Placements`, all ways to place the hunks in order and apart, with the
result `Patched`: the greedy search of the code finds the earliest placement
whenever there is one. Lone carriage returns are left out.

## 3. Runs

| Run | Module | Instance | Shows |
|---|---|---|---|
| RegistryRequests | MCOperationRegistry | 2 operations, 3 processes that may overlap, 2 requests with one key, unreadable state files | a request has one operation, and every serving process knows what was acknowledged, unless it could not know it; the index neither dangles nor forgets; nothing runs without a task or after a shutdown; the ledger is implemented |
| RegistryProgress | MCOperationRegistry | 1 operation, 2 overlapping processes, progress writes, write faults, fairness | every operation settles, every shutdown ends, memory settles once, and the file at rest says what memory says |
| CommandProcess | CommandProcess | one command (the model is finite) | script only under an open job, nothing running when reported so, deadline during every stage, no survivors, no open handle |
| FileTransaction | MCFileTransaction | 1 request, 2 paths, 3 contents | an edit implements the atomic one, originals always exist somewhere |
| OperationOutput | MCOperationOutput | 2 streams, up to 6 bytes, pipes of 2, limit 2, a character and an escape sequence of 2 bytes, fairness | what is missing in a log is marked, pages cover the log and garble only what they cut, the command is never blocked for ever |
| ArtifactSync | MCArtifactSync | 2 requests at once, 3 in all, 3 artifacts, pages of 1 | manifest and responses are true, a response names what the run had at one moment |
| WorkspaceReading | MCWorkspaceReading | 2 files of up to 2 lines, narrow or wide, 3 budgets, 1 edit, 3 requests, the first perhaps `inspect` | pages are the file, retries advance, losses are flagged |
| WorkspacePublish | MCWorkspacePublish | 2 requests at once, 2 paths, one of them denied and only touched by commands, 2 contents, 4 commits | no force, expected head respected, report and policy agree with what was published but for paths staged after the check, dry runs publish nothing, one commit per request |
| WorkspacePrepare | MCWorkspacePrepare | 3 workspaces, 2 keys, 2 requests at once, 3 in all | responses to a key agree, one branch, used workspaces are kept, metadata mean a whole clone |
| GitHubCalls | MCGitHubCalls | 2 requests, at once or a request and its retry, 1 key, 3 caches (2 reviewed), every mix of confirmation and expectation, 1 push | carried out at most once, deletes what was asked and agreed to, responses are true, merges the expected head |
| PatchText | PatchText | every file of 3 lines over 2 texts and 2 kinds of newline, patches of 2 hunks of 2 lines or 2 operations | hunks are placed as the reference does, no other line changes, newlines are kept |
| RegistryStaleWrite | MCOperationRegistry | 1 operation, 1 process, progress writes | the finding of section 4 |

Bounds, and why they are enough. Two operations and three processes give
a retry after a crash, in the same process and in one that overlaps, a prune of one operation
while another runs, and a third process that reads both operations of a request that was
run again; the races of a state file need one operation, which is why
progress writes are checked with one. In `RegistryRequests` the commands
are too short for a progress write (`ProgressFlush = FALSE`, the code writes one
at most every so often) and end in one way (`Ends`), one process is told to shut down while
all of them may crash (`Orderly`), and no write fails (`WriteFaults = FALSE`; a death before
the write leaves the same files, and `RegistryProgress` has failing writes and all endings), since
more exceeds what is practical; the proofs have no such bound. Two paths let the second file of an edit
fail after the first was installed. Four commits are the two of the prepared
branch and any two of: a commit of a request, of its retry, of a command, of
somebody else. `Selection` lists the path sets a request may ask for: here one path, while
the other, which the policy denies, is what commands edit, stage and commit besides. What others push carries no new content. Two calls are a request and its retry, or two at once; three
preparations are two at once and a retry. Three caches with `MaxDelete` 2 let a
selection be too large, unreviewed, or shrink while it is deleted. A second hunk
and three lines are what it takes for a hunk to be found before, behind, next to
or not at all after another. Six bytes fill the limit, one pipe and one
chunk, so that a reader which stopped would block the command; a unit of two bytes at the
start of each stream is cut by the limit, by a chunk, by a page or by none of them. Three synchronisations are one that
leaves a manifest and two that overlap, or fail, after it. Two lines and budgets
of 1, 3 and 8 let a page end before its first line, between two lines and after the
last, by each of its three limits. `Orderly`, `Ends`, `MaxCommits`, `MaxCalls`, `MaxInspects`, `MaxEdits`,
`MaxHead`, `MaxId`, `MaxBytes`, `MaxLines`, `HunkLines`, `MaxHunks`, `Width` and
`Budget` are the only bounds and are named in the modules.

No run checks a type invariant. Those that `OperationRegistry`, `WorkspacePrepare`,
`WorkspacePublish`, `GitHubCalls` and `FileTransaction` state (`TypeOK`) are proved
instead, each as a conjunct of the component's inductive invariant.

Deadlock is not checked in any run: gateways may all have exited, a transaction
may be done, bounded calls may be used up, and a crash ends the models of
one process.

Symmetry is used for invariants and action properties only; the run with
liveness properties declares none.

Fairness. `FairSpec` assumes of the registry that the event loop runs what is
ready (weak fairness of task and shutdown steps), that deadlines come, that worker
threads return (`Land`), and that the asyncio lock, which wakes waiters in
order, does not pass over a waiter for ever (strong fairness of the steps that
acquire it). Clients, cancellations, crashes and restarts are not assumed.
`TimedSpec` assumes of a command only that its task is run and that
time passes; no start-up stage has to end. `NothingSurvives` and `JobIsClosed`, which
together are `NothingLeft`, name their extra assumption themselves: the abandoned
creation, or assignment, ends. Without it the code cannot clean up after it.
`OperationOutput` assumes that the command writes and exits when it can, that readers
are run and threads return, and that the lock, which is first in first out, does not
pass over a reader for ever; neither a kill nor the deadline is assumed, so
`NeverBlocks` holds by the draining alone.

## 4. Where the code and its documents disagree

The first is a run that TLC finds violated; `PROJECT.json` quotes the lines.

* **RegistryStaleWrite.** After the exit of the command a reader that is still
  draining gets a short grace period and is then cancelled. Its worker thread may be
  in the middle of a progress write: it replaces the terminal `state.json` by a
  running one, and the next gateway records a second terminal state.

These are seen by changing a configuration:

* PLAN.md:221 promises one operation for a key and request. The records are read when the
  application is created, before the mutex is held (`main.py:31`), so a gateway that
  is created while another still serves does not know what that one starts; and a state file
  that cannot be read is passed over (`operations.py:207`). Either way the request is run
  again. `SameRequestSameOperation` as an invariant of `RegistryRequests.cfg` is violated;
  `OneOperationPerRequest`, which holds, excepts these two cases and what follows from them.
* The staged files are checked and reported (`workspaces.py:1090-1094`) and what is staged is
  committed later (1113). A command of the workspace that stages in between (`git add`, which
  the script policy allows) gets paths into the commit that were neither checked nor
  reported. `StagedIsCommitted` as an invariant of `WorkspacePublish.cfg`; `PublishedAsReported`
  excepts the paths staged at this point.
* `deleteCache` wants a confirmation or "exact" expected metadata (`ci.py:488`). An empty
  `expected_ref` counts as expected metadata (492) but is not compared (495), so an
  unconfirmed request deletes whatever its key selects. `UnconfirmedIsReviewed` as an invariant of
  `GitHubCalls.cfg`. By id, expected metadata that come with a confirmation are not
  looked at (472-473).
* Logs are read on by offset (PLAN.md:306). A page is decoded by
  itself with replacement characters (`operations.py:941`), and stripped of escape sequences
  by itself (357-359): a character that a page border cuts is lost on both pages although
  `next_stdout_offset` moves on, and the halves of an escape sequence stay in the text.
  `EveryCharacterIsRead` as an invariant of `OperationOutput.cfg`.
* If moving a backup back fails, the cleanup deletes that backup (`text_ops.py:314`),
  against README.md:84. `BackupsOutliveErrors` as a property of `FileTransaction.cfg`.
* A workspace whose key was not stored, because the store failed or the gateway died
  (`workspaces.py:179`), is not found by the retry, against PLAN.md:463.
  `FirstWorkspaceReturned` as an invariant of `WorkspacePrepare.cfg`.
* PROMPT.md:59 tells a client whose `next_start_line` has not moved to ask for more bytes
  per file. If the page was emptied to fit the *response*, that never helps: the
  last file of a response is emptied as a whole, so with both budgets at their default a
  page that fills the file's budget is always emptied. A smaller page would
  help. `RetryAdvances` has the condition that the response has room for a page
  (`RoomFor`); without its second line it is violated.

One difference is deliberate: PLAN.md says that a command key used for another
request is refused, while the code keys operations by (workspace, key,
request), and a test asserts that. The model follows the code.

More weaknesses show in the models and have no run of their own. Some are
exceptions in a property that holds, others no document contradicts:

* `CommandProcess`: start-up errors are recorded before the process is terminated,
  also when the ready file was created before its write failed
  (`operations.py:759-768`), so an operation may be terminal while its script
  still runs; PLAN.md 11.2 puts the terminal state last. If `taskkill` exists but cannot be
  started (an `OSError` other than `FileNotFoundError`, `operations.py:905`), the handler is
  left before it records anything, and the record says running until the next start; both
  models of operations assume this away.
* `FileTransaction`: the condition of `write_file` (`create_only`,
  `expected_sha256`) is checked before an await and not again at the commit, so a
  file that changed in between is overwritten.
* `WorkspacePublish`: the index left behind by a failed commit is published by the
  next request, even one for other paths.
* `WorkspacePublish`, `GitHubCalls`: two overlapping requests with one key and
  different payloads are both carried out; the store keeps the hash of the first
  with the response of the second, and returns it to retries of the first.
* `OperationOutput`: if closing a log fails after a write to it failed
  (`operations.py:814`), the reader dies: its pipe is not emptied any more and the
  command blocks until its deadline, and the log is not marked as truncated. What a
  cancelled reader had read is lost without a mark. A write that fails after some bytes
  does not count them, so the logs may exceed the limit.
* `ArtifactSync`: `workspace_scope` takes no lock. Of two synchronisations of one run
  at once, one removes what the other has unpacked, which may still answer that it
  has downloaded everything; a later one may then skip. A removal that is interrupted
  can leave a manifest with damaged destinations, which is current if the
  artifacts did not change. The manifest is not replaced atomically, and one
  that is torn makes every later synchronisation of the run fail with 409. An artifact
  uploaded between two pages can be listed twice and another not at all. What was listed
  so becomes a manifest, and a later synchronisation that happens to list the same (one
  of its artifacts may be deleted between the pages) repeats it: its response
  names artifacts that the run never had together, although nothing but a deletion
  happened while it listed. `steady` in `ResponseIsASnapshot` excludes it. It takes four
  artifacts, one more than the run has, and came to light with the invariant of the proof;
  with four, one slot and two requests TLC finds it in half a minute if `steady` is left out.
* `WorkspaceReading`: an emptied file keeps the `end_line` of what was removed
  (`workspaces.py:709-715`); entries that are cut from the end of `files` or `searches`
  are flagged by the `truncated` of the response only.
* `PatchText`: an update that deletes every line of a file leaves one newline, and
  a file with mixed line ends becomes LF throughout. A hunk that is not found
  behind the cursor may match lines that an earlier hunk inserted.

## 5. Proofs

A run of TLC shows a property on one small instance, a theorem for every value of
the constants. Every module below has inductive invariants with one lemma for
each action (or for each of its conjuncts), then what follows from them; two of them also
prove the refinement of an abstract specification. Each invariant was first checked by TLC on the instance of the
component's run.

| Module | Inductive invariant | Theorems |
|---|---|---|
| `OperationRegistryProofs` | `IInv` | `TypeCorrect`, `IndexSound`, `RunningBelongsToATask`, `ShutdownSound`, `TerminalOnceInMemory` |
| `OperationRegistryProofs` | `RestartInv`, `DiskInv` | `RequestRunsOnce`, `AcknowledgedKnown`, `IndexComplete`, `DiskAgrees`, `LedgerImplemented` |
| `WorkspacePrepareProofs` | `IInv` | `PrepareTypeCorrect`, `OneAnswerPerKey`, `BranchCreatedOnce`, `MetadataMeanWhole`, `UsedWorkspaceKept` |
| `WorkspacePublishProofs` | `PublishInv` | `PublishTyped`, `NeverRewound`, `BuiltOnExpectedHead`, `ReportedTruly`, `CommittedOnce` |
| `GitHubCallsProofs` | `CallsInv` | `CallsTyped`, `AtMostOnce`, `OnlyAgreedDeletions`, `AnswersAreTrue`, `ReviewedHeadMerged` |
| `FileTransactionProofs` | `EditInv` | `OriginalsAreKept`, `AtomicEditImplemented` |
| `OperationOutputProofs` | `OutputInv` | `LogsAreAccounted`, `PagesMatchTheLog` |
| `ArtifactSyncProofs` | `SyncInv`, `PagesInv` | `ManifestsAreTrue`, `ResponsesAreWhole`, `ResponsesAreSnapshots` |
| `PatchTextProofs` | `IInv` | `PlacedWhereTheyFitHolds`, `NothingElseChangesHolds` |

### The registry within one process

The first part of `OperationRegistryProofs` proves for any sets of operations, processes,
workspaces, keys and requests, for all settings of the two switches and all bounds, with
overlapping processes and unreadable files:

* `TypeCorrect`: `Spec => []TypeOK`
* `IndexSound`: `Spec => []IndexNeverDangles`
* `RunningBelongsToATask`: `Spec => []RunningHasTask`
* `ShutdownSound`: `Spec => []ShutdownSettlesAll`
* `TerminalOnceInMemory`: `Spec => MemoryTerminalOnce`

The only assumptions are those of `OperationRegistry`: `None` is neither an operation
nor a process (`NoneIsNew`), the switches are Booleans (`Switches`), and the bounds are sets of
processes and of endings (`Bounds`).

None of these is inductive by itself. `IInv` adds what they rest on:

* `FreshOps`: what `start` has not registered has left no trace, so a new
  operation finds its id unused; `EmptyMemory`: the same of a process.
* `TaskAlive` and `ReadersAlive`: tasks and readers belong to a process that
  runs, and readers do not outlive the task's settling while requests are served.
  Hence no reader writes a running record after a terminal one *in memory*.
* `TaskThread`: one recording thread at most, and only in `commit`.
* `CancelledLate`: a task is cancelled only from the forced part of a shutdown on;
  otherwise a cancelled task could leave its record running while serving.
* `RunningIsLive`: a running record has a task that has not recorded yet. This
  is stronger than `RunningHasTask` (it excludes `commit`), and without it the
  step from `commit` to `ending` could not be shown to leave a terminal record.
* `ForcedLoop`: what still runs in the forced part of a shutdown is still to be
  visited, which yields `ShutdownSettlesAll` when the loop ends.

There is one lemma per conjunct and, in each, one case per action. `TerminalStep`
is the action property, from the same invariant.

### The registry across processes

Its second part proves what outlives a process, from the same assumptions:

* `RequestRunsOnce`: `Spec => []OneOperationPerRequest`
* `AcknowledgedKnown`: `Spec => []AcknowledgedIsKnown`
* `IndexComplete`: `Spec => []IndexIsComplete`
* `DiskAgrees`: `Spec => []DiskAgreesAtRest`
* `LedgerImplemented`: `Spec => ImplementsLedger`

`RestartInv` says that what was started was started for a request (`NamedOnce`) and has a file
until it is pruned (`PresentOnDisk`), and of every process that it knows all that was
started and not pruned, unless it is in `blind`, and finds what it knows through its
index, unless its request is in `clashing` (`Informed`). This is what a restart
re-establishes: `Load` rebuilds the index from the files that it could read. That a
serving process misses no start by another one is the mutex (`MutexHeld`, of
`DiskInv`); one that is only loaded becomes blind to it. A request that is accepted again was not in
the index, so the process did not know its operation: it was pruned, or the process was blind
to it, or had read the request twice (`OneOperationPerRequest`). `Steady` collects the steps
that change none of this. `DiskInv` says that a thread is about to write
what memory says, unless it was abandoned; it rests on the lock, which leaves a running
operation with at most one thread, and on the mutex for the last write of a shutdown.

The refinement maps every process to the ledger that its clients see. The ledger is closed
until the process has the mutex: `Acquire` is its step `Open`, the three outcomes of `start`
are `Serve` (with what their prune retires), recording a terminal state in `_finish` or a
forced shutdown is `Settle`, and every end of a process is `Close`. Everything else, and all
that another process does, is a stutter. That an accepted request has no operation in the
ledger yet is the completeness of the index in `Informed`.

### Workspaces

`WorkspacePrepareProofs` proves for any sets of workspaces, keys and requests:

* `PrepareTypeCorrect`: `Spec => []TypeOK`
* `OneAnswerPerKey`: `Spec => []AnswersAgree`
* `BranchCreatedOnce`: `Spec => []OneBranchPerKey`
* `MetadataMeanWhole`: `Spec => []VisibleIsWhole`
* `UsedWorkspaceKept`: `Spec => KeptWhileUsed`

The assumption used is that `Nothing` is not a request. The invariant adds:

* `Unanswered`: nothing is stored for a key that is being served, so `Finish`
  never replaces a response; it needs the part of `TypeOK` that ties a served
  request to the lock of its key.
* `Stored`: every answer is a stored response, one for each key; this is why answers
  agree.
* `BranchStored`: a branch known to exist is stored, so `Branch` finds it.
* `Apart`: what is old exists, and a clone is not old and shares its directory
  with no other request. So a prune spares clones, and a clone ends complete.

Here there is one lemma per action (`ArriveInv`, ..., `CrashInv`), over a few lemmas
about what a step of one request leaves to the others.

`WorkspacePublishProofs` proves for any paths, contents, denied paths, selections,
commits and requests:

* `PublishTyped`: `Spec => []TypeOK`; `NeverRewound`: `Spec => RemoteOnlyGrows`
* `BuiltOnExpectedHead`: `Spec => []ExpectedHeadRespected`
* `ReportedTruly`: `Spec => []PublishedAsReported`
* `CommittedOnce`: `Spec => []RetryCommitsOnce`

`PublishInv` adds `Ancestry` (histories are transitive and follow the order of creation),
`Seen` (the workspace never builds on what another clone pushed since), `Progress` (what a
request knows at each await, and that nothing has changed for one that is alone) and
`Sound`, which holds of a push whether it landed, may still land (`late`), or was
reported as failed. The last is why a push that was given up does no harm when it
lands after its retry. `CommittedOnTop` says that a commit of a request that was alone stays
below HEAD, so a retry that expects the old head finds it (`Leftover`). Between the check
and the commit, the index is what was checked but for `restaged`.

`FileTransactionProofs` proves for any files, contents and requests, of any
number of targets:

* `OriginalsAreKept`: `Spec => []OriginalsKept`
* `AtomicEditImplemented`: `Spec => ImplementsAtomicEdit`

`EditInv` says of each target where its contents are at every point of the loops
(`Progress`): behind the loop installed, with the old content in the backup; at the loop's place
missing; before it untouched; and during a rollback one of the three. `Alone` (one
commit at a time) keeps two edits from one file. In the refinement
`Stage` maps to `Begin`, `Installed` to `Apply`, the cleanup after it to `Succeed`, the
cleanup after a complete rollback to `Undo`, and after a failed one, like a crash, to
`Break`. A write by others maps to `Others`, which makes the file contested; the moves of
the commit in between are hidden.

### Calls, output, artifacts

`GitHubCallsProofs` proves for any caches, keys, limits and numbers of requests:

* `CallsTyped`: `Spec => []TypeOK`; `AtMostOnce`: `Spec => []CarriedOutOnce`
* `OnlyAgreedDeletions`: `Spec => []DeletesAsAsked`
* `AnswersAreTrue`: `Spec => []ResponseIsTrue`
* `ReviewedHeadMerged`: `Spec => []MergesOnlyExpected`

A request is in one place (`OnePlace`): with one coroutine or as one change that may still
arrive. So when a stored row speaks of it, nothing of it is under way (`Over`), and the
row stays true. `Flight` and `Pending` say that what is left to do, together with what
was done, is what the client agreed to (`Agreed`): the rule of `_assert_cache_delete_confirmed`
and what `_assert_selected_caches_match_expected` has compared, for every mix of dry run,
confirmation and expectation.

`OperationOutputProofs` proves for any limit, any capacity of the pipes and any length of the
output:

* `LogsAreAccounted`: `Spec => []OutputIsAccounted`
* `PagesMatchTheLog`: `Spec => []PagesAreTheLog`

The heart of `OutputInv` is an equation: while a reader lives and has marked nothing, what is in
the log, in its chunk and in the pipe is all that was written (`Accounted`), in this
order (`InOrder`). It is what makes the accepted part of a chunk go on where the log ends: after
a cut nothing is accepted any more, since the limit is used up and `stored` never falls.
Of the pages it says that each byte was decoded with the two borders of its own page; a later
page never splits a unit that an earlier one has, unless that one's border did, for any units
and any page sizes.

`ArtifactSyncProofs` proves for any artifacts, page sizes and numbers of requests:

* `ManifestsAreTrue`: `Spec => []ManifestIsTrue`
* `ResponsesAreWhole`: `Spec => ResponseIsWhole`
* `ResponsesAreSnapshots`: `Spec => ResponseIsASnapshot`

`SyncInv` says of a synchronisation that nothing disturbs that it is the only one, that
there is no manifest while it downloads, and that the directory holds what it has downloaded
and nothing else (`Undisturbed`); so a manifest that appears is true. Downloads from lists
in which an artifact is named twice are included.

`PagesInv` is about the lists. GitHub numbers the artifacts from the newest (`Ranks`,
`PageFacts`), so what the first pages named are the newest artifacts as long as none of them was
deleted (`Newer`), and with the last page they are all (`NextPage`, `PageMore`). If one
was deleted, it never comes back, and its download fails before a manifest or an answer
(`Held`). What remains is an answer that repeats the manifest. A list the run once had is
`Fresh`: all that is uploaded later is newer than all of it. One who lists now saw it, or
began when it was over; then the newest artifact on its first page, which is in the list, leaves
room for nothing else (`CurrentIsSeen`). This step fails for a manifest that was listed while
the run was started again, and so did the property, before `steady` was part of it. That
sorting keeps the set of the artifacts (`SortedSet`) needs no induction: the numbers of
a list are ranked too.

### Patches

`PatchTextProofs` proves for files and patches of any size and any lines (the bounds of the
model are assumed to be numbers, `PatchAssumption`):

* `PlacedWhereTheyFitHolds`: `Spec => []PlacedWhereTheyFit`
* `NothingElseChangesHolds`: `Spec => []NothingElseChanges`

`Placing` says what is known when k hunks are placed. As long as each was found behind the one
before, the lines are `Result`: what the first k hunks make of the old lines (`Spells`) when each
is at the earliest place that any placement gives it (`Foremost`). The search goes on in the
*new* lines, behind the cursor; `SearchShifted` says that it finds there what it would find in
the old ones behind the end of the last hunk. Since a placement of k + 1 hunks has the last one
behind the earliest end of the others (`FoundFromForemost`), the first place found is the
earliest one again, and if none is found the first k + 1 hunks have no placement, so neither
do all of them: this is why taking the first place never misses a solution.
`Balanced` counts each line in what was taken out, what was put in, and what is there, wherever
the hunks went. `EolKept` is stronger than the claim about newlines: the file does not become
empty either, and its newline at the end is the one of the update. The order of operations in
`Patch` is not needed for it, only that `Parse` refuses to add a file that exists.

`Patched`, `FlattenSeq` and the placing are recursive. What they compute is shown by the
least number for which it would be wrong (`LeastNumber`, from the well-foundedness of the order
of the natural numbers), which takes no induction principle with an operator as a parameter.

### What is only model-checked

* Liveness and fairness (`EveryOperationSettles`, `ShutdownCompletes`, `DeadlineCoversStartup`,
  `NothingLeft`, `NeverBlocks`): out of reach of TLAPS 1.4.5.
* `CommandProcess`: it has no parameters, so that TLC's search of its states is exhaustive.
* `WorkspaceReading`: the cutting of a response is a `RECURSIVE` operator, which no module with
  a theorem may reach.
* `DurableTerminalOnce` is false (section 4).

## 6. What is not modelled, and the plan

Not modelled: HTTP layer, settings, models, policy predicates, authentication and
GitHub client (calls and predicates without interesting state; the client's
retries are in `GitHubCalls`), `status` and `diff` of a workspace (one git command each),
the walk of a directory tree, pull request calls without a check, and the text of
scripts and logs.

Plan, in order:

1. Done: `OperationRegistry` with ledger, refinement and proofs, `CommandProcess`,
   `FileTransaction` with `AtomicEdit`, `WorkspacePublish`, `WorkspacePrepare` with proofs,
   `GitHubCalls`, `PatchText`, `OperationOutput`, `ArtifactSync`, `WorkspaceReading`.
2. Done: theorems on eight components (section 5), with the refinements of `OperationLedger` and
   `AtomicEdit`.
3. Creating pull requests in `GitHubCalls`: the search for an open one, and the creation.
4. An abstract specification for `WorkspacePublish` (compare-and-swap of the branch), with the
   refinement proved from `PublishInv`.
