------------------------- MODULE OperationRegistry -------------------------
(***************************************************************************)
(* WorkspaceOperationManager (src/app/workspace/operations.py) together    *)
(* with the application lifespan that owns it (src/app/main.py) and the    *)
(* single-instance mutex (src/app/single_instance.py).                     *)
(*                                                                         *)
(* A gateway process loads the operation records from disk when it is      *)
(* constructed, acquires the mutex, marks the records it finds running as  *)
(* interrupted, serves requests, and shuts down; or it crashes at any      *)
(* point.  While it serves, start registers an operation in three places   *)
(* (the records, the idempotency index, the state file) and spawns a task; *)
(* the task, the readers of the command's output and the shutdown routine  *)
(* all write the operation's state file through worker threads, under the  *)
(* operation's asyncio lock.  A cancelled coroutine releases the lock but  *)
(* does not stop its worker thread: such a write is an "orphan" here and   *)
(* may land at any later time.                                             *)
(*                                                                         *)
(* The steps of a command's start-up (Job Object, process, ready file) are *)
(* one action here; module CommandProcess models them one by one.          *)
(***************************************************************************)
EXTENDS FiniteSets

CONSTANTS
  Op,             \* operation ids that secrets.token_hex may return
  Gateway,        \* gateway processes, each of which lives once
  Workspace,      \* workspace ids
  Key,            \* idempotency keys
  Request,        \* request hashes
  ProgressFlush,  \* whether commands live long enough for a progress write
  WriteFaults,    \* whether writing a state file may raise OSError
  Orderly,        \* bound: the processes that are told to shut down; any may crash
  Ends,           \* bound: the ways in which commands end other than by a shutdown
  None

ASSUME NoneIsNew == None \notin Op /\ None \notin Gateway
ASSUME Switches == {ProgressFlush, WriteFaults} \subseteq BOOLEAN
ASSUME Bounds ==
  /\ Orderly \subseteq Gateway
  /\ Ends \subseteq {"succeeded", "failed", "timed_out", "canceled"}

Terminal == {"succeeded", "failed", "timed_out", "canceled", "interrupted"}
State    == Terminal \cup {"running"}
Index    == Workspace \X Key \X Request
Holder   == {"drain", "task", "shutdown"}
Write    == [state : State, by : Holder \cup {"orphan"}]
Phase    == {"off", "loaded", "serving", "stopping", "forcing", "released",
             "closing", "exited"}
Live     == {"startup", "watch", "settle", "finish", "handler", "commit"}

VARIABLES
  phase,        \* life cycle of each gateway process
  mutex,        \* the process holding the named mutex
  records,      \* per process: the state in _records, or "absent"
  index,        \* per process: _idempotency
  disk,         \* the state in op_*/state.json, or "absent"
  writes,       \* worker threads that are writing a state file
  pc,           \* where the task of an operation is in _run
  verdict,      \* the terminal state the task is about to record
  readers,      \* whether the tasks draining stdout and stderr are alive
  cancelSet,    \* runtime.cancel_event
  shutdownSet,  \* runtime.shutdown_event
  cancelled,    \* task.cancel() was called and is not yet delivered
  forced,       \* progress of shutdown's loop over the runtimes
  ident,        \* history: the (workspace, key, request) of an operation
  owner,        \* history: the process that started an operation
  pruned,       \* history: operations whose directory was removed
  torn,         \* history: operations with a failed or abandoned write
  blind,        \* history: operations that a process could not know from the files
  clashing      \* history: requests of which a process read several operations

life     == <<phase, mutex>>
registry == <<records, index>>
task     == <<pc, verdict, readers>>
signals  == <<cancelSet, shutdownSet, cancelled, forced>>
history  == <<ident, owner, blind, clashing>>
vars == <<life, registry, disk, writes, task, signals, history, pruned, torn>>

TypeOK ==
  /\ phase \in [Gateway -> Phase]
  /\ mutex \in Gateway \cup {None}
  /\ records \in [Gateway -> [Op -> State \cup {"absent"}]]
  /\ index \in [Gateway -> [Index -> Op \cup {None}]]
  /\ disk \in [Op -> State \cup {"absent"}]
  /\ writes \in [Op -> SUBSET Write]
  /\ pc \in [Op -> Live \cup {"none", "ending", "done", "dead"}]
  /\ verdict \in [Op -> Terminal \cup {None}]
  /\ readers \in [Op -> BOOLEAN]
  /\ cancelSet \in [Op -> BOOLEAN]
  /\ shutdownSet \in [Op -> BOOLEAN]
  /\ cancelled \in [Op -> BOOLEAN]
  /\ forced \in [Op -> {"no", "queued", "waiting", "writing", "done"}]
  /\ ident \in [Op -> Index \cup {None}]
  /\ owner \in [Op -> Gateway \cup {None}]
  /\ pruned \in SUBSET Op
  /\ torn \in SUBSET Op
  /\ blind \in [Gateway -> SUBSET Op]
  /\ clashing \in [Gateway -> SUBSET Index]

Init ==
  /\ phase = [g \in Gateway |-> "off"]
  /\ mutex = None
  /\ records = [g \in Gateway |-> [o \in Op |-> "absent"]]
  /\ index = [g \in Gateway |-> [i \in Index |-> None]]
  /\ disk = [o \in Op |-> "absent"]
  /\ writes = [o \in Op |-> {}]
  /\ pc = [o \in Op |-> "none"]
  /\ verdict = [o \in Op |-> None]
  /\ readers = [o \in Op |-> FALSE]
  /\ cancelSet = [o \in Op |-> FALSE]
  /\ shutdownSet = [o \in Op |-> FALSE]
  /\ cancelled = [o \in Op |-> FALSE]
  /\ forced = [o \in Op |-> "no"]
  /\ ident = [o \in Op |-> None]
  /\ owner = [o \in Op |-> None]
  /\ pruned = {}
  /\ torn = {}
  /\ blind = [g \in Gateway |-> {}]
  /\ clashing = [g \in Gateway |-> {}]

-----------------------------------------------------------------------------
(* Helpers.                                                                *)

OwnedBy(g) == {o \in Op : owner[o] = g}

\* The operations of g whose task has not returned.
Busy(g) == {o \in OwnedBy(g) : pc[o] \notin {"done", "dead"}}

\* The lock is held exactly while its holder awaits a worker thread: every
\* other critical section has no await in it.
LockNotTaken(o) == TRUE
LockFree(o) == \A w \in writes[o] : w.by = "orphan"

\* The thread that holder h was waiting for runs on after h is cancelled.
Abandon(o, h) ==
  {IF w.by = h THEN [state |-> w.state, by |-> "orphan"] ELSE w : w \in writes[o]}

\* Terminal records old enough for the TTL.  An expiry is hours after the
\* terminal transition, so the task and its threads are long gone.
Expired(g) ==
  {o \in Op : /\ records[g][o] \in Terminal
              /\ pc[o] \in {"done", "dead"}
              /\ writes[o] = {}}

\* prune_terminal_operations: rmtree was tried on the directories in gone;
\* it removed them fully, and so the records, for the operations in lost.
PrunedRecords(g, lost) ==
  [o \in Op |-> IF o \in lost THEN "absent" ELSE records[g][o]]

PrunedIndexKept(g, lost) == index[g]
PrunedIndexByKey(g, lost) ==
  [i \in Index |-> IF \E o \in lost : ident[o][1] = i[1] /\ ident[o][2] = i[2]
                   THEN None ELSE index[g][i]]
PrunedIndex(g, lost) ==
  [i \in Index |-> IF \E o \in lost : ident[o] = i THEN None ELSE index[g][i]]

PrunedDisk(gone) == [o \in Op |-> IF o \in gone THEN "absent" ELSE disk[o]]

\* The write of the new record that start makes before it answers.
FirstWriteDeferred(gone, o) == PrunedDisk(gone)
FirstWrite(gone, o) == [PrunedDisk(gone) EXCEPT ![o] = "running"]

\* What is left of the process and its coroutines once it has ended.
Vanish(g) ==
  /\ phase' = [phase EXCEPT ![g] = "exited"]
  /\ mutex' = IF mutex = g THEN None ELSE mutex
  /\ records' = [records EXCEPT ![g] = [o \in Op |-> "absent"]]
  /\ index' = [index EXCEPT ![g] = [i \in Index |-> None]]
  /\ pc' = [o \in Op |-> IF o \in Busy(g) THEN "dead" ELSE pc[o]]
  /\ verdict' = [o \in Op |-> IF owner[o] = g THEN None ELSE verdict[o]]
  /\ readers' = [o \in Op |-> readers[o] /\ owner[o] # g]
  /\ writes' = [o \in Op |-> IF owner[o] = g THEN {} ELSE writes[o]]
  /\ cancelSet' = [o \in Op |-> cancelSet[o] /\ owner[o] # g]
  /\ shutdownSet' = [o \in Op |-> shutdownSet[o] /\ owner[o] # g]
  /\ cancelled' = [o \in Op |-> cancelled[o] /\ owner[o] # g]
  /\ forced' = [o \in Op |-> IF owner[o] = g THEN "no" ELSE forced[o]]
  /\ UNCHANGED <<history, pruned, torn>>

-----------------------------------------------------------------------------
(* The life of a gateway process.                                          *)

Stored == {o \in Op : disk[o] # "absent"}

\* f is an index built from the state files that were read; when two of them
\* carry the same request, the one that glob yields last wins.
NothingIndexed(f, read) == \A i \in Index : f[i] = None
IndexesDisk(f, read) ==
  \A i \in Index :
    LET found == {o \in read : ident[o] = i}
    IN  f[i] \in IF found = {} THEN {None} ELSE found

Doubled(read) ==
  {i \in Index : \E o, p \in read : o # p /\ ident[o] = i /\ ident[p] = i}

\* create_app constructs the manager, which reads the state files, before the
\* lifespan has acquired the mutex: another process may still be serving.  A
\* file that cannot be opened or parsed is passed over without a word.
Load(g) ==
  /\ phase[g] = "off"
  /\ phase' = [phase EXCEPT ![g] = "loaded"]
  /\ \E read \in SUBSET Stored :
       /\ records' = [records EXCEPT
            ![g] = [o \in Op |-> IF o \in read THEN disk[o] ELSE "absent"]]
       /\ \E f \in [Index -> Op \cup {None}] :
            /\ IndexesDisk(f, read)
            /\ index' = [index EXCEPT ![g] = f]
       /\ blind' = [blind EXCEPT ![g] = Stored \ read]
       /\ clashing' = [clashing EXCEPT ![g] = Doubled(read)]
  /\ UNCHANGED <<mutex, disk, writes, task, signals, ident, owner, pruned, torn>>

NoneRunning(g) == {}
RunningIn(g) == {o \in Op : records[g][o] = "running"}

\* The lifespan acquires the mutex, recover_running_operations turns what the
\* records say is running into interrupted, in memory and on disk, and
\* prune_terminal_operations runs.
Acquire(g) ==
  LET recovered == RunningIn(g) IN
  /\ phase[g] = "loaded"
  /\ mutex = None
  /\ phase' = [phase EXCEPT ![g] = "serving"]
  /\ mutex' = g
  /\ \E gone \in SUBSET Expired(g) : \E lost \in SUBSET gone :
       /\ records' = [records EXCEPT ![g] =
            [o \in Op |-> IF o \in recovered THEN "interrupted"
                          ELSE PrunedRecords(g, lost)[o]]]
       /\ index' = [index EXCEPT ![g] = PrunedIndex(g, lost)]
       /\ disk' = [o \in Op |-> IF o \in recovered THEN "interrupted"
                                ELSE PrunedDisk(gone)[o]]
       /\ pruned' = pruned \cup gone
  /\ UNCHANGED <<writes, task, signals, history, torn>>

\* CreateMutexW reports ERROR_ALREADY_EXISTS: start-up fails.
AcquireRefused(g) ==
  /\ phase[g] = "loaded"
  /\ mutex # None
  /\ Vanish(g)
  /\ UNCHANGED disk

\* The write of one recovered record raises, or the process dies, after some
\* of the records were rewritten.
RecoveryInterrupted(g) ==
  LET running == RunningIn(g) IN
  /\ phase[g] = "loaded"
  /\ mutex = None
  /\ \E rewritten \in SUBSET running \ {running} :
       disk' = [o \in Op |-> IF o \in rewritten THEN "interrupted" ELSE disk[o]]
  /\ Vanish(g)

\* shutdown() tells the running operations and starts to wait for their tasks.
BeginShutdown(g) ==
  /\ phase[g] = "serving" /\ g \in Orderly
  /\ phase' = [phase EXCEPT ![g] = "stopping"]
  /\ shutdownSet' = [o \in Op |-> \/ shutdownSet[o]
                                  \/ o \in Busy(g) /\ records[g][o] = "running"]
  /\ UNCHANGED <<mutex, registry, disk, writes, task, cancelSet, cancelled,
                 forced, history, pruned, torn>>

\* Every task ended in time: nothing is pending, the mutex is released.
ShutdownClean(g) ==
  /\ phase[g] = "stopping"
  /\ Busy(g) = {}
  /\ phase' = [phase EXCEPT ![g] = "released"]
  /\ mutex' = None
  /\ UNCHANGED <<registry, disk, writes, task, signals, history, pruned, torn>>

\* workspace_command_shutdown_seconds have passed with tasks pending.
ShutdownTimeout(g) ==
  /\ phase[g] = "stopping"
  /\ Busy(g) # {}
  /\ phase' = [phase EXCEPT ![g] = "forcing"]
  /\ forced' = [o \in Op |-> IF o \in Busy(g) THEN "queued" ELSE forced[o]]
  /\ UNCHANGED <<mutex, registry, disk, writes, task, cancelSet, shutdownSet,
                 cancelled, history, pruned, torn>>

ForcedFinishSkipped(g, o) ==
  forced' = [forced EXCEPT ![o] = "done"] /\ UNCHANGED <<records, writes>>
ForcedFinishAlways(g, o) ==
  /\ records' = [records EXCEPT ![g][o] = "interrupted"]
  /\ forced' = [forced EXCEPT ![o] = "done"]
  /\ UNCHANGED writes
ForcedFinishRetries(g, o) == UNCHANGED <<records, writes, forced>>

\* The _finish that shutdown itself awaits, once it has the lock.
ForcedFinish(g, o) ==
  \/ /\ records[g][o] \in Terminal
     /\ forced' = [forced EXCEPT ![o] = "done"]
     /\ UNCHANGED <<records, writes>>
  \/ /\ records[g][o] = "running"
     /\ records' = [records EXCEPT ![g][o] = "interrupted"]
     /\ writes' = [writes EXCEPT
          ![o] = @ \cup {[state |-> "interrupted", by |-> "shutdown"]}]
     /\ forced' = [forced EXCEPT ![o] = "writing"]

\* One turn of shutdown's loop: cancel the task, kill the job, and _finish,
\* which waits when another coroutine holds the lock.
ForceVisit(g, o) ==
  /\ phase[g] = "forcing"
  /\ owner[o] = g
  /\ forced[o] = "queued"
  /\ \A p \in OwnedBy(g) : forced[p] \notin {"waiting", "writing"}
  /\ cancelled' = [cancelled EXCEPT ![o] = o \in Busy(g)]
  /\ IF LockFree(o)
     THEN ForcedFinish(g, o)
     ELSE /\ forced' = [forced EXCEPT ![o] = "waiting"]
          /\ UNCHANGED <<records, writes>>
  /\ UNCHANGED <<life, index, disk, task, cancelSet, shutdownSet, history,
                 pruned, torn>>

ForceAcquire(g, o) ==
  /\ phase[g] = "forcing"
  /\ owner[o] = g
  /\ forced[o] = "waiting"
  /\ LockFree(o)
  /\ ForcedFinish(g, o)
  /\ UNCHANGED <<life, index, disk, task, cancelSet, shutdownSet, cancelled,
                 history, pruned, torn>>

\* The loop is over and workspace_command_kill_grace_seconds are spent, or
\* the tasks have ended: the mutex is released either way.
ForceDone(g) ==
  /\ phase[g] = "forcing"
  /\ \A o \in OwnedBy(g) : forced[o] \in {"no", "done"}
  /\ phase' = [phase EXCEPT ![g] = "released"]
  /\ mutex' = None
  /\ UNCHANGED <<registry, disk, writes, task, signals, history, pruned, torn>>

\* asyncio.run cancels the coroutines that are left ...
CloseLoop(g) ==
  /\ phase[g] = "released"
  /\ phase' = [phase EXCEPT ![g] = "closing"]
  /\ cancelled' = [o \in Op |-> cancelled[o] \/ o \in Busy(g)]
  /\ readers' = [o \in Op |-> readers[o] /\ owner[o] # g]
  /\ writes' = [o \in Op |-> IF owner[o] = g THEN Abandon(o, "drain")
                             ELSE writes[o]]
  /\ UNCHANGED <<mutex, registry, disk, pc, verdict, cancelSet, shutdownSet,
                 forced, history, pruned, torn>>

\* ... and waits for them and for the worker threads before it returns.
Exit(g) ==
  /\ phase[g] = "closing"
  /\ Busy(g) = {}
  /\ \A o \in OwnedBy(g) : writes[o] = {}
  /\ Vanish(g)
  /\ UNCHANGED disk

\* The process is killed.  Its threads die with it; os.replace is atomic, so
\* a write either landed before or leaves the old file.
Crash(g) ==
  /\ phase[g] \notin {"off", "exited"}
  /\ Vanish(g)
  /\ UNCHANGED disk

-----------------------------------------------------------------------------
(* Requests.                                                               *)

\* start: prune, then find the index taken, and return that operation.
StartReplays(g, i) ==
  /\ phase[g] = "serving"
  /\ \E gone \in SUBSET Expired(g) : \E lost \in SUBSET gone :
       /\ PrunedIndex(g, lost)[i] # None
       /\ records' = [records EXCEPT ![g] = PrunedRecords(g, lost)]
       /\ index' = [index EXCEPT ![g] = PrunedIndex(g, lost)]
       /\ disk' = PrunedDisk(gone)
       /\ pruned' = pruned \cup gone
  /\ UNCHANGED <<life, writes, task, signals, history, torn>>

\* start: the script is refused, or the record cannot be written and the
\* three registrations are taken back; only the prune remains.
StartFails(g, i) ==
  /\ phase[g] = "serving"
  /\ \E gone \in SUBSET Expired(g) : \E lost \in SUBSET gone :
       /\ PrunedIndex(g, lost)[i] = None
       /\ records' = [records EXCEPT ![g] = PrunedRecords(g, lost)]
       /\ index' = [index EXCEPT ![g] = PrunedIndex(g, lost)]
       /\ disk' = PrunedDisk(gone)
       /\ pruned' = pruned \cup gone
  /\ UNCHANGED <<life, writes, task, signals, history, torn>>

\* start: register the operation, write its record, create the task.  There
\* is no await between the prune and the task, so this is one step.
StartAccepted(g, i, o) ==
  /\ phase[g] = "serving"
  /\ owner[o] = None
  /\ \E gone \in SUBSET Expired(g) : \E lost \in SUBSET gone :
       /\ PrunedIndex(g, lost)[i] = None
       /\ records' = [records EXCEPT
            ![g] = [PrunedRecords(g, lost) EXCEPT ![o] = "running"]]
       /\ index' = [index EXCEPT
            ![g] = [PrunedIndex(g, lost) EXCEPT ![i] = o]]
       /\ disk' = FirstWrite(gone, o)
       /\ pruned' = pruned \cup gone
  /\ ident' = [ident EXCEPT ![o] = i]
  /\ owner' = [owner EXCEPT ![o] = g]
  /\ pc' = [pc EXCEPT ![o] = "startup"]
  /\ blind' = [h \in Gateway |-> IF phase[h] = "loaded" THEN blind[h] \cup {o} ELSE blind[h]]
  /\ UNCHANGED <<life, writes, verdict, readers, signals, torn, clashing>>

Cancel(g, o) ==
  /\ phase[g] = "serving"
  /\ records[g][o] = "running"
  /\ o \in Busy(g)
  /\ "canceled" \in Ends
  /\ cancelSet' = [cancelSet EXCEPT ![o] = TRUE]
  /\ UNCHANGED <<life, registry, disk, writes, task, shutdownSet, cancelled,
                 forced, history, pruned, torn>>

-----------------------------------------------------------------------------
(* The task of an operation, and its output readers.  A task that was      *)
(* cancelled takes no step but the delivery of CancelledError.             *)

TaskAt(o, at) == pc[o] \in at /\ ~cancelled[o]

\* Job Object, process, assignment and ready file.  The deadline or an error
\* ends the start-up in an exception handler of _run.
Startup(o) ==
  /\ TaskAt(o, {"startup"})
  /\ \/ /\ pc' = [pc EXCEPT ![o] = "watch"]
        /\ readers' = [readers EXCEPT ![o] = TRUE]
        /\ UNCHANGED verdict
     \/ \E v \in {"timed_out", "failed"} \cap Ends :
          /\ pc' = [pc EXCEPT ![o] = "handler"]
          /\ verdict' = [verdict EXCEPT ![o] = v]
          /\ UNCHANGED readers
  /\ UNCHANGED <<life, registry, disk, writes, signals, history, pruned, torn>>

\* The order in which _run looks at what asyncio.wait returned.
Judged(seen) ==
  IF "exit" \in seen THEN {"succeeded", "failed"}
  ELSE IF "cancel" \in seen THEN {"canceled"}
  ELSE IF "shutdown" \in seen THEN {"interrupted"}
  ELSE {"timed_out"}

Requested(o) == (IF cancelSet[o] THEN {"cancel"} ELSE {})
                  \cup (IF shutdownSet[o] THEN {"shutdown"} ELSE {})

\* The command may exit and the deadline may pass at any time (one of the two
\* happens in the end), the two events happen only once set.
Happened(o) == {"exit", "deadline"} \cup Requested(o)

\* asyncio.wait returns something of what has happened by then.
Watch(o) ==
  /\ TaskAt(o, {"watch"})
  /\ \E seen \in SUBSET Happened(o) \ {{}} : \E v \in Judged(seen) \cap (Ends \cup {"interrupted"}) :
       verdict' = [verdict EXCEPT ![o] = v]
  /\ pc' = [pc EXCEPT ![o] = "settle"]
  /\ UNCHANGED <<life, registry, disk, writes, readers, signals, history,
                 pruned, torn>>

\* The process tree is gone or given up on.  Readers that do not reach the
\* end of their stream within workspace_command_reader_grace_seconds are
\* cancelled, even in the middle of a progress write.
Settle(o) ==
  /\ TaskAt(o, {"settle"})
  /\ pc' = [pc EXCEPT ![o] = "finish"]
  /\ readers' = [readers EXCEPT ![o] = FALSE]
  /\ writes' = [writes EXCEPT ![o] = Abandon(o, "drain")]
  /\ torn' = IF LockFree(o) THEN torn ELSE torn \cup {o}
  /\ UNCHANGED <<life, registry, disk, verdict, signals, history, pruned>>

\* _finish, under the lock: the first terminal state wins.
Finish(o) ==
  LET g == owner[o] IN
  /\ TaskAt(o, {"finish", "handler"})
  /\ LockFree(o)
  /\ verdict' = [verdict EXCEPT ![o] = None]
  /\ \/ /\ records[g][o] \in Terminal
        /\ pc' = [pc EXCEPT ![o] = "ending"]
        /\ UNCHANGED <<records, writes>>
     \/ /\ records[g][o] = "running"
        /\ records' = [records EXCEPT ![g][o] = verdict[o]]
        /\ writes' = [writes EXCEPT
             ![o] = @ \cup {[state |-> verdict[o], by |-> "task"]}]
        /\ pc' = [pc EXCEPT ![o] = "commit"]
  /\ UNCHANGED <<life, index, disk, readers, signals, history, pruned, torn>>

\* finally: the runtime, and the events with it, are dropped.
Ending(o) ==
  /\ TaskAt(o, {"ending"})
  /\ pc' = [pc EXCEPT ![o] = "done"]
  /\ cancelSet' = [cancelSet EXCEPT ![o] = FALSE]
  /\ shutdownSet' = [shutdownSet EXCEPT ![o] = FALSE]
  /\ UNCHANGED <<life, registry, disk, writes, verdict, readers, cancelled,
                 forced, history, pruned, torn>>

\* CancelledError is raised at the await where the task stands.  In the body
\* of the try it is handled (and the output readers are left alone); in a
\* handler it escapes; in the finally clause it cuts the rest short.
DeliverCancel(o) ==
  /\ cancelled[o]
  /\ cancelled' = [cancelled EXCEPT ![o] = FALSE]
  /\ \/ /\ pc[o] \in {"startup", "watch", "settle", "finish"}
        /\ pc' = [pc EXCEPT ![o] = "handler"]
        /\ verdict' = [verdict EXCEPT ![o] = "interrupted"]
        /\ UNCHANGED writes
     \/ /\ pc[o] \in {"handler", "commit"}
        /\ pc' = [pc EXCEPT ![o] = "ending"]
        /\ verdict' = [verdict EXCEPT ![o] = None]
        /\ writes' = [writes EXCEPT ![o] = Abandon(o, "task")]
     \/ /\ pc[o] = "ending"
        /\ pc' = [pc EXCEPT ![o] = "done"]
        /\ UNCHANGED <<verdict, writes>>
  /\ UNCHANGED <<life, registry, disk, readers, cancelSet, shutdownSet, forced,
                 history, pruned, torn>>

\* _drain_stream: a progress write is due, and a thread starts to write a
\* copy of the record while the reader keeps the lock.
Persist(o) ==
  /\ ProgressFlush
  /\ readers[o]
  /\ LockFree(o)
  /\ writes' = [writes EXCEPT
       ![o] = @ \cup {[state |-> records[owner[o]][o], by |-> "drain"]}]
  /\ UNCHANGED <<life, registry, disk, task, signals, history, pruned, torn>>

\* A thread ends: os.replace took effect or the write failed (every caller
\* that reaches this point swallows OSError).  The coroutine that was waiting
\* for it goes on.
Land(o) ==
  \E w \in writes[o] :
    /\ \/ /\ disk' = [disk EXCEPT ![o] = w.state]
          /\ UNCHANGED torn
       \/ /\ WriteFaults
          /\ torn' = torn \cup {o}
          /\ UNCHANGED disk
    /\ writes' = [writes EXCEPT ![o] = @ \ {w}]
    /\ pc' = IF w.by = "task" THEN [pc EXCEPT ![o] = "ending"] ELSE pc
    /\ forced' = IF w.by = "shutdown" THEN [forced EXCEPT ![o] = "done"]
                 ELSE forced
    /\ UNCHANGED <<life, registry, verdict, readers, cancelSet, shutdownSet,
                   cancelled, history, pruned>>

-----------------------------------------------------------------------------
ProcessStep(g) ==
  \/ Load(g) \/ Acquire(g) \/ AcquireRefused(g) \/ RecoveryInterrupted(g)
  \/ BeginShutdown(g) \/ ShutdownClean(g) \/ ShutdownTimeout(g)
  \/ ForceDone(g) \/ CloseLoop(g) \/ Exit(g) \/ Crash(g)
  \/ \E o \in Op : ForceVisit(g, o) \/ ForceAcquire(g, o) \/ Cancel(g, o)
  \/ \E i \in Index : StartReplays(g, i) \/ StartFails(g, i)
  \/ \E i \in Index, o \in Op : StartAccepted(g, i, o)

TaskStep(o) ==
  \/ Startup(o) \/ Watch(o) \/ Settle(o) \/ Finish(o) \/ Ending(o)
  \/ DeliverCancel(o) \/ Persist(o) \/ Land(o)

Next == (\E g \in Gateway : ProcessStep(g)) \/ (\E o \in Op : TaskStep(o))

Spec == Init /\ [][Next]_vars

\* The event loop runs what is ready, the deadline of a command comes, worker
\* threads return; the asyncio lock is first come first served, so a waiter
\* that finds it free again and again gets it.
Fairness ==
  /\ \A o \in Op :
       /\ WF_vars(Startup(o)) /\ WF_vars(Watch(o)) /\ WF_vars(Settle(o))
       /\ WF_vars(Ending(o)) /\ WF_vars(DeliverCancel(o)) /\ WF_vars(Land(o))
       /\ SF_vars(Finish(o))
  /\ \A g \in Gateway :
       /\ WF_vars(ShutdownClean(g) \/ ShutdownTimeout(g))
       /\ WF_vars(ForceDone(g)) /\ WF_vars(CloseLoop(g)) /\ WF_vars(Exit(g))
       /\ \A o \in Op : WF_vars(ForceVisit(g, o)) /\ SF_vars(ForceAcquire(g, o))

FairSpec == Spec /\ Fairness

-----------------------------------------------------------------------------
(* Properties.                                                             *)

Serving(g) == phase[g] = "serving"
Owned(o)   == owner[o] # None

\* The processes in which o's own process still runs coroutines.
Attended(o) == Owned(o) /\ phase[owner[o]] \in {"serving", "stopping", "forcing"}

\* The process that started p could not know o, or had read several operations
\* for their request and pruned the one that its index named.
Excused(o, p) == o \in blind[owner[p]] \/ ident[p] \in clashing[owner[p]]

\* Idempotent start: a request (workspace, key, payload) has at most one
\* operation, across crashes, restarts and write failures, until the TTL has
\* removed the first one (start, _load_records, prune_terminal_operations).  It is
\* run again for two reasons only: its state file was passed over or written
\* after a process had read the files, or such a repetition came before.
OneOperationPerRequest ==
  \A o, p \in Op :
    Owned(o) /\ Owned(p) /\ ident[o] = ident[p] /\ o # p
      => o \in pruned \/ p \in pruned \/ Excused(o, p) \/ Excused(p, o)

\* What start has acknowledged is never forgotten: every later process that
\* serves knows the operation until the TTL has removed it, unless its state
\* file was passed over or written after that process had read the files.
AcknowledgedIsKnown ==
  \A g \in Gateway, o \in Op :
    Serving(g) /\ Owned(o) /\ o \notin pruned
      => records[g][o] # "absent" \/ o \in blind[g]

\* start returns self._records[existing_id]: the idempotency index never
\* names an operation that the records have lost (a KeyError), and names the
\* one whose request it was.
IndexNeverDangles ==
  \A g \in Gateway, i \in Index :
    index[g][i] # None =>
      /\ records[g][index[g][i]] # "absent"
      /\ ident[index[g][i]] = i

\* Conversely a process that serves finds every operation it knows through
\* its index, so no request it has answered before is executed again, unless
\* it has read several operations for it, of which the index names one.
IndexIsComplete ==
  \A g \in Gateway, o \in Op :
    Serving(g) /\ records[g][o] # "absent"
      => index[g][ident[o]] = o \/ ident[o] \in clashing[g]

\* One step of MemoryTerminalOnce; the records of a process that ends go with it.
MemoryKeepsTerminal ==
  \A g \in Gateway, o \in Op :
    records[g][o] \in Terminal /\ phase'[g] # "exited"
      => records'[g][o] \in {records[g][o], "absent"}

\* The code that decides (task, shutdown, recovery) never changes a terminal
\* state that a process has recorded in memory; only the TTL removes it.
MemoryTerminalOnce == [][MemoryKeepsTerminal]_vars

\* A record that says running has a task that is going to settle it, so
\* active_workspace_ids protects a workspace neither too long nor too briefly:
\* nothing is left running by recovery, by a replayed start or by a prune.
RunningHasTask ==
  \A g \in Gateway, o \in Op :
    phase[g] \in {"serving", "stopping"} /\ records[g][o] = "running"
      => owner[o] = g /\ pc[o] \in Live

\* shutdown returns only when every operation of the process is terminal,
\* whether its task ended, was cancelled in _run or in one of its handlers,
\* or is still holding the lock.
ShutdownSettlesAll ==
  \A o \in Op :
    Owned(o) /\ phase[owner[o]] \in {"released", "closing"}
      => records[owner[o]][o] \in Terminal \cup {"absent"}

\* When the task has returned and no thread is writing, the state file says
\* what memory says, unless a write failed or was abandoned.
DiskAgreesAtRest ==
  \A o \in Op :
    Attended(o) /\ pc[o] = "done" /\ writes[o] = {} /\ o \notin torn \cup pruned
      => disk[o] = records[owner[o]][o]

Unsettled(o) == Owned(o) /\ records[owner[o]][o] = "running"

\* Every operation reaches a terminal state, or its process ends: no lock
\* handed over to a cancelled reader, no shutdown loop and no cancellation
\* leaves a command running for ever.
EveryOperationSettles == \A o \in Op : Unsettled(o) ~> ~Unsettled(o)

\* A process that begins to shut down ends.
ShutdownCompletes ==
  \A g \in Gateway : (phase[g] = "stopping") ~> (phase[g] = "exited")

-----------------------------------------------------------------------------
(* Statements of the project's documents that the code does not keep.      *)

\* PLAN.md 5.2 (line 221): the same key and request give the same operation.
\* Two processes that overlap, or a state file that cannot be read, break it.
SameRequestSameOperation ==
  \A o, p \in Op :
    Owned(o) /\ Owned(p) /\ ident[o] = ident[p] /\ o # p
      => o \in pruned \/ p \in pruned

\* PLAN.md 12.2: the terminal transition happens only once.  Here for the
\* state file, which is what a restarted gateway and its clients see.
DurableTerminalOnce ==
  [][\A o \in Op :
       disk[o] \in Terminal => disk'[o] \in {disk[o], "absent"}]_vars
=============================================================================
