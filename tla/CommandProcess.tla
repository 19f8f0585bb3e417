--------------------------- MODULE CommandProcess ---------------------------
(***************************************************************************)
(* One command of a workspace as an operating-system process: the body of  *)
(* _run in src/app/workspace/operations.py with the helpers that await its *)
(* start-up stages, on Windows, where a Job Object owns the process tree.  *)
(*                                                                         *)
(* The Job Object is created in a worker thread, PowerShell is created     *)
(* behind a gate (it waits for a ready file), a thread assigns it to the   *)
(* job, and a thread writes the ready file.  Each stage is awaited only    *)
(* until the operation's deadline; a stage that is late, or whose task is  *)
(* cancelled, goes on by itself and is cleaned up by a callback.           *)
(*                                                                         *)
(* Two assumptions: the kills take effect (TerminateJobObject, taskkill and*)
(* proc.kill are not all refused), and if taskkill cannot be started it is *)
(* because there is none.  Any other error of its creation would leave     *)
(* _terminate_process_tree, and the handler that called it, before the     *)
(* state is recorded (README.md, section 4).  Everything else may fail or  *)
(* be late.                                                                *)
(***************************************************************************)
EXTENDS Naturals

VARIABLES
  alive,       \* the gateway process
  pc,          \* where _run stands
  stage,       \* the awaited call of the current start-up stage
  lateSpawn,   \* create_subprocess_exec was abandoned and still runs
  lateAssign,  \* the assignment thread was abandoned and still runs
  lateReady,   \* the thread writing the ready file was abandoned
  job,         \* the Job Object's handle
  runtimeJob,  \* runtime.job is not None
  known,       \* runtime.process is not None
  shell,       \* the PowerShell process
  child,       \* a descendant of the script is alive
  inJob,       \* the shell, and so its descendants, belong to the job
  ready,       \* the ready file exists
  expired,     \* the monotonic deadline has passed
  cancelSet, shutdownSet,
  cancelled,   \* task.cancel() was called and is not yet delivered
  verdict,     \* what the task is about to record
  record       \* the state of the operation

vars == <<alive, pc, stage, lateSpawn, lateAssign, lateReady, job, runtimeJob,
          known, shell, child, inJob, ready, expired, cancelSet, shutdownSet,
          cancelled, verdict, record>>

late    == <<lateSpawn, lateAssign, lateReady>>
tree    == <<shell, child, inJob>>
request == <<expired, cancelSet, shutdownSet>>

\* "start_failed" is the state failed with an error code other than
\* command_failed; "exited" stands for succeeded and for command_failed.
Terminal == {"exited", "timed_out", "canceled", "interrupted", "start_failed"}
Stages   == {"createJob", "spawn", "assign", "publish"}

TypeOK ==
  /\ alive \in BOOLEAN
  /\ pc \in Stages \cup {"watch", "finish", "handle", "ending", "done", "aborted"}
  /\ stage \in {"running", "ok", "error"}
  /\ lateSpawn \in BOOLEAN /\ lateAssign \in BOOLEAN /\ lateReady \in BOOLEAN
  /\ job \in {"none", "open", "closed"}
  /\ runtimeJob \in BOOLEAN /\ known \in BOOLEAN
  /\ shell \in {"none", "gated", "script", "gone"}
  /\ child \in BOOLEAN /\ inJob \in BOOLEAN /\ ready \in BOOLEAN
  /\ expired \in BOOLEAN /\ cancelSet \in BOOLEAN /\ shutdownSet \in BOOLEAN
  /\ cancelled \in BOOLEAN
  /\ verdict \in Terminal \cup {"none"}
  /\ record \in Terminal \cup {"running"}

Init ==
  /\ alive = TRUE
  /\ pc = "createJob"
  /\ stage = "running"
  /\ lateSpawn = FALSE /\ lateAssign = FALSE /\ lateReady = FALSE
  /\ job = "none" /\ runtimeJob = FALSE /\ known = FALSE
  /\ shell = "none" /\ child = FALSE /\ inJob = FALSE
  /\ ready = FALSE
  /\ expired = FALSE /\ cancelSet = FALSE /\ shutdownSet = FALSE
  /\ cancelled = FALSE
  /\ verdict = "none"
  /\ record = "running"

-----------------------------------------------------------------------------
(* What the operating system does to the process tree.                     *)

ShellAlive == shell \in {"gated", "script"}

JobLeftAlone == UNCHANGED <<shell, child>>
\* TerminateJobObject through an open handle kills every member.
JobKill ==
  /\ shell' = IF inJob /\ job = "open" /\ ShellAlive THEN "gone" ELSE shell
  /\ child' = (child /\ ~(inJob /\ job = "open"))

\* _terminate_process_tree(proc, job): the job's members when a job is
\* given, taskkill /T for the tree below a living shell, then proc.kill.
TreeKill(withJob) ==
  /\ shell' = IF shell = "none" THEN "none" ELSE "gone"
  /\ child' = (child /\ ~ShellAlive /\ ~(withJob /\ inJob /\ job = "open"))

-----------------------------------------------------------------------------
(* The stages of the start-up, each awaited before the deadline.           *)

Running(at) == alive /\ pc = at /\ ~cancelled

\* WindowsJob() returns or raises; AssignProcessToJobObject needs a living
\* shell; write_text may create the file and still raise.
StageEnds ==
  /\ alive /\ pc \in Stages /\ stage = "running"
  /\ stage' \in {"ok", "error"}
  /\ job' = IF pc = "createJob" /\ stage' = "ok" THEN "open" ELSE job
  /\ shell' = IF pc = "spawn" /\ stage' = "ok" THEN "gated" ELSE shell
  /\ inJob' = (inJob \/ (pc = "assign" /\ stage' = "ok" /\ job = "open"))
  /\ (pc = "assign" /\ stage' = "ok") => (job # "open" \/ ShellAlive)
  /\ ready' \in IF pc # "publish" THEN {ready}
                ELSE IF stage' = "ok" /\ shell = "gated" THEN {TRUE}
                ELSE {ready, TRUE}
  /\ UNCHANGED <<alive, pc, late, runtimeJob, known, child, request, cancelled,
                 verdict, record>>

\* The result arrives in time: runtime.job and runtime.process are set, and
\* the next stage starts.  After the assignment the deadline is looked at
\* before the ready file is written.
StageSucceeds ==
  /\ pc \in Stages /\ Running(pc) /\ stage = "ok"
  /\ IF pc = "assign" /\ expired
     THEN /\ pc' = "handle" /\ verdict' = "timed_out"
          /\ UNCHANGED stage
     ELSE /\ pc' = CASE pc = "createJob" -> "spawn" [] pc = "spawn" -> "assign"
                     [] pc = "assign" -> "publish"  [] pc = "publish" -> "watch"
          /\ stage' = "running"
          /\ UNCHANGED verdict
  /\ runtimeJob' = (runtimeJob \/ pc = "createJob")
  /\ known' = (known \/ pc = "spawn")
  /\ UNCHANGED <<alive, late, job, tree, ready, request, cancelled, record>>

\* The stage raised.  A failed assignment terminates the gated shell before
\* the error is reported; the other errors go straight to the handler.
StageFails ==
  /\ pc \in Stages /\ Running(pc) /\ stage = "error"
  /\ IF pc = "assign" THEN TreeKill(TRUE) ELSE UNCHANGED <<shell, child>>
  /\ pc' = "handle"
  /\ verdict' = "start_failed"
  /\ UNCHANGED <<alive, stage, late, job, runtimeJob, known, inJob, ready,
                 request, cancelled, record>>

\* What _await_before_deadline leaves behind: the call goes on, and a
\* callback is registered for its result.  An assignment that is abandoned
\* also takes the job away from the runtime and kills the gated shell.
Abandon ==
  /\ lateSpawn' = (pc = "spawn" /\ stage # "error")
  /\ lateAssign' = (pc = "assign")
  /\ lateReady' = (pc = "publish" /\ stage = "running")
  /\ IF pc = "assign"
     THEN runtimeJob' = FALSE /\ TreeKill(TRUE)
     ELSE UNCHANGED <<runtimeJob, shell, child>>
  \* close_late_job: a job that is created, or will be, is closed at once.
  /\ job' = IF pc = "createJob" /\ stage = "ok" THEN "closed" ELSE job

AllButSpawn == Stages \ {"spawn"}
Timed == Stages

StageTimesOut ==
  /\ pc \in Timed /\ Running(pc)
  /\ expired /\ stage = "running"
  /\ Abandon
  /\ pc' = "handle"
  /\ verdict' = "timed_out"
  /\ UNCHANGED <<alive, stage, known, inJob, ready, request, cancelled, record>>

LateSpawnIgnored ==
  /\ alive /\ lateSpawn
  /\ shell' \in {shell, "gated"}
  /\ lateSpawn' = FALSE
  /\ UNCHANGED <<alive, pc, stage, lateAssign, lateReady, job, runtimeJob,
                 known, child, inJob, ready, request, cancelled, verdict, record>>
\* terminate_late_process: the process that appears after all is killed by a
\* background task.
LateSpawnEnds ==
  /\ alive /\ lateSpawn
  /\ shell' \in IF shell = "none" THEN {"none", "gated"} ELSE {"gone"}
  /\ lateSpawn' = (shell' = "gated")
  /\ UNCHANGED <<alive, pc, stage, lateAssign, lateReady, job, runtimeJob,
                 known, child, inJob, ready, request, cancelled, verdict, record>>

CloseForgotten == job' = job
CloseLate == job' = "closed"

\* finish_late_assignment: whatever the thread did, the job is terminated,
\* which reaches the shell if it is a member, and closed.
LateAssignEnds ==
  /\ alive /\ lateAssign
  /\ lateAssign' = FALSE
  /\ JobKill
  /\ CloseLate
  /\ UNCHANGED <<alive, pc, stage, lateSpawn, lateReady, runtimeJob, known,
                 inJob, ready, request, cancelled, verdict, record>>

LateReadyEnds ==
  /\ alive /\ lateReady
  /\ lateReady' = FALSE
  /\ ready' \in {ready, TRUE}
  /\ UNCHANGED <<alive, pc, stage, lateSpawn, lateAssign, job, runtimeJob,
                 known, tree, request, cancelled, verdict, record>>

-----------------------------------------------------------------------------
(* The shell.                                                              *)

\* The ready file is there before the thread that writes it has returned.
ReadyAppears ==
  /\ alive /\ ~ready
  /\ lateReady \/ (pc = "publish" /\ stage = "running")
  /\ ready' = TRUE
  /\ UNCHANGED <<alive, pc, stage, late, job, runtimeJob, known, tree, request,
                 cancelled, verdict, record>>

\* The gate: the ready file is seen and removed, and the script begins.
GateOpens ==
  /\ shell = "gated" /\ ready
  /\ shell' = "script"
  /\ ready' \in {FALSE, TRUE}
  /\ UNCHANGED <<alive, pc, stage, late, job, runtimeJob, known, child, inJob,
                 request, cancelled, verdict, record>>

ScriptForks ==
  /\ shell = "script"
  /\ child' = TRUE
  /\ UNCHANGED <<alive, pc, stage, late, job, runtimeJob, known, shell, inJob,
                 ready, request, cancelled, verdict, record>>

\* The shell may end by itself at any time, with or without its descendants.
ShellExits ==
  /\ ShellAlive
  /\ shell' = "gone"
  /\ UNCHANGED <<alive, pc, stage, late, job, runtimeJob, known, child, inJob,
                 ready, request, cancelled, verdict, record>>

-----------------------------------------------------------------------------
(* The deadline, the requests and the rest of the task.                    *)

DeadlinePasses ==
  /\ alive /\ ~expired
  /\ expired' = TRUE
  /\ UNCHANGED <<alive, pc, stage, late, job, runtimeJob, known, tree, ready,
                 cancelSet, shutdownSet, cancelled, verdict, record>>

Requested ==
  /\ alive /\ record = "running"
  /\ \/ cancelSet' = TRUE /\ UNCHANGED shutdownSet
     \/ shutdownSet' = TRUE /\ UNCHANGED cancelSet
  /\ UNCHANGED <<alive, pc, stage, late, job, runtimeJob, known, tree, ready,
                 expired, cancelled, verdict, record>>

\* asyncio.wait returns some of what has happened; _run looks at the exit,
\* then the cancellation, then the shutdown, then the deadline.  After an
\* exit the job is terminated for the descendants' sake.
Watch ==
  LET happened == (IF ShellAlive THEN {} ELSE {"exited"})
                    \cup (IF cancelSet THEN {"canceled"} ELSE {})
                    \cup (IF shutdownSet THEN {"interrupted"} ELSE {})
                    \cup (IF expired THEN {"timed_out"} ELSE {})
      rank == [v \in Terminal |-> CASE v = "exited" -> 1 [] v = "canceled" -> 2
                                    [] v = "interrupted" -> 3 [] OTHER -> 4]
  IN
  /\ Running("watch")
  /\ \E seen \in SUBSET happened : \E v \in seen :
       /\ \A u \in seen : rank[v] <= rank[u]
       /\ verdict' = v
       /\ IF v # "exited" THEN TreeKill(runtimeJob)
          ELSE IF runtimeJob THEN JobKill ELSE UNCHANGED <<shell, child>>
  /\ pc' = "finish"
  /\ UNCHANGED <<alive, stage, late, job, runtimeJob, known, inJob, ready,
                 request, cancelled, record>>

RecordedOrCleared == record' = IF record = "running" THEN verdict ELSE "none"
\* _finish records the first terminal state only.
Recorded == record' = IF record = "running" THEN verdict ELSE record

Finish ==
  /\ Running("finish")
  /\ Recorded
  /\ pc' = "ending"
  /\ UNCHANGED <<alive, stage, late, job, runtimeJob, known, tree, ready,
                 request, cancelled, verdict>>

\* proc.returncode is None as long as the exit of the shell is unknown to the
\* event loop, which may learn of it late.
Unreaped == {ShellAlive, TRUE}

\* The exception handlers kill the tree before they record: the cancellation's
\* always, the deadline's unless the shell has exited; the one for other
\* errors only records.
Handle ==
  /\ Running("handle")
  /\ \E unreaped \in Unreaped :
       IF \/ verdict = "interrupted" /\ known
          \/ verdict = "timed_out" /\ known /\ unreaped
       THEN TreeKill(runtimeJob) ELSE UNCHANGED <<shell, child>>
  /\ Recorded
  /\ pc' = "ending"
  /\ UNCHANGED <<alive, stage, late, job, runtimeJob, known, inJob, ready,
                 request, cancelled, verdict>>

\* finally: kill a shell that is left, unlink the ready file, close the job.
\* unlink raises while a thread or another program has the file open, and the
\* rest is skipped.
Ending ==
  LET kill == known /\ ShellAlive
      last == runtimeJob /\ job = "open"
  IN
  /\ Running("ending")
  /\ \/ /\ shell' = IF kill \/ (last /\ inJob /\ ShellAlive) THEN "gone" ELSE shell
        /\ child' = (child /\ ~kill /\ ~(last /\ inJob))
        /\ ready' = FALSE
        /\ job' = IF last THEN "closed" ELSE job
        /\ pc' = "done"
     \/ /\ \E unreaped \in Unreaped :
             IF known /\ unreaped THEN TreeKill(runtimeJob)
             ELSE UNCHANGED <<shell, child>>
        /\ pc' = "aborted"
        /\ UNCHANGED <<ready, job>>
  /\ UNCHANGED <<alive, stage, late, runtimeJob, known, inJob, request,
                 cancelled, verdict, record>>

TaskLeftRunning == cancelled' = cancelled
CancelTask == cancelled' = TRUE

\* shutdown's loop: cancel the task, terminate and close its job, _finish.
ShutdownForces ==
  /\ alive /\ shutdownSet
  /\ pc \notin {"done", "aborted"}
  /\ CancelTask
  /\ IF runtimeJob THEN JobKill /\ job' = (IF job = "open" THEN "closed" ELSE job)
     ELSE UNCHANGED <<shell, child, job>>
  /\ record' = IF record = "running" THEN "interrupted" ELSE record
  /\ UNCHANGED <<alive, pc, stage, late, runtimeJob, known, inJob, ready,
                 request, verdict>>

\* CancelledError at the current await: a stage is abandoned as at the
\* deadline, and the handler kills and records; raised in a handler it goes
\* to the finally clause, and there it ends the task.
CancelDelivered ==
  /\ alive /\ cancelled /\ pc \notin {"done", "aborted"}
  /\ cancelled' = FALSE
  /\ IF pc \in Stages THEN Abandon
     ELSE UNCHANGED <<late, runtimeJob, shell, child, job>>
  /\ pc' = CASE pc \in Stages \cup {"watch", "finish"} -> "handle"
             [] pc = "handle" -> "ending"
             [] pc = "ending" -> "aborted"
  /\ verdict' = IF pc \in Stages \cup {"watch", "finish"} THEN "interrupted"
                ELSE verdict
  /\ UNCHANGED <<alive, stage, known, inJob, ready, request, record>>

\* The gateway is killed: threads and coroutines are gone, and the handle is
\* closed by the system, which kills the members of the job.
Crash ==
  /\ alive
  /\ alive' = FALSE
  /\ shell' = IF inJob /\ job = "open" /\ ShellAlive THEN "gone" ELSE shell
  /\ child' = (child /\ ~(inJob /\ job = "open"))
  /\ job' = IF job = "open" THEN "closed" ELSE job
  /\ lateSpawn' = FALSE /\ lateAssign' = FALSE /\ lateReady' = FALSE
  /\ cancelled' = FALSE
  /\ UNCHANGED <<pc, stage, runtimeJob, known, inJob, ready, request, verdict,
                 record>>

-----------------------------------------------------------------------------
TaskStep == StageSucceeds \/ StageFails \/ StageTimesOut \/ Watch \/ Finish
              \/ Handle \/ Ending \/ CancelDelivered

LateEnds == LateSpawnEnds \/ LateAssignEnds \/ LateReadyEnds

Next == \/ TaskStep \/ StageEnds \/ LateEnds
        \/ ReadyAppears \/ GateOpens \/ ScriptForks \/ ShellExits
        \/ DeadlinePasses \/ Requested \/ ShutdownForces \/ Crash

Spec == Init /\ [][Next]_vars

\* The event loop runs the task and time passes; no stage has to end.
TimedSpec == Spec /\ WF_vars(TaskStep) /\ WF_vars(DeadlinePasses)

-----------------------------------------------------------------------------
(* Properties.                                                             *)

\* The ready gate: a script executes only in a shell that belongs to an open
\* kill-on-close Job Object, so no crash of the gateway and no order of
\* abandoned stages leaves a script running outside its job.
ScriptOnlyUnderJob == (shell = "script" \/ child) => inJob /\ job = "open"

\* When a command is reported exited, canceled, interrupted or timed out its
\* script no longer runs, and unless it timed out its descendants do not
\* either: the tree is terminated before the terminal state is recorded, in
\* every exit of _run and in shutdown.  PLAN.md 11.2 demands it of every
\* terminal state; two orders of the code fall short and are excluded here:
\* start-up errors, recorded before the finally clause terminates the process,
\* and a deadline during the start-up that finds the shell gone and so leaves
\* its descendants to the closing of the job.
QuietWhenTerminal ==
  /\ record \in Terminal \ {"start_failed"} => shell # "script"
  /\ record \in Terminal \ {"start_failed", "timed_out"} => ~child

\* The deadline covers every stage: even when a thread or the creation of the
\* process never returns, the operation becomes terminal (or the gateway ends).
DeadlineCoversStartup == (record = "running") ~> (record # "running" \/ ~alive)

\* Once the task has returned, no process of the command remains, including
\* one that the system creates after the operation has timed out, if that
\* creation ends at all.
NothingSurvives ==
  WF_vars(LateSpawnEnds) =>
    ((pc = "done" /\ alive)
       ~> (~alive \/ (shell \in {"none", "gone"} /\ ~child)))

\* A task that ran its finally clause to the end leaves no open job handle,
\* neither through runtime.job nor through the abandoned assignment that took
\* the job out of runtime.job, if that thread ends at all.
JobIsClosed ==
  WF_vars(LateAssignEnds) => ((pc = "done") ~> (job # "open"))

\* PLAN.md 11.2: a finished operation leaves nothing behind, neither a process
\* of the command nor its job.
NothingLeft == NothingSurvives /\ JobIsClosed
=============================================================================
