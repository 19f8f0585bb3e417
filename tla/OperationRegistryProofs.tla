----------------------- MODULE OperationRegistryProofs -----------------------
(***************************************************************************)
(* Theorems about OperationRegistry for every value of its constants:      *)
(* any number of operations, overlapping processes and requests, with or   *)
(* without write faults.  The first part is about the memory of the        *)
(* processes; the second one, from MutexHeld on, about what outlives them: *)
(* the state files, the index that is rebuilt from those that can be read, *)
(* and the ledger that every process presents to its clients.              *)
(***************************************************************************)
EXTENDS RegistryRefinement, TLAPS

\* The phases in which a process runs coroutines.
Attending == {"serving", "stopping", "forcing", "released", "closing"}

\* Nothing exists of an operation before start has registered it, and
\* nothing is in the memory of a process that is not there.
FreshOps ==
  \A o \in Op :
    /\ pc[o] = "none" <=> owner[o] = None
    /\ \A g \in Gateway : phase[g] \in {"off", "loaded"} => owner[o] # g
    /\ owner[o] = None =>
         /\ disk[o] = "absent"
         /\ writes[o] = {}
         /\ \A g \in Gateway : records[g][o] = "absent"

EmptyMemory ==
  \A g \in Gateway : phase[g] \in {"off", "exited"} =>
    /\ \A o \in Op : records[g][o] = "absent"
    /\ \A i \in Index : index[g][i] = None

\* A task that has not returned belongs to a process that runs and knows the
\* operation; one that is about to record has something to record.
TaskAlive ==
  \A o \in Op :
    /\ pc[o] \notin {"none", "done", "dead"} =>
         /\ phase[owner[o]] \in Attending
         /\ records[owner[o]][o] # "absent"
    /\ pc[o] \in {"settle", "finish", "handler"} => verdict[o] \in Terminal

\* So does a reader; as long as requests are served it ends before the task.
ReadersAlive ==
  \A o \in Op : readers[o] =>
    /\ owner[o] # None
    /\ phase[owner[o]] \in Attending
    /\ records[owner[o]][o] # "absent"
    /\ phase[owner[o]] \in {"serving", "stopping"} => pc[o] \in {"watch", "settle"}

\* The task's own thread exists only while the task awaits it.
TaskThread ==
  \A o \in Op :
    /\ \A w \in writes[o] : w.by = "task" => pc[o] = "commit"
    /\ \A v, w \in writes[o] : v.by = "task" /\ w.by = "task" => v = w

\* Tasks are cancelled by shutdown and by the closing of the loop only.
CancelledLate ==
  \A o \in Op :
    cancelled[o] => owner[o] # None /\ phase[owner[o]] \in {"forcing", "released", "closing"}

\* RunningHasTask, without the state in which the task has just recorded.
RunningIsLive ==
  \A g \in Gateway, o \in Op :
    phase[g] \in {"serving", "stopping"} /\ records[g][o] = "running"
      => owner[o] = g /\ pc[o] \in Live \ {"commit"}

\* While shutdown's loop runs, it still has to visit what is running, and
\* what it is writing is not running.
ForcedLoop ==
  \A o \in Op :
    owner[o] # None =>
      /\ phase[owner[o]] = "forcing" /\ records[owner[o]][o] = "running"
           => forced[o] \in {"queued", "waiting"}
      /\ phase[owner[o]] \in {"released", "closing"} => records[owner[o]][o] # "running"
      /\ \A w \in writes[o] : w.by = "shutdown" => records[owner[o]][o] # "running"

IInv ==
  /\ TypeOK
  /\ FreshOps
  /\ EmptyMemory
  /\ TaskAlive
  /\ ReadersAlive
  /\ TaskThread
  /\ CancelledLate
  /\ RunningIsLive
  /\ ForcedLoop
  /\ IndexNeverDangles
-----------------------------------------------------------------------------
\* An operation that start has registered belongs to a process.
LEMMA OwnerKnown ==
  ASSUME TypeOK, FreshOps, NEW o \in Op, pc[o] # "none"
  PROVE  owner[o] \in Gateway
  BY DEF TypeOK, FreshOps

\* Cancelling a coroutine turns its thread into an orphan: a write still.
LEMMA AbandonType ==
  ASSUME TypeOK, NEW o \in Op, NEW h \in Holder
  PROVE  Abandon(o, h) \in SUBSET Write
<1>1. writes[o] \in SUBSET Write
  BY DEF TypeOK
<1> QED
  BY <1>1 DEF Abandon, Write, Holder

\* What a process has after it has read the state files.
LoadEffect(g) ==
  /\ phase[g] = "off" /\ phase' = [phase EXCEPT ![g] = "loaded"]
  /\ records' \in [Gateway -> [Op -> State \cup {"absent"}]]
  /\ index' \in [Gateway -> [Index -> Op \cup {None}]]
  /\ blind' \in [Gateway -> SUBSET Op]
  /\ clashing' \in [Gateway -> SUBSET Index]
  /\ \A h \in Gateway \ {g} : /\ records'[h] = records[h] /\ index'[h] = index[h]
                              /\ blind'[h] = blind[h] /\ clashing'[h] = clashing[h]
  /\ \A o \in Op : records'[g][o] \in {disk[o], "absent"}
  /\ \A o \in Op : disk[o] # "absent" => records'[g][o] # "absent" \/ o \in blind'[g]
  /\ \A i \in Index : index'[g][i] # None =>
       records'[g][index'[g][i]] # "absent" /\ ident[index'[g][i]] = i
  /\ \A o \in Op : records'[g][o] # "absent" /\ ident[o] \in Index \ clashing'[g]
                     => index'[g][ident[o]] = o
  /\ UNCHANGED <<mutex, disk, writes, pc, verdict, readers, cancelSet, shutdownSet,
                 cancelled, forced, ident, owner, pruned, torn>>

LEMMA LoadFacts ==
  ASSUME TypeOK, NEW g \in Gateway, Load(g)
  PROVE  LoadEffect(g)
<1>1. PICK read \in SUBSET Stored, f \in [Index -> Op \cup {None}] :
        /\ records' = [records EXCEPT
             ![g] = [o \in Op |-> IF o \in read THEN disk[o] ELSE "absent"]]
        /\ IndexesDisk(f, read)
        /\ index' = [index EXCEPT ![g] = f]
        /\ blind' = [blind EXCEPT ![g] = Stored \ read]
        /\ clashing' = [clashing EXCEPT ![g] = Doubled(read)]
  BY DEF Load
<1>2. read \subseteq Op /\ Doubled(read) \subseteq Index /\ Stored \subseteq Op
  BY DEF Stored, Doubled
<1>3. /\ records' \in [Gateway -> [Op -> State \cup {"absent"}]]
      /\ index' \in [Gateway -> [Index -> Op \cup {None}]]
      /\ blind' \in [Gateway -> SUBSET Op] /\ clashing' \in [Gateway -> SUBSET Index]
  BY <1>1, <1>2 DEF TypeOK
<1>4. \A h \in Gateway \ {g} : /\ records'[h] = records[h] /\ index'[h] = index[h]
                               /\ blind'[h] = blind[h] /\ clashing'[h] = clashing[h]
  BY <1>1 DEF TypeOK
<1>5. /\ \A o \in Op : records'[g][o] = IF o \in read THEN disk[o] ELSE "absent"
      /\ index'[g] = f /\ blind'[g] = Stored \ read /\ clashing'[g] = Doubled(read)
  BY <1>1 DEF TypeOK
<1>6. \A o \in Op : records'[g][o] # "absent" <=> o \in read
  BY <1>5 DEF Stored
<1>7. ASSUME NEW i \in Index, f[i] # None PROVE f[i] \in read /\ ident[f[i]] = i
  BY <1>1, <1>7 DEF IndexesDisk
<1>8. ASSUME NEW o \in read, ident[o] \in Index \ Doubled(read) PROVE f[ident[o]] = o
  <2>1. f[ident[o]] \in {p \in read : ident[p] = ident[o]}
    BY <1>1, <1>8 DEF IndexesDisk
  <2> QED
    BY <1>8, <2>1 DEF Doubled
<1>9. /\ phase[g] = "off" /\ phase' = [phase EXCEPT ![g] = "loaded"]
      /\ UNCHANGED <<mutex, disk, writes, pc, verdict, readers, cancelSet, shutdownSet,
                     cancelled, forced, ident, owner, pruned, torn>>
  BY DEF Load, task, signals
<1>10. \A o \in Op : disk[o] # "absent" => records'[g][o] # "absent" \/ o \in blind'[g]
  BY <1>5, <1>6 DEF Stored
<1>11. \A i \in Index : index'[g][i] # None =>
         records'[g][index'[g][i]] # "absent" /\ ident[index'[g][i]] = i
  BY <1>2, <1>5, <1>6, <1>7
<1>12. \A o \in Op : records'[g][o] # "absent" /\ ident[o] \in Index \ clashing'[g]
                       => index'[g][ident[o]] = o
  BY <1>5, <1>6, <1>8
<1> QED
  BY <1>3, <1>4, <1>5, <1>9, <1>10, <1>11, <1>12 DEF LoadEffect

\* The _finish of shutdown writes records, threads and progress of their types.
LEMMA ForcedFinishType ==
  ASSUME TypeOK, NEW g \in Gateway, NEW o \in Op, ForcedFinish(g, o)
  PROVE  /\ records' \in [Gateway -> [Op -> State \cup {"absent"}]]
         /\ writes' \in [Op -> SUBSET Write]
         /\ forced' \in [Op -> {"no", "queued", "waiting", "writing", "done"}]
<1>1. CASE UNCHANGED <<records, writes>> /\ forced' = [forced EXCEPT ![o] = "done"]
  BY <1>1 DEF TypeOK
<1>2. CASE /\ records' = [records EXCEPT ![g][o] = "interrupted"]
           /\ writes' = [writes EXCEPT
                ![o] = @ \cup {[state |-> "interrupted", by |-> "shutdown"]}]
           /\ forced' = [forced EXCEPT ![o] = "writing"]
  <2>1. [state |-> "interrupted", by |-> "shutdown"] \in Write
    BY DEF Write, Holder, State, Terminal
  <2>2. records[g] \in [Op -> State \cup {"absent"}]
    BY DEF TypeOK
  <2>3. "interrupted" \in State
    BY DEF State, Terminal
  <2>4. records' \in [Gateway -> [Op -> State \cup {"absent"}]]
    BY <1>2, <2>2, <2>3 DEF TypeOK
  <2>5. writes' \in [Op -> SUBSET Write]
    BY <1>2, <2>1 DEF TypeOK
  <2> QED
    BY <1>2, <2>4, <2>5 DEF TypeOK
<1> QED
  BY <1>1, <1>2 DEF ForcedFinish

\* What the end of process g leaves of operation o.
VanishEffect(g, o) ==
  /\ UNCHANGED <<owner, ident>>
  /\ readers'[o] => readers[o] /\ owner[o] # g
  /\ cancelled'[o] => cancelled[o] /\ owner[o] # g
  /\ owner[o] # g => pc'[o] = pc[o]
  /\ \A h \in Gateway \ {g} : /\ phase'[h] = phase[h]
                              /\ records'[h] = records[h]

\* Every way a process ends has this effect on an operation.
LEMMA VanishFacts ==
  ASSUME TypeOK, NEW g \in Gateway, NEW o \in Op, Vanish(g)
  PROVE  VanishEffect(g, o)
<1>1. readers'[o] => readers[o] /\ owner[o] # g
  BY Zenon DEF Vanish
<1>2. cancelled'[o] => cancelled[o] /\ owner[o] # g
  BY Zenon DEF Vanish
<1>3. owner[o] # g => pc'[o] = pc[o]
  BY DEF Vanish, Busy, OwnedBy
<1> QED
  BY <1>1, <1>2, <1>3 DEF Vanish, VanishEffect, TypeOK, history

\* What shutdown's _finish does to operation o.
ForcedFinishEffect(g, o) ==
  /\ records[g][o] # "absent"
  /\ records'[g][o] \in Terminal
  /\ records[g][o] \in Terminal => records'[g][o] = records[g][o]
  /\ \A h \in Gateway, p \in Op :
       h # g \/ p # o => records'[h][p] = records[h][p]
  /\ \A p \in Op \ {o} : writes'[p] = writes[p] /\ forced'[p] = forced[p]
  /\ \A w \in writes'[o] : w \in writes[o] \/ w.by = "shutdown"
  /\ writes[o] \subseteq writes'[o]
  /\ forced'[o] \in {"writing", "done"}

\* The _finish of shutdown has this effect on the operation it visits.
LEMMA ForcedFinishFacts ==
  ASSUME TypeOK, NEW g \in Gateway, NEW o \in Op, ForcedFinish(g, o)
  PROVE  ForcedFinishEffect(g, o)
<1>1. CASE /\ records[g][o] \in Terminal
           /\ UNCHANGED <<records, writes>>
           /\ forced' = [forced EXCEPT ![o] = "done"]
  BY <1>1 DEF ForcedFinishEffect, TypeOK, Terminal
<1>2. CASE /\ records[g][o] = "running"
           /\ records' = [records EXCEPT ![g][o] = "interrupted"]
           /\ writes' = [writes EXCEPT
                ![o] = @ \cup {[state |-> "interrupted", by |-> "shutdown"]}]
           /\ forced' = [forced EXCEPT ![o] = "writing"]
  BY <1>2 DEF ForcedFinishEffect, TypeOK, Terminal
<1> QED
  BY <1>1, <1>2 DEF ForcedFinish

\* What the task's _finish does to operation o.
FinishEffect(o) ==
  /\ owner[o] \in Gateway
  /\ pc[o] \in {"finish", "handler"}
  /\ pc'[o] \in {"ending", "commit"}
  /\ records[owner[o]][o] # "absent"
  /\ records'[owner[o]][o] \in Terminal
  /\ records[owner[o]][o] \in Terminal =>
       records'[owner[o]][o] = records[owner[o]][o]
  /\ \A h \in Gateway, p \in Op :
       h # owner[o] \/ p # o => records'[h][p] = records[h][p]
  /\ \A p \in Op \ {o} : writes'[p] = writes[p] /\ pc'[p] = pc[p]
  /\ \A w \in writes'[o] : w \in writes[o] \/ w.by = "task"

\* The _finish of a task has this effect on its operation.
LEMMA FinishFacts ==
  ASSUME TypeOK, FreshOps, TaskAlive, NEW o \in Op, Finish(o)
  PROVE  FinishEffect(o)
<1>1. /\ owner[o] \in Gateway
      /\ pc[o] \in {"finish", "handler"}
      /\ verdict[o] \in Terminal
  BY OwnerKnown DEF Finish, TaskAt, TaskAlive
<1>2. CASE /\ records[owner[o]][o] \in Terminal
           /\ pc' = [pc EXCEPT ![o] = "ending"]
           /\ UNCHANGED <<records, writes>>
  BY <1>1, <1>2 DEF FinishEffect, TypeOK, Terminal
<1>3. CASE /\ records[owner[o]][o] = "running"
           /\ records' = [records EXCEPT ![owner[o]][o] = verdict[o]]
           /\ writes' = [writes EXCEPT
                ![o] = @ \cup {[state |-> verdict[o], by |-> "task"]}]
           /\ pc' = [pc EXCEPT ![o] = "commit"]
  BY <1>1, <1>3 DEF FinishEffect, TypeOK, Terminal
<1> QED
  BY <1>1, <1>2, <1>3 DEF Finish

\* What a turn of shutdown's loop does to operation o.
ForceEffect(g, o) ==
  /\ phase[g] = "forcing"
  /\ owner[o] = g
  /\ UNCHANGED <<phase, index, disk, pc, verdict, readers, ident, owner>>
  /\ records'[g][o] = records[g][o] \/ records'[g][o] \in Terminal
  /\ records[g][o] \in Terminal => records'[g][o] = records[g][o]
  /\ records[g][o] = "absent" => records'[g][o] = "absent"
  /\ records'[g][o] = "absent" => records[g][o] = "absent"
  /\ records'[g][o] = "running" =>
       records[g][o] = "running" /\ forced'[o] = "waiting"
  /\ \A h \in Gateway, p \in Op :
       h # g \/ p # o => records'[h][p] = records[h][p]
  /\ \A p \in Op \ {o} : writes'[p] = writes[p] /\ forced'[p] = forced[p]
  /\ \A w \in writes'[o] : \/ w \in writes[o]
                           \/ w.by = "shutdown" /\ records'[g][o] # "running"

\* A turn of shutdown's loop, whether it waits for the lock or not, has this
\* effect.
LEMMA ForceFacts ==
  ASSUME TypeOK, NEW g \in Gateway, NEW o \in Op,
         ForceVisit(g, o) \/ ForceAcquire(g, o)
  PROVE  ForceEffect(g, o)
<1>1. CASE ForcedFinish(g, o)
  <2>1. /\ phase[g] = "forcing"
        /\ owner[o] = g
        /\ UNCHANGED <<phase, index, disk, pc, verdict, readers, ident, owner>>
    BY DEF ForceVisit, ForceAcquire, life, task, history
  <2> QED
    BY <1>1, <2>1, ForcedFinishFacts
       DEF ForcedFinishEffect, ForceEffect, Terminal
<1>2. CASE forced' = [forced EXCEPT ![o] = "waiting"] /\ UNCHANGED <<records, writes>>
  <2>1. /\ phase[g] = "forcing"
        /\ owner[o] = g
        /\ UNCHANGED <<phase, index, disk, pc, verdict, readers, ident, owner>>
    BY DEF ForceVisit, ForceAcquire, life, task, history
  <2>2. /\ forced'[o] = "waiting"
        /\ \A p \in Op \ {o} : forced'[p] = forced[p]
    BY <1>2 DEF TypeOK
  <2>3. records[g][o] \in State \cup {"absent"}
    BY DEF TypeOK
  <2> QED
    BY <1>2, <2>1, <2>2, <2>3 DEF ForceEffect
<1> QED
  BY <1>1, <1>2 DEF ForceVisit, ForceAcquire

-----------------------------------------------------------------------------
\* Every step keeps the types of the state.
LEMMA TypeStep == IInv /\ [Next]_vars => TypeOK'
<1> SUFFICES ASSUME IInv, [Next]_vars PROVE TypeOK'
  OBVIOUS
<1>1. ASSUME NEW g \in Gateway, Load(g) PROVE TypeOK'
  <2>1. LoadEffect(g)
    BY <1>1, LoadFacts DEF IInv
  <2> QED
    BY <2>1 DEF IInv, LoadEffect, TypeOK, Phase
<1>2. ASSUME NEW g \in Gateway, Acquire(g) PROVE TypeOK'
  BY <1>2
     DEF IInv, Acquire, Expired, PrunedRecords, PrunedIndex, PrunedDisk,
         RunningIn, TypeOK, Phase, State, Live, Holder, Write, Terminal,
         Attending, task, signals, history
<1>3. ASSUME NEW g \in Gateway, AcquireRefused(g) PROVE TypeOK'
  BY <1>3
     DEF IInv, AcquireRefused, Vanish, Busy, OwnedBy, TypeOK, Phase, Holder,
         Write, Attending, history
<1>4. ASSUME NEW g \in Gateway, RecoveryInterrupted(g) PROVE TypeOK'
  BY <1>4
     DEF IInv, RecoveryInterrupted, Vanish, Busy, OwnedBy, RunningIn, TypeOK,
         Phase, State, Live, Holder, Write, Terminal, Attending, history
<1>5. ASSUME NEW g \in Gateway, BeginShutdown(g) PROVE TypeOK'
  BY <1>5
     DEF IInv, BeginShutdown, Busy, OwnedBy, TypeOK, Phase, Holder, Write,
         Attending, registry, task, history
<1>6. ASSUME NEW g \in Gateway, ShutdownClean(g) PROVE TypeOK'
  BY <1>6
     DEF IInv, ShutdownClean, Busy, OwnedBy, TypeOK, Phase, Holder, Write,
         Attending, registry, task, signals, history
<1>7. ASSUME NEW g \in Gateway, ShutdownTimeout(g) PROVE TypeOK'
  BY <1>7
     DEF IInv, ShutdownTimeout, Busy, OwnedBy, TypeOK, Phase, Holder, Write,
         Attending, registry, task, history
<1>8. ASSUME NEW g \in Gateway, ForceDone(g) PROVE TypeOK'
  BY <1>8
     DEF IInv, ForceDone, OwnedBy, TypeOK, Phase, Holder, Write, Attending,
         registry, task, signals, history
<1>9. ASSUME NEW g \in Gateway, CloseLoop(g) PROVE TypeOK'
  BY <1>9
     DEF IInv, CloseLoop, Busy, OwnedBy, Abandon, TypeOK, Phase, Holder, Write,
         Attending, registry, history
<1>10. ASSUME NEW g \in Gateway, Exit(g) PROVE TypeOK'
  BY <1>10
     DEF IInv, Exit, Vanish, Busy, OwnedBy, TypeOK, Phase, Holder, Write,
         Attending, history
<1>11. ASSUME NEW g \in Gateway, Crash(g) PROVE TypeOK'
  BY <1>11
     DEF IInv, Crash, Vanish, Busy, OwnedBy, TypeOK, Phase, Holder, Write,
         Attending, history
<1>12. ASSUME NEW g \in Gateway, NEW o \in Op, ForceVisit(g, o) PROVE TypeOK'
  <2>1. CASE ForcedFinish(g, o)
    BY <1>12, <2>1, ForcedFinishType
       DEF IInv, ForceVisit, TypeOK, life, task, history
  <2>2. CASE forced' = [forced EXCEPT ![o] = "waiting"] /\ UNCHANGED <<records, writes>>
    BY <1>12, <2>2 DEF IInv, ForceVisit, TypeOK, life, task, history
  <2> QED
    BY <1>12, <2>1, <2>2 DEF ForceVisit
<1>13. ASSUME NEW g \in Gateway, NEW o \in Op, ForceAcquire(g, o) PROVE TypeOK'
  BY <1>13, ForcedFinishType
     DEF IInv, ForceAcquire, TypeOK, life, task, history
<1>14. ASSUME NEW g \in Gateway, NEW o \in Op, Cancel(g, o) PROVE TypeOK'
  BY <1>14
     DEF IInv, Cancel, Busy, OwnedBy, TypeOK, life, registry, task, history
<1>15. ASSUME NEW g \in Gateway, NEW i \in Index, StartReplays(g, i) PROVE TypeOK'
  BY <1>15
     DEF IInv, StartReplays, Expired, PrunedRecords, PrunedIndex, PrunedDisk,
         TypeOK, life, task, signals, history
<1>16. ASSUME NEW g \in Gateway, NEW i \in Index, StartFails(g, i) PROVE TypeOK'
  BY <1>16
     DEF IInv, StartFails, Expired, PrunedRecords, PrunedIndex, PrunedDisk,
         TypeOK, life, task, signals, history
<1>17. ASSUME NEW g \in Gateway, NEW i \in Index, NEW o \in Op, StartAccepted(g, i, o) PROVE TypeOK'
  <2>1. PICK gone \in SUBSET Expired(g), lost \in SUBSET Op :
          /\ records' = [records EXCEPT
               ![g] = [PrunedRecords(g, lost) EXCEPT ![o] = "running"]]
          /\ index' = [index EXCEPT
               ![g] = [PrunedIndex(g, lost) EXCEPT ![i] = o]]
          /\ disk' = FirstWrite(gone, o)
          /\ pruned' = pruned \cup gone
    BY <1>17 DEF StartAccepted, Expired
  <2>2. "running" \in State
    BY DEF State
  <2>3. [PrunedRecords(g, lost) EXCEPT ![o] = "running"] \in [Op -> State \cup {"absent"}]
    BY <2>2 DEF PrunedRecords, IInv, TypeOK
  <2>4. records' \in [Gateway -> [Op -> State \cup {"absent"}]]
    BY <2>1, <2>3 DEF IInv, TypeOK
  <2>5. [PrunedIndex(g, lost) EXCEPT ![i] = o] \in [Index -> Op \cup {None}]
    <3>1. index[g] \in [Index -> Op \cup {None}]
      BY DEF IInv, TypeOK
    <3> QED
      BY <3>1 DEF PrunedIndex
  <2>6. index' \in [Gateway -> [Index -> Op \cup {None}]]
    <3>1. index \in [Gateway -> [Index -> Op \cup {None}]]
      BY DEF IInv, TypeOK
    <3> QED
      BY <2>1, <2>5, <3>1
  <2>7. disk' \in [Op -> State \cup {"absent"}]
    BY <2>1, <2>2 DEF FirstWrite, PrunedDisk, IInv, TypeOK
  <2>8. pruned' \in SUBSET Op
    BY <2>1 DEF Expired, IInv, TypeOK
  <2>9. pc' \in [Op -> Live \cup {"none", "ending", "done", "dead"}]
    BY <1>17 DEF StartAccepted, Live, IInv, TypeOK
  <2>10. ident' \in [Op -> Index \cup {None}] /\ owner' \in [Op -> Gateway \cup {None}]
    BY <1>17 DEF StartAccepted, IInv, TypeOK
  <2> QED
    BY <1>17, <2>4, <2>6, <2>7, <2>8, <2>9, <2>10
       DEF StartAccepted, IInv, TypeOK, life, signals
<1>18. ASSUME NEW o \in Op, Startup(o) PROVE TypeOK'
  <2>1. pc' \in [Op -> Live \cup {"none", "ending", "done", "dead"}]
    BY <1>18 DEF Startup, Live, IInv, TypeOK
  <2>2. verdict' \in [Op -> Terminal \cup {None}]
    BY <1>18 DEF Startup, Terminal, IInv, TypeOK
  <2>3. readers' \in [Op -> BOOLEAN]
    BY <1>18 DEF Startup, IInv, TypeOK
  <2> QED
    BY <1>18, <2>1, <2>2, <2>3
       DEF Startup, IInv, TypeOK, life, registry, signals, history
<1>19. ASSUME NEW o \in Op, Watch(o) PROVE TypeOK'
  BY <1>19
     DEF IInv, Watch, TaskAt, Happened, Requested, Judged, TypeOK, Live,
         Terminal, life, registry, signals, history
<1>20. ASSUME NEW o \in Op, Settle(o) PROVE TypeOK'
  BY <1>20
     DEF IInv, Settle, TaskAt, Abandon, LockFree, TypeOK, Phase, State, Live,
         Holder, Write, Terminal, Attending, life, registry, signals, history
<1>21. ASSUME NEW o \in Op, Finish(o) PROVE TypeOK'
  <2>1. pc[o] # "none" /\ owner[o] \in Gateway
    BY <1>21, OwnerKnown DEF Finish, TaskAt, IInv
  <2>2. verdict[o] \in Terminal
    BY <1>21 DEF Finish, TaskAt, IInv, TaskAlive
  <2>3. verdict' \in [Op -> Terminal \cup {None}]
    BY <1>21 DEF Finish, IInv, TypeOK
  <2>4. pc' \in [Op -> Live \cup {"none", "ending", "done", "dead"}]
    BY <1>21 DEF Finish, Live, IInv, TypeOK
  <2>5. [state |-> verdict[o], by |-> "task"] \in Write
    BY <2>2 DEF Write, State, Holder
  <2>6. writes' \in [Op -> SUBSET Write]
    BY <1>21, <2>5 DEF Finish, IInv, TypeOK
  <2>7. records[owner[o]] \in [Op -> State \cup {"absent"}] /\ verdict[o] \in State
    BY <2>1, <2>2 DEF State, IInv, TypeOK
  <2>8. \/ UNCHANGED records
        \/ records' = [records EXCEPT ![owner[o]] = [@ EXCEPT ![o] = verdict[o]]]
    BY <1>21 DEF Finish
  <2>9. [records[owner[o]] EXCEPT ![o] = verdict[o]] \in [Op -> State \cup {"absent"}]
    BY <2>7
  <2>10. records' \in [Gateway -> [Op -> State \cup {"absent"}]]
    BY <2>1, <2>8, <2>9 DEF IInv, TypeOK
  <2> QED
    BY <1>21, <2>3, <2>4, <2>6, <2>10
       DEF Finish, IInv, TypeOK, life, signals, history
<1>22. ASSUME NEW o \in Op, Ending(o) PROVE TypeOK'
  BY <1>22 DEF IInv, Ending, TaskAt, TypeOK, life, registry, history
<1>23. ASSUME NEW o \in Op, DeliverCancel(o) PROVE TypeOK'
  <2>1. pc' \in [Op -> Live \cup {"none", "ending", "done", "dead"}]
    <3>1. pc \in [Op -> Live \cup {"none", "ending", "done", "dead"}]
      BY DEF IInv, TypeOK
    <3>2. \E at \in {"handler", "ending", "done"} : pc' = [pc EXCEPT ![o] = at]
      BY <1>23 DEF DeliverCancel
    <3> QED
      BY <3>1, <3>2 DEF Live
  <2>2. verdict' \in [Op -> Terminal \cup {None}]
    BY <1>23 DEF DeliverCancel, Terminal, IInv, TypeOK
  <2>3. Abandon(o, "task") \in SUBSET Write
    BY AbandonType DEF Holder, IInv
  <2>4. writes' \in [Op -> SUBSET Write]
    BY <1>23, <2>3 DEF DeliverCancel, IInv, TypeOK
  <2>5. cancelled' \in [Op -> BOOLEAN]
    BY <1>23 DEF DeliverCancel, IInv, TypeOK
  <2> QED
    BY <1>23, <2>1, <2>2, <2>4, <2>5
       DEF DeliverCancel, IInv, TypeOK, life, registry, history
<1>24. ASSUME NEW o \in Op, Persist(o) PROVE TypeOK'
  BY <1>24
     DEF IInv, Persist, LockFree, TypeOK, FreshOps, TaskAlive, ReadersAlive,
         Phase, Holder, Write, Attending, life, registry, task, signals,
         history
<1>25. ASSUME NEW o \in Op, Land(o) PROVE TypeOK'
  <2>1. PICK w \in writes[o] :
          /\ \/ disk' = [disk EXCEPT ![o] = w.state] /\ UNCHANGED torn
             \/ torn' = torn \cup {o} /\ UNCHANGED disk
          /\ writes' = [writes EXCEPT ![o] = @ \ {w}]
          /\ pc' = IF w.by = "task" THEN [pc EXCEPT ![o] = "ending"] ELSE pc
          /\ forced' = IF w.by = "shutdown" THEN [forced EXCEPT ![o] = "done"]
                       ELSE forced
    BY <1>25 DEF Land
  <2>2. writes[o] \in SUBSET Write
    BY DEF IInv, TypeOK
  <2>3. w.state \in State
    BY <2>2 DEF Write
  <2>4. disk' \in [Op -> State \cup {"absent"}] /\ torn' \in SUBSET Op
    BY <2>1, <2>3 DEF IInv, TypeOK
  <2>5. writes' \in [Op -> SUBSET Write]
    BY <2>1, <2>2 DEF IInv, TypeOK
  <2>6. pc' \in [Op -> Live \cup {"none", "ending", "done", "dead"}]
    BY <2>1 DEF IInv, TypeOK
  <2>7. forced' \in [Op -> {"no", "queued", "waiting", "writing", "done"}]
    BY <2>1 DEF IInv, TypeOK
  <2> QED
    BY <1>25, <2>4, <2>5, <2>6, <2>7
       DEF Land, IInv, TypeOK, life, registry, history
<1>26. CASE UNCHANGED vars
  BY <1>26 DEF IInv, TypeOK, vars, life, registry, task, signals, history
<1> QED
  BY <1>1, <1>2, <1>3, <1>4, <1>5, <1>6, <1>7, <1>8, <1>9, <1>10, <1>11, <1>12,
     <1>13, <1>14, <1>15, <1>16, <1>17, <1>18, <1>19, <1>20, <1>21, <1>22,
     <1>23, <1>24, <1>25, <1>26
     DEF Next, ProcessStep, TaskStep

\* No step touches an operation that start has not registered.
LEMMA FreshOpsStep == IInv /\ [Next]_vars => FreshOps'
<1> SUFFICES ASSUME IInv, [Next]_vars PROVE FreshOps'
  OBVIOUS
<1>1. ASSUME NEW g \in Gateway, Load(g) PROVE FreshOps'
  <2>1. LoadEffect(g)
    BY <1>1, LoadFacts DEF IInv
  <2> QED
    <3>1. /\ \A p \in Op : records'[g][p] \in {disk[p], "absent"}
          /\ \A h \in Gateway \ {g} : phase'[h] = phase[h] /\ records'[h] = records[h]
          /\ phase[g] = "off"
          /\ UNCHANGED <<pc, owner, disk, writes>>
      BY <2>1 DEF LoadEffect, IInv, TypeOK
    <3> QED
      BY <3>1 DEF IInv, FreshOps
<1>2. ASSUME NEW g \in Gateway, Acquire(g) PROVE FreshOps'
  BY <1>2
     DEF IInv, Acquire, Expired, PrunedRecords, PrunedIndex, PrunedDisk,
         RunningIn, FreshOps, TypeOK, Attending, task, signals, history
<1>3. ASSUME NEW g \in Gateway, AcquireRefused(g) PROVE FreshOps'
  BY <1>3
     DEF IInv, AcquireRefused, Vanish, Busy, OwnedBy, FreshOps, TypeOK,
         Attending, history
<1>4. ASSUME NEW g \in Gateway, RecoveryInterrupted(g) PROVE FreshOps'
  BY <1>4
     DEF IInv, RecoveryInterrupted, Vanish, Busy, OwnedBy, RunningIn, FreshOps,
         TypeOK, Attending, history
<1>5. ASSUME NEW g \in Gateway, BeginShutdown(g) PROVE FreshOps'
  BY <1>5
     DEF IInv, BeginShutdown, Busy, OwnedBy, FreshOps, TypeOK, Attending,
         registry, task, history
<1>6. ASSUME NEW g \in Gateway, ShutdownClean(g) PROVE FreshOps'
  BY <1>6
     DEF IInv, ShutdownClean, Busy, OwnedBy, FreshOps, TypeOK, Attending,
         registry, task, signals, history
<1>7. ASSUME NEW g \in Gateway, ShutdownTimeout(g) PROVE FreshOps'
  BY <1>7
     DEF IInv, ShutdownTimeout, Busy, OwnedBy, FreshOps, TypeOK, Attending,
         registry, task, history
<1>8. ASSUME NEW g \in Gateway, ForceDone(g) PROVE FreshOps'
  BY <1>8
     DEF IInv, ForceDone, OwnedBy, FreshOps, TypeOK, Attending, registry, task,
         signals, history
<1>9. ASSUME NEW g \in Gateway, CloseLoop(g) PROVE FreshOps'
  BY <1>9
     DEF IInv, CloseLoop, Busy, OwnedBy, Abandon, FreshOps, TypeOK, Attending,
         registry, history
<1>10. ASSUME NEW g \in Gateway, Exit(g) PROVE FreshOps'
  BY <1>10
     DEF IInv, Exit, Vanish, Busy, OwnedBy, FreshOps, TypeOK, Attending,
         history
<1>11. ASSUME NEW g \in Gateway, Crash(g) PROVE FreshOps'
  BY <1>11, NoneIsNew, SMTT(20)
     DEF IInv, Crash, Vanish, Busy, OwnedBy, FreshOps, TypeOK, Attending,
         history
<1>12. ASSUME NEW g \in Gateway, NEW o \in Op, ForceVisit(g, o) PROVE FreshOps'
  <2>1. ForceEffect(g, o)
    BY <1>12, ForceFacts DEF IInv
  <2>2. owner \in [Op -> Gateway \cup {None}] /\ index \in [Gateway -> [Index -> Op \cup {None}]]
    BY DEF IInv, TypeOK
  <2> QED
    BY <2>1, <2>2, NoneIsNew, SMTT(20) DEF IInv, ForceEffect, FreshOps
<1>13. ASSUME NEW g \in Gateway, NEW o \in Op, ForceAcquire(g, o) PROVE FreshOps'
  <2>1. ForceEffect(g, o)
    BY <1>13, ForceFacts DEF IInv
  <2>2. owner \in [Op -> Gateway \cup {None}] /\ index \in [Gateway -> [Index -> Op \cup {None}]]
    BY DEF IInv, TypeOK
  <2> QED
    BY <2>1, <2>2, NoneIsNew, SMTT(20) DEF IInv, ForceEffect, FreshOps
<1>14. ASSUME NEW g \in Gateway, NEW o \in Op, Cancel(g, o) PROVE FreshOps'
  BY <1>14
     DEF IInv, Cancel, Busy, OwnedBy, FreshOps, TypeOK, Attending, life,
         registry, task, history
<1>15. ASSUME NEW g \in Gateway, NEW i \in Index, StartReplays(g, i) PROVE FreshOps'
  BY <1>15
     DEF IInv, StartReplays, Expired, PrunedRecords, PrunedIndex, PrunedDisk,
         FreshOps, TypeOK, Attending, life, task, signals, history
<1>16. ASSUME NEW g \in Gateway, NEW i \in Index, StartFails(g, i) PROVE FreshOps'
  BY <1>16
     DEF IInv, StartFails, Expired, PrunedRecords, PrunedIndex, PrunedDisk,
         FreshOps, TypeOK, Attending, life, task, signals, history
<1>17. ASSUME NEW g \in Gateway, NEW i \in Index, NEW o \in Op, StartAccepted(g, i, o) PROVE FreshOps'
  BY <1>17, NoneIsNew, SMTT(20)
     DEF IInv, StartAccepted, Expired, PrunedRecords, PrunedIndex, PrunedDisk,
         FirstWrite, FreshOps, TypeOK, Attending, life, signals
<1>18. ASSUME NEW o \in Op, Startup(o) PROVE FreshOps'
  BY <1>18
     DEF IInv, Startup, TaskAt, FreshOps, TypeOK, Attending, life, registry,
         signals, history
<1>19. ASSUME NEW o \in Op, Watch(o) PROVE FreshOps'
  BY <1>19
     DEF IInv, Watch, TaskAt, Happened, Requested, Judged, FreshOps, TypeOK,
         Attending, life, registry, signals, history
<1>20. ASSUME NEW o \in Op, Settle(o) PROVE FreshOps'
  BY <1>20
     DEF IInv, Settle, TaskAt, Abandon, LockFree, FreshOps, TypeOK, Attending,
         life, registry, signals, history
<1>21. ASSUME NEW o \in Op, Finish(o) PROVE FreshOps'
  <2>1. FinishEffect(o)
    BY <1>21, FinishFacts DEF IInv
  <2>2. /\ UNCHANGED <<phase, index, disk, readers, cancelled, forced, owner, ident>>
        /\ \A p \in Op \ {o} : verdict'[p] = verdict[p]
        /\ \A w \in writes[o] : w.by = "orphan"
    BY <1>21 DEF IInv, TypeOK, Finish, LockFree, life, signals, history
  <2>3. owner \in [Op -> Gateway \cup {None}] /\ index \in [Gateway -> [Index -> Op \cup {None}]]
    BY DEF IInv, TypeOK
  <2> QED
    BY <2>1, <2>2, <2>3 DEF IInv, FinishEffect, FreshOps
<1>22. ASSUME NEW o \in Op, Ending(o) PROVE FreshOps'
  BY <1>22
     DEF IInv, Ending, TaskAt, FreshOps, TypeOK, Attending, life, registry,
         history
<1>23. ASSUME NEW o \in Op, DeliverCancel(o) PROVE FreshOps'
  BY <1>23
     DEF IInv, DeliverCancel, Abandon, FreshOps, TypeOK, Attending, life,
         registry, task, history
<1>24. ASSUME NEW o \in Op, Persist(o) PROVE FreshOps'
  BY <1>24
     DEF IInv, Persist, FreshOps, ReadersAlive, TypeOK, life, registry, task,
         history
<1>25. ASSUME NEW o \in Op, Land(o) PROVE FreshOps'
  BY <1>25
     DEF IInv, Land, FreshOps, TypeOK, Attending, life, registry, task,
         history
<1>26. CASE UNCHANGED vars
  BY <1>26
     DEF IInv, FreshOps, TypeOK, Attending, vars, life, registry, task,
         signals, history
<1> QED
  BY <1>1, <1>2, <1>3, <1>4, <1>5, <1>6, <1>7, <1>8, <1>9, <1>10, <1>11, <1>12,
     <1>13, <1>14, <1>15, <1>16, <1>17, <1>18, <1>19, <1>20, <1>21, <1>22,
     <1>23, <1>24, <1>25, <1>26
     DEF Next, ProcessStep, TaskStep

\* No step leaves records or an index to a process that is not there.
LEMMA EmptyMemoryStep == IInv /\ [Next]_vars => EmptyMemory'
<1> SUFFICES ASSUME IInv, [Next]_vars PROVE EmptyMemory'
  OBVIOUS
<1>1. ASSUME NEW g \in Gateway, Load(g) PROVE EmptyMemory'
  <2>1. LoadEffect(g)
    BY <1>1, LoadFacts DEF IInv
  <2> QED
    BY <2>1 DEF IInv, LoadEffect, TypeOK, EmptyMemory
<1>2. ASSUME NEW g \in Gateway, Acquire(g) PROVE EmptyMemory'
  BY <1>2
     DEF IInv, Acquire, Expired, PrunedRecords, PrunedIndex, PrunedDisk,
         RunningIn, EmptyMemory, TypeOK, task, signals, history
<1>3. ASSUME NEW g \in Gateway, AcquireRefused(g) PROVE EmptyMemory'
  BY <1>3
     DEF IInv, AcquireRefused, Vanish, Busy, OwnedBy, EmptyMemory, TypeOK,
         history
<1>4. ASSUME NEW g \in Gateway, RecoveryInterrupted(g) PROVE EmptyMemory'
  BY <1>4
     DEF IInv, RecoveryInterrupted, Vanish, Busy, OwnedBy, RunningIn,
         EmptyMemory, TypeOK, history
<1>5. ASSUME NEW g \in Gateway, BeginShutdown(g) PROVE EmptyMemory'
  BY <1>5
     DEF IInv, BeginShutdown, Busy, OwnedBy, EmptyMemory, TypeOK, registry,
         task, history
<1>6. ASSUME NEW g \in Gateway, ShutdownClean(g) PROVE EmptyMemory'
  BY <1>6
     DEF IInv, ShutdownClean, Busy, OwnedBy, EmptyMemory, TypeOK, registry,
         task, signals, history
<1>7. ASSUME NEW g \in Gateway, ShutdownTimeout(g) PROVE EmptyMemory'
  BY <1>7
     DEF IInv, ShutdownTimeout, Busy, OwnedBy, EmptyMemory, TypeOK, registry,
         task, history
<1>8. ASSUME NEW g \in Gateway, ForceDone(g) PROVE EmptyMemory'
  BY <1>8
     DEF IInv, ForceDone, OwnedBy, EmptyMemory, TypeOK, registry, task,
         signals, history
<1>9. ASSUME NEW g \in Gateway, CloseLoop(g) PROVE EmptyMemory'
  BY <1>9
     DEF IInv, CloseLoop, Busy, OwnedBy, Abandon, EmptyMemory, TypeOK,
         registry, history
<1>10. ASSUME NEW g \in Gateway, Exit(g) PROVE EmptyMemory'
  BY <1>10 DEF IInv, Exit, Vanish, Busy, OwnedBy, EmptyMemory, TypeOK, history
<1>11. ASSUME NEW g \in Gateway, Crash(g) PROVE EmptyMemory'
  BY <1>11
     DEF IInv, Crash, Vanish, Busy, OwnedBy, EmptyMemory, TypeOK, history
<1>12. ASSUME NEW g \in Gateway, NEW o \in Op, ForceVisit(g, o) PROVE EmptyMemory'
  <2>1. ForceEffect(g, o)
    BY <1>12, ForceFacts DEF IInv
  <2>2. owner \in [Op -> Gateway \cup {None}] /\ index \in [Gateway -> [Index -> Op \cup {None}]]
    BY DEF IInv, TypeOK
  <2> QED
    BY <2>1, <2>2 DEF IInv, ForceEffect, EmptyMemory
<1>13. ASSUME NEW g \in Gateway, NEW o \in Op, ForceAcquire(g, o) PROVE EmptyMemory'
  <2>1. ForceEffect(g, o)
    BY <1>13, ForceFacts DEF IInv
  <2>2. owner \in [Op -> Gateway \cup {None}] /\ index \in [Gateway -> [Index -> Op \cup {None}]]
    BY DEF IInv, TypeOK
  <2> QED
    BY <2>1, <2>2 DEF IInv, ForceEffect, EmptyMemory
<1>14. ASSUME NEW g \in Gateway, NEW o \in Op, Cancel(g, o) PROVE EmptyMemory'
  BY <1>14
     DEF IInv, Cancel, Busy, OwnedBy, EmptyMemory, TypeOK, life, registry,
         task, history
<1>15. ASSUME NEW g \in Gateway, NEW i \in Index, StartReplays(g, i) PROVE EmptyMemory'
  BY <1>15
     DEF IInv, StartReplays, Expired, PrunedRecords, PrunedIndex, PrunedDisk,
         EmptyMemory, TypeOK, life, task, signals, history
<1>16. ASSUME NEW g \in Gateway, NEW i \in Index, StartFails(g, i) PROVE EmptyMemory'
  BY <1>16
     DEF IInv, StartFails, Expired, PrunedRecords, PrunedIndex, PrunedDisk,
         EmptyMemory, TypeOK, life, task, signals, history
<1>17. ASSUME NEW g \in Gateway, NEW i \in Index, NEW o \in Op, StartAccepted(g, i, o) PROVE EmptyMemory'
  BY <1>17
     DEF IInv, StartAccepted, Expired, PrunedRecords, PrunedIndex, PrunedDisk,
         FirstWrite, EmptyMemory, TypeOK, life, signals
<1>18. ASSUME NEW o \in Op, Startup(o) PROVE EmptyMemory'
  BY <1>18
     DEF IInv, Startup, TaskAt, EmptyMemory, TypeOK, life, registry, signals,
         history
<1>19. ASSUME NEW o \in Op, Watch(o) PROVE EmptyMemory'
  BY <1>19
     DEF IInv, Watch, TaskAt, Happened, Requested, Judged, EmptyMemory, TypeOK,
         life, registry, signals, history
<1>20. ASSUME NEW o \in Op, Settle(o) PROVE EmptyMemory'
  BY <1>20
     DEF IInv, Settle, TaskAt, Abandon, LockFree, EmptyMemory, TypeOK, life,
         registry, signals, history
<1>21. ASSUME NEW o \in Op, Finish(o) PROVE EmptyMemory'
  <2>1. FinishEffect(o)
    BY <1>21, FinishFacts DEF IInv
  <2>2. /\ UNCHANGED <<phase, index, disk, readers, cancelled, forced, owner, ident>>
        /\ \A p \in Op \ {o} : verdict'[p] = verdict[p]
        /\ \A w \in writes[o] : w.by = "orphan"
    BY <1>21 DEF IInv, TypeOK, Finish, LockFree, life, signals, history
  <2>3. owner \in [Op -> Gateway \cup {None}] /\ index \in [Gateway -> [Index -> Op \cup {None}]]
    BY DEF IInv, TypeOK
  <2> QED
    BY <2>1, <2>2, <2>3 DEF IInv, FinishEffect, EmptyMemory
<1>22. ASSUME NEW o \in Op, Ending(o) PROVE EmptyMemory'
  BY <1>22
     DEF IInv, Ending, TaskAt, EmptyMemory, TypeOK, life, registry, history
<1>23. ASSUME NEW o \in Op, DeliverCancel(o) PROVE EmptyMemory'
  BY <1>23
     DEF IInv, DeliverCancel, Abandon, EmptyMemory, TypeOK, life, registry,
         task, history
<1>24. ASSUME NEW o \in Op, Persist(o) PROVE EmptyMemory'
  BY <1>24
     DEF IInv, Persist, LockFree, EmptyMemory, TypeOK, life, registry, task,
         signals, history
<1>25. ASSUME NEW o \in Op, Land(o) PROVE EmptyMemory'
  BY <1>25 DEF IInv, Land, EmptyMemory, TypeOK, life, registry, task, history
<1>26. CASE UNCHANGED vars
  BY <1>26
     DEF IInv, EmptyMemory, TypeOK, vars, life, registry, task, signals,
         history
<1> QED
  BY <1>1, <1>2, <1>3, <1>4, <1>5, <1>6, <1>7, <1>8, <1>9, <1>10, <1>11, <1>12,
     <1>13, <1>14, <1>15, <1>16, <1>17, <1>18, <1>19, <1>20, <1>21, <1>22,
     <1>23, <1>24, <1>25, <1>26
     DEF Next, ProcessStep, TaskStep

\* A task never outlives its process or its record, and never reaches _finish
\* without a state to record: prune spares the operations whose task runs.
LEMMA TaskAliveStep == IInv /\ [Next]_vars => TaskAlive'
<1> SUFFICES ASSUME IInv, [Next]_vars PROVE TaskAlive'
  OBVIOUS
<1>1. ASSUME NEW g \in Gateway, Load(g) PROVE TaskAlive'
  <2>1. LoadEffect(g)
    BY <1>1, LoadFacts DEF IInv
  <2> QED
    BY <2>1 DEF IInv, LoadEffect, TypeOK, TaskAlive, Attending, FreshOps
<1>2. ASSUME NEW g \in Gateway, Acquire(g) PROVE TaskAlive'
  BY <1>2
     DEF IInv, Acquire, Expired, PrunedRecords, PrunedIndex, PrunedDisk,
         RunningIn, TypeOK, TaskAlive, Attending, task, signals, history
<1>3. ASSUME NEW g \in Gateway, AcquireRefused(g) PROVE TaskAlive'
  BY <1>3
     DEF IInv, AcquireRefused, Vanish, Busy, OwnedBy, TypeOK, TaskAlive,
         history
<1>4. ASSUME NEW g \in Gateway, RecoveryInterrupted(g) PROVE TaskAlive'
  BY <1>4
     DEF IInv, RecoveryInterrupted, Vanish, Busy, OwnedBy, RunningIn, TypeOK,
         TaskAlive, history
<1>5. ASSUME NEW g \in Gateway, BeginShutdown(g) PROVE TaskAlive'
  BY <1>5
     DEF IInv, BeginShutdown, Busy, OwnedBy, TypeOK, TaskAlive, Attending,
         registry, task, history
<1>6. ASSUME NEW g \in Gateway, ShutdownClean(g) PROVE TaskAlive'
  BY <1>6
     DEF IInv, ShutdownClean, Busy, OwnedBy, TypeOK, TaskAlive, registry, task,
         signals, history
<1>7. ASSUME NEW g \in Gateway, ShutdownTimeout(g) PROVE TaskAlive'
  BY <1>7
     DEF IInv, ShutdownTimeout, Busy, OwnedBy, TypeOK, TaskAlive, Attending,
         registry, task, history
<1>8. ASSUME NEW g \in Gateway, ForceDone(g) PROVE TaskAlive'
  BY <1>8
     DEF IInv, ForceDone, OwnedBy, TypeOK, TaskAlive, Attending, registry,
         task, signals, history
<1>9. ASSUME NEW g \in Gateway, CloseLoop(g) PROVE TaskAlive'
  BY <1>9
     DEF IInv, CloseLoop, Busy, OwnedBy, Abandon, TypeOK, TaskAlive, Attending,
         registry, history
<1>10. ASSUME NEW g \in Gateway, Exit(g) PROVE TaskAlive'
  BY <1>10 DEF IInv, Exit, Vanish, Busy, OwnedBy, TypeOK, TaskAlive, history
<1>11. ASSUME NEW g \in Gateway, Crash(g) PROVE TaskAlive'
  BY <1>11 DEF IInv, Crash, Vanish, Busy, OwnedBy, TypeOK, TaskAlive, history
<1>12. ASSUME NEW g \in Gateway, NEW o \in Op, ForceVisit(g, o) PROVE TaskAlive'
  <2>1. ForceEffect(g, o)
    BY <1>12, ForceFacts DEF IInv
  <2>2. owner \in [Op -> Gateway \cup {None}] /\ index \in [Gateway -> [Index -> Op \cup {None}]]
    BY DEF IInv, TypeOK
  <2> QED
    BY <2>1, <2>2 DEF IInv, ForceEffect, TaskAlive, FreshOps
<1>13. ASSUME NEW g \in Gateway, NEW o \in Op, ForceAcquire(g, o) PROVE TaskAlive'
  <2>1. ForceEffect(g, o)
    BY <1>13, ForceFacts DEF IInv
  <2>2. owner \in [Op -> Gateway \cup {None}] /\ index \in [Gateway -> [Index -> Op \cup {None}]]
    BY DEF IInv, TypeOK
  <2> QED
    BY <2>1, <2>2 DEF IInv, ForceEffect, TaskAlive, FreshOps
<1>14. ASSUME NEW g \in Gateway, NEW o \in Op, Cancel(g, o) PROVE TaskAlive'
  BY <1>14
     DEF IInv, Cancel, Busy, OwnedBy, TypeOK, TaskAlive, life, registry, task,
         history
<1>15. ASSUME NEW g \in Gateway, NEW i \in Index, StartReplays(g, i) PROVE TaskAlive'
  BY <1>15
     DEF IInv, StartReplays, Expired, PrunedRecords, PrunedIndex, PrunedDisk,
         TypeOK, TaskAlive, life, task, signals, history
<1>16. ASSUME NEW g \in Gateway, NEW i \in Index, StartFails(g, i) PROVE TaskAlive'
  BY <1>16
     DEF IInv, StartFails, Expired, PrunedRecords, PrunedIndex, PrunedDisk,
         TypeOK, TaskAlive, life, task, signals, history
<1>17. ASSUME NEW g \in Gateway, NEW i \in Index, NEW o \in Op, StartAccepted(g, i, o) PROVE TaskAlive'
  BY <1>17
     DEF IInv, StartAccepted, Expired, PrunedRecords, PrunedIndex, PrunedDisk,
         FirstWrite, TypeOK, TaskAlive, Attending, life, signals
<1>18. ASSUME NEW o \in Op, Startup(o) PROVE TaskAlive'
  BY <1>18
     DEF IInv, Startup, TaskAt, TypeOK, TaskAlive, Terminal, Live, life,
         registry, signals, history
<1>19. ASSUME NEW o \in Op, Watch(o) PROVE TaskAlive'
  BY <1>19
     DEF IInv, Watch, TaskAt, Happened, Requested, Judged, TypeOK, TaskAlive,
         Terminal, Live, life, registry, signals, history
<1>20. ASSUME NEW o \in Op, Settle(o) PROVE TaskAlive'
  BY <1>20
     DEF IInv, Settle, TaskAt, Abandon, LockFree, TypeOK, TaskAlive, life,
         registry, signals, history
<1>21. ASSUME NEW o \in Op, Finish(o) PROVE TaskAlive'
  <2>1. FinishEffect(o)
    BY <1>21, FinishFacts DEF IInv
  <2>2. /\ UNCHANGED <<phase, index, disk, readers, cancelled, forced, owner, ident>>
        /\ \A p \in Op \ {o} : verdict'[p] = verdict[p]
        /\ \A w \in writes[o] : w.by = "orphan"
    BY <1>21 DEF IInv, TypeOK, Finish, LockFree, life, signals, history
  <2>3. owner \in [Op -> Gateway \cup {None}] /\ index \in [Gateway -> [Index -> Op \cup {None}]]
    BY DEF IInv, TypeOK
  <2> QED
    BY <2>1, <2>2, <2>3 DEF IInv, FinishEffect, TaskAlive, FreshOps, Terminal
<1>22. ASSUME NEW o \in Op, Ending(o) PROVE TaskAlive'
  BY <1>22
     DEF IInv, Ending, TaskAt, TypeOK, TaskAlive, life, registry, history
<1>23. ASSUME NEW o \in Op, DeliverCancel(o) PROVE TaskAlive'
  <2>1. /\ \A p \in Op \ {o} : pc'[p] = pc[p] /\ verdict'[p] = verdict[p]
        /\ pc[o] \notin {"none", "done", "dead"}
        /\ pc'[o] \in {"handler", "ending", "done"}
        /\ pc'[o] = "handler" => verdict'[o] = "interrupted"
    BY <1>23 DEF DeliverCancel, IInv, TypeOK
  <2>2. UNCHANGED <<phase, records, owner>>
    BY <1>23 DEF DeliverCancel, life, registry, history
  <2> QED
    BY <2>1, <2>2 DEF IInv, TaskAlive, Terminal
<1>24. ASSUME NEW o \in Op, Persist(o) PROVE TaskAlive'
  BY <1>24
     DEF IInv, Persist, LockFree, TypeOK, TaskAlive, life, registry, task,
         signals, history
<1>25. ASSUME NEW o \in Op, Land(o) PROVE TaskAlive'
  BY <1>25
     DEF IInv, Land, TypeOK, TaskAlive, TaskThread, life, registry, history
<1>26. CASE UNCHANGED vars
  BY <1>26
     DEF IInv, TypeOK, TaskAlive, vars, life, registry, task, signals, history
<1> QED
  BY <1>1, <1>2, <1>3, <1>4, <1>5, <1>6, <1>7, <1>8, <1>9, <1>10, <1>11, <1>12,
     <1>13, <1>14, <1>15, <1>16, <1>17, <1>18, <1>19, <1>20, <1>21, <1>22,
     <1>23, <1>24, <1>25, <1>26
     DEF Next, ProcessStep, TaskStep

\* A reader never outlives its process or the record it persists.
LEMMA ReadersAliveStep == IInv /\ [Next]_vars => ReadersAlive'
<1> SUFFICES ASSUME IInv, [Next]_vars PROVE ReadersAlive'
  OBVIOUS
<1>1. ASSUME NEW g \in Gateway, Load(g) PROVE ReadersAlive'
  <2>1. LoadEffect(g)
    BY <1>1, LoadFacts DEF IInv
  <2> QED
    BY <2>1 DEF IInv, LoadEffect, TypeOK, ReadersAlive, Attending, FreshOps
<1>2. ASSUME NEW g \in Gateway, Acquire(g) PROVE ReadersAlive'
  BY <1>2
     DEF IInv, Acquire, Expired, PrunedRecords, PrunedIndex, PrunedDisk,
         RunningIn, TypeOK, ReadersAlive, Attending, task, signals, history
<1>3. ASSUME NEW g \in Gateway, AcquireRefused(g) PROVE ReadersAlive'
  <2>1. \A o \in Op : VanishEffect(g, o)
    BY <1>3, VanishFacts DEF IInv, AcquireRefused
  <2> QED
    BY <2>1 DEF IInv, VanishEffect, ReadersAlive, TypeOK
<1>4. ASSUME NEW g \in Gateway, RecoveryInterrupted(g) PROVE ReadersAlive'
  <2>1. \A o \in Op : VanishEffect(g, o)
    BY <1>4, VanishFacts DEF IInv, RecoveryInterrupted
  <2> QED
    BY <2>1 DEF IInv, VanishEffect, ReadersAlive, TypeOK
<1>5. ASSUME NEW g \in Gateway, BeginShutdown(g) PROVE ReadersAlive'
  BY <1>5
     DEF IInv, BeginShutdown, Busy, OwnedBy, TypeOK, ReadersAlive, Attending,
         registry, task, history
<1>6. ASSUME NEW g \in Gateway, ShutdownClean(g) PROVE ReadersAlive'
  BY <1>6
     DEF IInv, ShutdownClean, Busy, OwnedBy, TypeOK, ReadersAlive, registry,
         task, signals, history
<1>7. ASSUME NEW g \in Gateway, ShutdownTimeout(g) PROVE ReadersAlive'
  BY <1>7
     DEF IInv, ShutdownTimeout, Busy, OwnedBy, TypeOK, ReadersAlive, Attending,
         registry, task, history
<1>8. ASSUME NEW g \in Gateway, ForceDone(g) PROVE ReadersAlive'
  BY <1>8
     DEF IInv, ForceDone, OwnedBy, TypeOK, ReadersAlive, Attending, registry,
         task, signals, history
<1>9. ASSUME NEW g \in Gateway, CloseLoop(g) PROVE ReadersAlive'
  BY <1>9
     DEF IInv, CloseLoop, Busy, OwnedBy, Abandon, TypeOK, ReadersAlive,
         registry, history
<1>10. ASSUME NEW g \in Gateway, Exit(g) PROVE ReadersAlive'
  <2>1. \A o \in Op : VanishEffect(g, o)
    BY <1>10, VanishFacts DEF IInv, Exit
  <2> QED
    BY <2>1 DEF IInv, VanishEffect, ReadersAlive, TypeOK
<1>11. ASSUME NEW g \in Gateway, Crash(g) PROVE ReadersAlive'
  <2>1. \A o \in Op : VanishEffect(g, o)
    BY <1>11, VanishFacts DEF IInv, Crash
  <2> QED
    BY <2>1 DEF IInv, VanishEffect, ReadersAlive, TypeOK
<1>12. ASSUME NEW g \in Gateway, NEW o \in Op, ForceVisit(g, o) PROVE ReadersAlive'
  <2>1. ForceEffect(g, o)
    BY <1>12, ForceFacts DEF IInv
  <2>2. owner \in [Op -> Gateway \cup {None}] /\ index \in [Gateway -> [Index -> Op \cup {None}]]
    BY DEF IInv, TypeOK
  <2> QED
    BY <2>1, <2>2 DEF IInv, ForceEffect, ReadersAlive
<1>13. ASSUME NEW g \in Gateway, NEW o \in Op, ForceAcquire(g, o) PROVE ReadersAlive'
  <2>1. ForceEffect(g, o)
    BY <1>13, ForceFacts DEF IInv
  <2>2. owner \in [Op -> Gateway \cup {None}] /\ index \in [Gateway -> [Index -> Op \cup {None}]]
    BY DEF IInv, TypeOK
  <2> QED
    BY <2>1, <2>2 DEF IInv, ForceEffect, ReadersAlive
<1>14. ASSUME NEW g \in Gateway, NEW o \in Op, Cancel(g, o) PROVE ReadersAlive'
  BY <1>14
     DEF IInv, Cancel, Busy, OwnedBy, TypeOK, ReadersAlive, life, registry,
         task, history
<1>15. ASSUME NEW g \in Gateway, NEW i \in Index, StartReplays(g, i) PROVE ReadersAlive'
  BY <1>15, NoneIsNew, SMTT(20)
     DEF IInv, StartReplays, Expired, PrunedRecords, PrunedIndex, PrunedDisk,
         TypeOK, ReadersAlive, life, task, signals, history
<1>16. ASSUME NEW g \in Gateway, NEW i \in Index, StartFails(g, i) PROVE ReadersAlive'
  <2>1. PICK lost \in SUBSET Expired(g) :
          records' = [records EXCEPT ![g] = PrunedRecords(g, lost)]
    BY <1>16 DEF StartFails
  <2>2. UNCHANGED <<phase, readers, pc, owner>>
    BY <1>16 DEF StartFails, life, task, history
  <2>3. \A p \in lost : pc[p] \in {"done", "dead"} /\ p \in Op
    BY <2>1 DEF Expired
  <2>4. \A p \in Op : readers[p] =>
          /\ owner[p] \in Gateway
          /\ phase[owner[p]] \in Attending
          /\ records[owner[p]][p] # "absent"
          /\ phase[owner[p]] \in {"serving", "stopping"} => pc[p] \in {"watch", "settle"}
    BY DEF IInv, TypeOK, ReadersAlive
  <2>5. \A p \in Op, h \in Gateway : h # g \/ p \notin lost => records'[h][p] = records[h][p]
    BY <2>1 DEF PrunedRecords, IInv, TypeOK
  <2>6. phase[g] = "serving"
    BY <1>16 DEF StartFails
  <2>7. \A p \in lost : readers[p] => owner[p] # g
    BY <2>3, <2>4, <2>6
  <2> QED
    BY <2>2, <2>3, <2>4, <2>5, <2>7, <2>6, NoneIsNew, SMTT(20) DEF ReadersAlive
<1>17. ASSUME NEW g \in Gateway, NEW i \in Index, NEW o \in Op, StartAccepted(g, i, o) PROVE ReadersAlive'
  <2>1. PICK lost \in SUBSET Expired(g) :
          records' = [records EXCEPT ![g] = [PrunedRecords(g, lost) EXCEPT ![o] = "running"]]
    BY <1>17 DEF StartAccepted
  <2>2. UNCHANGED <<phase, readers>>
    BY <1>17 DEF StartAccepted, life
  <2>3. \A p \in lost : pc[p] \in {"done", "dead"} /\ p \in Op
    BY <2>1 DEF Expired
  <2>4. \A p \in Op : readers[p] =>
          /\ owner[p] \in Gateway
          /\ phase[owner[p]] \in Attending
          /\ records[owner[p]][p] # "absent"
          /\ phase[owner[p]] \in {"serving", "stopping"} => pc[p] \in {"watch", "settle"}
    BY DEF IInv, TypeOK, ReadersAlive
  <2>5. \A p \in Op \ {o} : \A h \in Gateway : h # g \/ p \notin lost => records'[h][p] = records[h][p]
    BY <2>1 DEF PrunedRecords, IInv, TypeOK
  <2>6. phase[g] = "serving" /\ owner[o] = None
    BY <1>17 DEF StartAccepted
  <2>7. \A p \in Op \ {o} : pc'[p] = pc[p] /\ owner'[p] = owner[p]
    BY <1>17 DEF StartAccepted, IInv, TypeOK
  <2>8. \A p \in lost : readers[p] => owner[p] # g
    BY <2>3, <2>4, <2>6
  <2>9. ~readers[o]
    BY <2>4, <2>6, NoneIsNew
  <2> QED
    BY <2>2, <2>3, <2>4, <2>5, <2>9, <2>7, <2>8, <2>6, NoneIsNew, SMTT(20)
       DEF ReadersAlive
<1>18. ASSUME NEW o \in Op, Startup(o) PROVE ReadersAlive'
  <2>1. /\ UNCHANGED <<phase, records, owner>>
        /\ pc[o] = "startup"
        /\ pc'[o] = "watch" \/ (pc'[o] = "handler" /\ UNCHANGED readers)
        /\ \A p \in Op \ {o} : pc'[p] = pc[p] /\ readers'[p] = readers[p]
    BY <1>18 DEF Startup, TaskAt, life, registry, history, IInv, TypeOK
  <2>2. owner[o] # None /\ phase[owner[o]] \in Attending /\ records[owner[o]][o] # "absent"
    BY <2>1 DEF IInv, FreshOps, TaskAlive
  <2> QED
    BY <2>1, <2>2 DEF IInv, ReadersAlive
<1>19. ASSUME NEW o \in Op, Watch(o) PROVE ReadersAlive'
  BY <1>19
     DEF IInv, Watch, TaskAt, Happened, Requested, Judged, TypeOK,
         ReadersAlive, life, registry, signals, history
<1>20. ASSUME NEW o \in Op, Settle(o) PROVE ReadersAlive'
  BY <1>20
     DEF IInv, Settle, TaskAt, Abandon, LockFree, TypeOK, ReadersAlive, life,
         registry, signals, history
<1>21. ASSUME NEW o \in Op, Finish(o) PROVE ReadersAlive'
  <2>1. FinishEffect(o)
    BY <1>21, FinishFacts DEF IInv
  <2>2. /\ UNCHANGED <<phase, index, disk, readers, cancelled, forced, owner, ident>>
        /\ \A p \in Op \ {o} : verdict'[p] = verdict[p]
        /\ \A w \in writes[o] : w.by = "orphan"
    BY <1>21 DEF IInv, TypeOK, Finish, LockFree, life, signals, history
  <2>3. owner \in [Op -> Gateway \cup {None}] /\ index \in [Gateway -> [Index -> Op \cup {None}]]
    BY DEF IInv, TypeOK
  <2> QED
    BY <2>1, <2>2, <2>3 DEF IInv, FinishEffect, ReadersAlive, Terminal
<1>22. ASSUME NEW o \in Op, Ending(o) PROVE ReadersAlive'
  BY <1>22
     DEF IInv, Ending, TaskAt, TypeOK, ReadersAlive, life, registry, history
<1>23. ASSUME NEW o \in Op, DeliverCancel(o) PROVE ReadersAlive'
  BY <1>23, NoneIsNew, SMTT(20)
     DEF IInv, DeliverCancel, TypeOK, ReadersAlive, CancelledLate, Attending,
         life, registry, history
<1>24. ASSUME NEW o \in Op, Persist(o) PROVE ReadersAlive'
  BY <1>24
     DEF IInv, Persist, LockFree, TypeOK, ReadersAlive, life, registry, task,
         signals, history
<1>25. ASSUME NEW o \in Op, Land(o) PROVE ReadersAlive'
  BY <1>25
     DEF IInv, Land, TypeOK, ReadersAlive, TaskThread, life, registry, history
<1>26. CASE UNCHANGED vars
  BY <1>26
     DEF IInv, TypeOK, ReadersAlive, vars, life, registry, task, signals,
         history
<1> QED
  BY <1>1, <1>2, <1>3, <1>4, <1>5, <1>6, <1>7, <1>8, <1>9, <1>10, <1>11, <1>12,
     <1>13, <1>14, <1>15, <1>16, <1>17, <1>18, <1>19, <1>20, <1>21, <1>22,
     <1>23, <1>24, <1>25, <1>26
     DEF Next, ProcessStep, TaskStep

\* A task has at most one thread and awaits it.
LEMMA TaskThreadStep == IInv /\ [Next]_vars => TaskThread'
<1> SUFFICES ASSUME IInv, [Next]_vars PROVE TaskThread'
  OBVIOUS
<1>1. ASSUME NEW g \in Gateway, Load(g) PROVE TaskThread'
  BY <1>1, LoadFacts
     DEF IInv, LoadEffect, TypeOK, TaskThread, task, signals, history
<1>2. ASSUME NEW g \in Gateway, Acquire(g) PROVE TaskThread'
  BY <1>2
     DEF IInv, Acquire, Expired, PrunedRecords, PrunedIndex, PrunedDisk,
         RunningIn, TypeOK, TaskThread, task, signals, history
<1>3. ASSUME NEW g \in Gateway, AcquireRefused(g) PROVE TaskThread'
  BY <1>3
     DEF IInv, AcquireRefused, Vanish, Busy, OwnedBy, TypeOK, TaskThread,
         history
<1>4. ASSUME NEW g \in Gateway, RecoveryInterrupted(g) PROVE TaskThread'
  BY <1>4
     DEF IInv, RecoveryInterrupted, Vanish, Busy, OwnedBy, RunningIn, TypeOK,
         TaskThread, history
<1>5. ASSUME NEW g \in Gateway, BeginShutdown(g) PROVE TaskThread'
  BY <1>5
     DEF IInv, BeginShutdown, Busy, OwnedBy, TypeOK, TaskThread, registry,
         task, history
<1>6. ASSUME NEW g \in Gateway, ShutdownClean(g) PROVE TaskThread'
  BY <1>6
     DEF IInv, ShutdownClean, Busy, OwnedBy, TypeOK, TaskThread, registry,
         task, signals, history
<1>7. ASSUME NEW g \in Gateway, ShutdownTimeout(g) PROVE TaskThread'
  BY <1>7
     DEF IInv, ShutdownTimeout, Busy, OwnedBy, TypeOK, TaskThread, registry,
         task, history
<1>8. ASSUME NEW g \in Gateway, ForceDone(g) PROVE TaskThread'
  BY <1>8
     DEF IInv, ForceDone, OwnedBy, TypeOK, TaskThread, registry, task, signals,
         history
<1>9. ASSUME NEW g \in Gateway, CloseLoop(g) PROVE TaskThread'
  BY <1>9
     DEF IInv, CloseLoop, Busy, OwnedBy, Abandon, TypeOK, TaskThread, registry,
         history
<1>10. ASSUME NEW g \in Gateway, Exit(g) PROVE TaskThread'
  BY <1>10 DEF IInv, Exit, Vanish, Busy, OwnedBy, TypeOK, TaskThread, history
<1>11. ASSUME NEW g \in Gateway, Crash(g) PROVE TaskThread'
  BY <1>11 DEF IInv, Crash, Vanish, Busy, OwnedBy, TypeOK, TaskThread, history
<1>12. ASSUME NEW g \in Gateway, NEW o \in Op, ForceVisit(g, o) PROVE TaskThread'
  BY <1>12
     DEF IInv, ForceVisit, ForcedFinish, Busy, OwnedBy, LockFree, TypeOK,
         TaskThread, life, task, history
<1>13. ASSUME NEW g \in Gateway, NEW o \in Op, ForceAcquire(g, o) PROVE TaskThread'
  <2>1. ForceEffect(g, o)
    BY <1>13, ForceFacts DEF IInv
  <2> QED
    BY <2>1 DEF ForceEffect, IInv, TaskThread
<1>14. ASSUME NEW g \in Gateway, NEW o \in Op, Cancel(g, o) PROVE TaskThread'
  BY <1>14
     DEF IInv, Cancel, Busy, OwnedBy, TypeOK, TaskThread, life, registry, task,
         history
<1>15. ASSUME NEW g \in Gateway, NEW i \in Index, StartReplays(g, i) PROVE TaskThread'
  BY <1>15
     DEF IInv, StartReplays, Expired, PrunedRecords, PrunedIndex, PrunedDisk,
         TypeOK, TaskThread, life, task, signals, history
<1>16. ASSUME NEW g \in Gateway, NEW i \in Index, StartFails(g, i) PROVE TaskThread'
  BY <1>16
     DEF IInv, StartFails, Expired, PrunedRecords, PrunedIndex, PrunedDisk,
         TypeOK, TaskThread, life, task, signals, history
<1>17. ASSUME NEW g \in Gateway, NEW i \in Index, NEW o \in Op, StartAccepted(g, i, o) PROVE TaskThread'
  BY <1>17
     DEF IInv, StartAccepted, Expired, PrunedRecords, PrunedIndex, PrunedDisk,
         FirstWrite, TypeOK, TaskThread, TaskAlive, FreshOps, life, signals
<1>18. ASSUME NEW o \in Op, Startup(o) PROVE TaskThread'
  BY <1>18
     DEF IInv, Startup, TaskAt, TypeOK, TaskThread, life, registry, signals,
         history
<1>19. ASSUME NEW o \in Op, Watch(o) PROVE TaskThread'
  BY <1>19
     DEF IInv, Watch, TaskAt, Happened, Requested, Judged, TypeOK, TaskThread,
         life, registry, signals, history
<1>20. ASSUME NEW o \in Op, Settle(o) PROVE TaskThread'
  BY <1>20
     DEF IInv, Settle, TaskAt, Abandon, LockFree, TypeOK, TaskThread, life,
         registry, signals, history
<1>21. ASSUME NEW o \in Op, Finish(o) PROVE TaskThread'
  BY <1>21
     DEF IInv, Finish, TaskAt, LockFree, TypeOK, TaskThread, life, task,
         signals, history
<1>22. ASSUME NEW o \in Op, Ending(o) PROVE TaskThread'
  BY <1>22
     DEF IInv, Ending, TaskAt, TypeOK, TaskThread, life, registry, history
<1>23. ASSUME NEW o \in Op, DeliverCancel(o) PROVE TaskThread'
  BY <1>23, NoneIsNew, SMTT(20)
     DEF IInv, DeliverCancel, Abandon, TypeOK, TaskThread, Live, life,
         registry, task, history
<1>24. ASSUME NEW o \in Op, Persist(o) PROVE TaskThread'
  BY <1>24
     DEF IInv, Persist, LockFree, TypeOK, TaskThread, life, registry, task,
         signals, history
<1>25. ASSUME NEW o \in Op, Land(o) PROVE TaskThread'
  BY <1>25 DEF IInv, Land, TypeOK, TaskThread, life, registry, task, history
<1>26. CASE UNCHANGED vars
  BY <1>26
     DEF IInv, TypeOK, TaskThread, vars, life, registry, task, signals,
         history
<1> QED
  BY <1>1, <1>2, <1>3, <1>4, <1>5, <1>6, <1>7, <1>8, <1>9, <1>10, <1>11, <1>12,
     <1>13, <1>14, <1>15, <1>16, <1>17, <1>18, <1>19, <1>20, <1>21, <1>22,
     <1>23, <1>24, <1>25, <1>26
     DEF Next, ProcessStep, TaskStep

\* Only a process that is shutting down cancels tasks.
LEMMA CancelledLateStep == IInv /\ [Next]_vars => CancelledLate'
<1> SUFFICES ASSUME IInv, [Next]_vars PROVE CancelledLate'
  OBVIOUS
<1>1. ASSUME NEW g \in Gateway, Load(g) PROVE CancelledLate'
  <2>1. LoadEffect(g)
    BY <1>1, LoadFacts DEF IInv
  <2> QED
    BY <2>1 DEF IInv, LoadEffect, TypeOK, CancelledLate
<1>2. ASSUME NEW g \in Gateway, Acquire(g) PROVE CancelledLate'
  BY <1>2
     DEF IInv, Acquire, Expired, PrunedRecords, PrunedIndex, PrunedDisk,
         RunningIn, TypeOK, CancelledLate, task, signals, history
<1>3. ASSUME NEW g \in Gateway, AcquireRefused(g) PROVE CancelledLate'
  <2>1. \A o \in Op : VanishEffect(g, o)
    BY <1>3, VanishFacts DEF IInv, AcquireRefused
  <2> QED
    BY <2>1 DEF IInv, VanishEffect, CancelledLate, TypeOK
<1>4. ASSUME NEW g \in Gateway, RecoveryInterrupted(g) PROVE CancelledLate'
  <2>1. \A o \in Op : VanishEffect(g, o)
    BY <1>4, VanishFacts DEF IInv, RecoveryInterrupted
  <2> QED
    BY <2>1 DEF IInv, VanishEffect, CancelledLate, TypeOK
<1>5. ASSUME NEW g \in Gateway, BeginShutdown(g) PROVE CancelledLate'
  BY <1>5
     DEF IInv, BeginShutdown, Busy, OwnedBy, TypeOK, CancelledLate, registry,
         task, history
<1>6. ASSUME NEW g \in Gateway, ShutdownClean(g) PROVE CancelledLate'
  BY <1>6
     DEF IInv, ShutdownClean, Busy, OwnedBy, TypeOK, CancelledLate, registry,
         task, signals, history
<1>7. ASSUME NEW g \in Gateway, ShutdownTimeout(g) PROVE CancelledLate'
  BY <1>7
     DEF IInv, ShutdownTimeout, Busy, OwnedBy, TypeOK, CancelledLate, registry,
         task, history
<1>8. ASSUME NEW g \in Gateway, ForceDone(g) PROVE CancelledLate'
  BY <1>8
     DEF IInv, ForceDone, OwnedBy, TypeOK, CancelledLate, registry, task,
         signals, history
<1>9. ASSUME NEW g \in Gateway, CloseLoop(g) PROVE CancelledLate'
  BY <1>9, NoneIsNew, SMTT(20)
     DEF IInv, CloseLoop, Busy, OwnedBy, Abandon, TypeOK, CancelledLate,
         registry, history
<1>10. ASSUME NEW g \in Gateway, Exit(g) PROVE CancelledLate'
  <2>1. \A o \in Op : VanishEffect(g, o)
    BY <1>10, VanishFacts DEF IInv, Exit
  <2> QED
    BY <2>1 DEF IInv, VanishEffect, CancelledLate, TypeOK
<1>11. ASSUME NEW g \in Gateway, Crash(g) PROVE CancelledLate'
  <2>1. \A o \in Op : VanishEffect(g, o)
    BY <1>11, VanishFacts DEF IInv, Crash
  <2> QED
    BY <2>1 DEF IInv, VanishEffect, CancelledLate, TypeOK
<1>12. ASSUME NEW g \in Gateway, NEW o \in Op, ForceVisit(g, o) PROVE CancelledLate'
  BY <1>12, NoneIsNew, SMTT(20)
     DEF IInv, ForceVisit, ForcedFinish, Busy, OwnedBy, LockFree, TypeOK,
         CancelledLate, life, task, history
<1>13. ASSUME NEW g \in Gateway, NEW o \in Op, ForceAcquire(g, o) PROVE CancelledLate'
  BY <1>13
     DEF IInv, ForceAcquire, ForcedFinish, LockFree, TypeOK, CancelledLate,
         life, task, history
<1>14. ASSUME NEW g \in Gateway, NEW o \in Op, Cancel(g, o) PROVE CancelledLate'
  BY <1>14
     DEF IInv, Cancel, Busy, OwnedBy, TypeOK, CancelledLate, life, registry,
         task, history
<1>15. ASSUME NEW g \in Gateway, NEW i \in Index, StartReplays(g, i) PROVE CancelledLate'
  BY <1>15
     DEF IInv, StartReplays, Expired, PrunedRecords, PrunedIndex, PrunedDisk,
         TypeOK, CancelledLate, life, task, signals, history
<1>16. ASSUME NEW g \in Gateway, NEW i \in Index, StartFails(g, i) PROVE CancelledLate'
  BY <1>16
     DEF IInv, StartFails, Expired, PrunedRecords, PrunedIndex, PrunedDisk,
         TypeOK, CancelledLate, life, task, signals, history
<1>17. ASSUME NEW g \in Gateway, NEW i \in Index, NEW o \in Op, StartAccepted(g, i, o) PROVE CancelledLate'
  BY <1>17
     DEF IInv, StartAccepted, Expired, PrunedRecords, PrunedIndex, PrunedDisk,
         FirstWrite, TypeOK, CancelledLate, life, signals
<1>18. ASSUME NEW o \in Op, Startup(o) PROVE CancelledLate'
  BY <1>18
     DEF IInv, Startup, TaskAt, TypeOK, CancelledLate, life, registry, signals,
         history
<1>19. ASSUME NEW o \in Op, Watch(o) PROVE CancelledLate'
  BY <1>19
     DEF IInv, Watch, TaskAt, Happened, Requested, Judged, TypeOK,
         CancelledLate, life, registry, signals, history
<1>20. ASSUME NEW o \in Op, Settle(o) PROVE CancelledLate'
  BY <1>20
     DEF IInv, Settle, TaskAt, Abandon, LockFree, TypeOK, CancelledLate, life,
         registry, signals, history
<1>21. ASSUME NEW o \in Op, Finish(o) PROVE CancelledLate'
  BY <1>21
     DEF IInv, Finish, TaskAt, LockFree, TypeOK, CancelledLate, life, task,
         signals, history
<1>22. ASSUME NEW o \in Op, Ending(o) PROVE CancelledLate'
  BY <1>22
     DEF IInv, Ending, TaskAt, TypeOK, CancelledLate, life, registry, history
<1>23. ASSUME NEW o \in Op, DeliverCancel(o) PROVE CancelledLate'
  BY <1>23
     DEF IInv, DeliverCancel, Abandon, TypeOK, CancelledLate, life, registry,
         task, history
<1>24. ASSUME NEW o \in Op, Persist(o) PROVE CancelledLate'
  BY <1>24
     DEF IInv, Persist, LockFree, TypeOK, CancelledLate, life, registry, task,
         signals, history
<1>25. ASSUME NEW o \in Op, Land(o) PROVE CancelledLate'
  BY <1>25
     DEF IInv, Land, TypeOK, CancelledLate, life, registry, task, history
<1>26. CASE UNCHANGED vars
  BY <1>26
     DEF IInv, TypeOK, CancelledLate, vars, life, registry, task, signals,
         history
<1> QED
  BY <1>1, <1>2, <1>3, <1>4, <1>5, <1>6, <1>7, <1>8, <1>9, <1>10, <1>11, <1>12,
     <1>13, <1>14, <1>15, <1>16, <1>17, <1>18, <1>19, <1>20, <1>21, <1>22,
     <1>23, <1>24, <1>25, <1>26
     DEF Next, ProcessStep, TaskStep

\* Recovery, replayed starts, prunes and finishing tasks leave no running
\* record without a task.
LEMMA RunningIsLiveStep == IInv /\ [Next]_vars => RunningIsLive'
<1> SUFFICES ASSUME IInv, [Next]_vars PROVE RunningIsLive'
  OBVIOUS
<1>1. ASSUME NEW g \in Gateway, Load(g) PROVE RunningIsLive'
  <2>1. LoadEffect(g)
    BY <1>1, LoadFacts DEF IInv
  <2> QED
    BY <2>1 DEF IInv, LoadEffect, TypeOK, RunningIsLive
<1>2. ASSUME NEW g \in Gateway, Acquire(g) PROVE RunningIsLive'
  BY <1>2
     DEF IInv, Acquire, Expired, PrunedRecords, PrunedIndex, PrunedDisk,
         RunningIn, TypeOK, RunningIsLive, task, signals, history
<1>3. ASSUME NEW g \in Gateway, AcquireRefused(g) PROVE RunningIsLive'
  BY <1>3
     DEF IInv, AcquireRefused, Vanish, Busy, OwnedBy, TypeOK, RunningIsLive,
         history
<1>4. ASSUME NEW g \in Gateway, RecoveryInterrupted(g) PROVE RunningIsLive'
  BY <1>4
     DEF IInv, RecoveryInterrupted, Vanish, Busy, OwnedBy, RunningIn, TypeOK,
         RunningIsLive, history
<1>5. ASSUME NEW g \in Gateway, BeginShutdown(g) PROVE RunningIsLive'
  BY <1>5
     DEF IInv, BeginShutdown, Busy, OwnedBy, TypeOK, RunningIsLive, registry,
         task, history
<1>6. ASSUME NEW g \in Gateway, ShutdownClean(g) PROVE RunningIsLive'
  BY <1>6
     DEF IInv, ShutdownClean, Busy, OwnedBy, TypeOK, RunningIsLive, registry,
         task, signals, history
<1>7. ASSUME NEW g \in Gateway, ShutdownTimeout(g) PROVE RunningIsLive'
  BY <1>7
     DEF IInv, ShutdownTimeout, Busy, OwnedBy, TypeOK, RunningIsLive, registry,
         task, history
<1>8. ASSUME NEW g \in Gateway, ForceDone(g) PROVE RunningIsLive'
  BY <1>8
     DEF IInv, ForceDone, OwnedBy, TypeOK, RunningIsLive, registry, task,
         signals, history
<1>9. ASSUME NEW g \in Gateway, CloseLoop(g) PROVE RunningIsLive'
  BY <1>9
     DEF IInv, CloseLoop, Busy, OwnedBy, Abandon, TypeOK, RunningIsLive,
         registry, history
<1>10. ASSUME NEW g \in Gateway, Exit(g) PROVE RunningIsLive'
  BY <1>10
     DEF IInv, Exit, Vanish, Busy, OwnedBy, TypeOK, RunningIsLive, history
<1>11. ASSUME NEW g \in Gateway, Crash(g) PROVE RunningIsLive'
  BY <1>11
     DEF IInv, Crash, Vanish, Busy, OwnedBy, TypeOK, RunningIsLive, history
<1>12. ASSUME NEW g \in Gateway, NEW o \in Op, ForceVisit(g, o) PROVE RunningIsLive'
  <2>1. ForceEffect(g, o)
    BY <1>12, ForceFacts DEF IInv
  <2>2. owner \in [Op -> Gateway \cup {None}] /\ index \in [Gateway -> [Index -> Op \cup {None}]]
    BY DEF IInv, TypeOK
  <2> QED
    BY <2>1, <2>2 DEF IInv, ForceEffect, RunningIsLive
<1>13. ASSUME NEW g \in Gateway, NEW o \in Op, ForceAcquire(g, o) PROVE RunningIsLive'
  <2>1. ForceEffect(g, o)
    BY <1>13, ForceFacts DEF IInv
  <2>2. owner \in [Op -> Gateway \cup {None}] /\ index \in [Gateway -> [Index -> Op \cup {None}]]
    BY DEF IInv, TypeOK
  <2> QED
    BY <2>1, <2>2 DEF IInv, ForceEffect, RunningIsLive
<1>14. ASSUME NEW g \in Gateway, NEW o \in Op, Cancel(g, o) PROVE RunningIsLive'
  BY <1>14
     DEF IInv, Cancel, Busy, OwnedBy, TypeOK, RunningIsLive, life, registry,
         task, history
<1>15. ASSUME NEW g \in Gateway, NEW i \in Index, StartReplays(g, i) PROVE RunningIsLive'
  BY <1>15
     DEF IInv, StartReplays, Expired, PrunedRecords, PrunedIndex, PrunedDisk,
         TypeOK, RunningIsLive, life, task, signals, history
<1>16. ASSUME NEW g \in Gateway, NEW i \in Index, StartFails(g, i) PROVE RunningIsLive'
  BY <1>16
     DEF IInv, StartFails, Expired, PrunedRecords, PrunedIndex, PrunedDisk,
         TypeOK, RunningIsLive, life, task, signals, history
<1>17. ASSUME NEW g \in Gateway, NEW i \in Index, NEW o \in Op, StartAccepted(g, i, o) PROVE RunningIsLive'
  BY <1>17
     DEF IInv, StartAccepted, Expired, PrunedRecords, PrunedIndex, PrunedDisk,
         FirstWrite, TypeOK, RunningIsLive, FreshOps, TaskAlive, Live,
         Terminal, EmptyMemory, life, signals
<1>18. ASSUME NEW o \in Op, Startup(o) PROVE RunningIsLive'
  <2>1. /\ \A p \in Op \ {o} : pc'[p] = pc[p]
        /\ pc'[o] \in {"watch", "handler"}
        /\ UNCHANGED <<phase, records, owner>>
    BY <1>18 DEF Startup, TaskAt, life, registry, history, IInv, TypeOK
  <2> QED
    BY <2>1 DEF IInv, RunningIsLive, Live
<1>19. ASSUME NEW o \in Op, Watch(o) PROVE RunningIsLive'
  BY <1>19
     DEF IInv, Watch, TaskAt, Happened, Requested, Judged, TypeOK,
         RunningIsLive, Live, Terminal, life, registry, signals, history
<1>20. ASSUME NEW o \in Op, Settle(o) PROVE RunningIsLive'
  BY <1>20
     DEF IInv, Settle, TaskAt, Abandon, LockFree, TypeOK, RunningIsLive, Live,
         Terminal, life, registry, signals, history
<1>21. ASSUME NEW o \in Op, Finish(o) PROVE RunningIsLive'
  <2>1. FinishEffect(o)
    BY <1>21, FinishFacts DEF IInv
  <2>2. /\ UNCHANGED <<phase, index, disk, readers, cancelled, forced, owner, ident>>
        /\ \A p \in Op \ {o} : verdict'[p] = verdict[p]
        /\ \A w \in writes[o] : w.by = "orphan"
    BY <1>21 DEF IInv, TypeOK, Finish, LockFree, life, signals, history
  <2>3. owner \in [Op -> Gateway \cup {None}] /\ index \in [Gateway -> [Index -> Op \cup {None}]]
    BY DEF IInv, TypeOK
  <2> QED
    BY <2>1, <2>2, <2>3 DEF IInv, FinishEffect, RunningIsLive, Live, Terminal
<1>22. ASSUME NEW o \in Op, Ending(o) PROVE RunningIsLive'
  BY <1>22
     DEF IInv, Ending, TaskAt, TypeOK, RunningIsLive, Live, Terminal, life,
         registry, history
<1>23. ASSUME NEW o \in Op, DeliverCancel(o) PROVE RunningIsLive'
  <2>1. /\ \A p \in Op \ {o} : pc'[p] = pc[p]
        /\ cancelled[o]
        /\ UNCHANGED <<phase, records, owner>>
    BY <1>23 DEF DeliverCancel, life, registry, history, IInv, TypeOK
  <2> QED
    BY <2>1 DEF IInv, RunningIsLive, CancelledLate
<1>24. ASSUME NEW o \in Op, Persist(o) PROVE RunningIsLive'
  BY <1>24
     DEF IInv, Persist, LockFree, TypeOK, RunningIsLive, life, registry, task,
         signals, history
<1>25. ASSUME NEW o \in Op, Land(o) PROVE RunningIsLive'
  <2>1. PICK w \in writes[o] :
          /\ writes' = [writes EXCEPT ![o] = @ \ {w}]
          /\ pc' = IF w.by = "task" THEN [pc EXCEPT ![o] = "ending"] ELSE pc
          /\ UNCHANGED <<phase, records, readers, owner>>
    BY <1>25 DEF Land, life, registry, history
  <2>2. w.by = "task" => pc[o] = "commit"
    BY DEF IInv, TaskThread
  <2>3. \A p \in Op : pc'[p] = pc[p] \/ pc[p] = "commit"
    BY <2>1, <2>2 DEF IInv, TypeOK
  <2> QED
    BY <2>1, <2>3 DEF IInv, RunningIsLive
<1>26. CASE UNCHANGED vars
  BY <1>26
     DEF IInv, TypeOK, RunningIsLive, vars, life, registry, task, signals,
         history
<1> QED
  BY <1>1, <1>2, <1>3, <1>4, <1>5, <1>6, <1>7, <1>8, <1>9, <1>10, <1>11, <1>12,
     <1>13, <1>14, <1>15, <1>16, <1>17, <1>18, <1>19, <1>20, <1>21, <1>22,
     <1>23, <1>24, <1>25, <1>26
     DEF Next, ProcessStep, TaskStep

\* shutdown's loop misses no running record before the mutex is released.
LEMMA ForcedLoopStep == IInv /\ [Next]_vars => ForcedLoop'
<1> SUFFICES ASSUME IInv, [Next]_vars PROVE ForcedLoop'
  OBVIOUS
<1>1. ASSUME NEW g \in Gateway, Load(g) PROVE ForcedLoop'
  <2>1. LoadEffect(g)
    BY <1>1, LoadFacts DEF IInv
  <2> QED
    BY <2>1 DEF IInv, LoadEffect, TypeOK, ForcedLoop, FreshOps
<1>2. ASSUME NEW g \in Gateway, Acquire(g) PROVE ForcedLoop'
  BY <1>2
     DEF IInv, Acquire, Expired, PrunedRecords, PrunedIndex, PrunedDisk,
         RunningIn, TypeOK, ForcedLoop, task, signals, history
<1>3. ASSUME NEW g \in Gateway, AcquireRefused(g) PROVE ForcedLoop'
  BY <1>3
     DEF IInv, AcquireRefused, Vanish, Busy, OwnedBy, TypeOK, ForcedLoop,
         history
<1>4. ASSUME NEW g \in Gateway, RecoveryInterrupted(g) PROVE ForcedLoop'
  BY <1>4
     DEF IInv, RecoveryInterrupted, Vanish, Busy, OwnedBy, RunningIn, TypeOK,
         ForcedLoop, history
<1>5. ASSUME NEW g \in Gateway, BeginShutdown(g) PROVE ForcedLoop'
  BY <1>5
     DEF IInv, BeginShutdown, Busy, OwnedBy, TypeOK, ForcedLoop, registry,
         task, history
<1>6. ASSUME NEW g \in Gateway, ShutdownClean(g) PROVE ForcedLoop'
  <2>1. /\ phase[g] = "stopping" /\ phase' = [phase EXCEPT ![g] = "released"]
        /\ UNCHANGED <<records, owner, forced, writes, pc>>
    BY <1>6 DEF ShutdownClean, registry, task, signals, history
  <2>2. \A p \in Op : owner[p] = g => pc[p] \in {"done", "dead"}
    BY <1>6 DEF ShutdownClean, Busy, OwnedBy
  <2>3. \A p \in Op : owner[p] = g => records[g][p] # "running"
    BY <2>1, <2>2 DEF IInv, RunningIsLive, Live
  <2> QED
    BY <2>1, <2>3 DEF IInv, TypeOK, ForcedLoop
<1>7. ASSUME NEW g \in Gateway, ShutdownTimeout(g) PROVE ForcedLoop'
  <2>1. /\ UNCHANGED <<records, owner, writes>>
        /\ phase[g] = "stopping"
        /\ \A h \in Gateway : IF h = g THEN phase'[h] = "forcing" ELSE phase'[h] = phase[h]
    BY <1>7 DEF ShutdownTimeout, registry, history, IInv, TypeOK
  <2>2. \A p \in Op : IF p \in Busy(g) THEN forced'[p] = "queued" ELSE forced'[p] = forced[p]
    BY <1>7 DEF ShutdownTimeout
  <2>3. \A p \in Op : records[g][p] = "running" => p \in Busy(g)
    BY <2>1 DEF IInv, RunningIsLive, Live, Busy, OwnedBy
  <2>4. owner \in [Op -> Gateway \cup {None}]
    BY DEF IInv, TypeOK
  <2>5. \A p \in Op : p \in Busy(g) => owner[p] = g
    BY DEF Busy, OwnedBy
  <2> QED
    BY <2>1, <2>2, <2>3, <2>4, <2>5 DEF IInv, ForcedLoop
<1>8. ASSUME NEW g \in Gateway, ForceDone(g) PROVE ForcedLoop'
  BY <1>8
     DEF IInv, ForceDone, OwnedBy, TypeOK, ForcedLoop, registry, task, signals,
         history
<1>9. ASSUME NEW g \in Gateway, CloseLoop(g) PROVE ForcedLoop'
  BY <1>9
     DEF IInv, CloseLoop, Busy, OwnedBy, Abandon, TypeOK, ForcedLoop, registry,
         history
<1>10. ASSUME NEW g \in Gateway, Exit(g) PROVE ForcedLoop'
  BY <1>10 DEF IInv, Exit, Vanish, Busy, OwnedBy, TypeOK, ForcedLoop, history
<1>11. ASSUME NEW g \in Gateway, Crash(g) PROVE ForcedLoop'
  BY <1>11 DEF IInv, Crash, Vanish, Busy, OwnedBy, TypeOK, ForcedLoop, history
<1>12. ASSUME NEW g \in Gateway, NEW o \in Op, ForceVisit(g, o) PROVE ForcedLoop'
  <2>1. ForceEffect(g, o)
    BY <1>12, ForceFacts DEF IInv
  <2>2. owner \in [Op -> Gateway \cup {None}] /\ index \in [Gateway -> [Index -> Op \cup {None}]]
    BY DEF IInv, TypeOK
  <2> QED
    BY <2>1, <2>2 DEF IInv, ForceEffect, ForcedLoop
<1>13. ASSUME NEW g \in Gateway, NEW o \in Op, ForceAcquire(g, o) PROVE ForcedLoop'
  <2>1. ForceEffect(g, o)
    BY <1>13, ForceFacts DEF IInv
  <2>2. owner \in [Op -> Gateway \cup {None}] /\ index \in [Gateway -> [Index -> Op \cup {None}]]
    BY DEF IInv, TypeOK
  <2> QED
    BY <2>1, <2>2 DEF IInv, ForceEffect, ForcedLoop
<1>14. ASSUME NEW g \in Gateway, NEW o \in Op, Cancel(g, o) PROVE ForcedLoop'
  BY <1>14
     DEF IInv, Cancel, Busy, OwnedBy, TypeOK, ForcedLoop, life, registry, task,
         history
<1>15. ASSUME NEW g \in Gateway, NEW i \in Index, StartReplays(g, i) PROVE ForcedLoop'
  BY <1>15
     DEF IInv, StartReplays, Expired, PrunedRecords, PrunedIndex, PrunedDisk,
         TypeOK, ForcedLoop, life, task, signals, history
<1>16. ASSUME NEW g \in Gateway, NEW i \in Index, StartFails(g, i) PROVE ForcedLoop'
  BY <1>16
     DEF IInv, StartFails, Expired, PrunedRecords, PrunedIndex, PrunedDisk,
         TypeOK, ForcedLoop, life, task, signals, history
<1>17. ASSUME NEW g \in Gateway, NEW i \in Index, NEW o \in Op, StartAccepted(g, i, o) PROVE ForcedLoop'
  BY <1>17
     DEF IInv, StartAccepted, Expired, PrunedRecords, PrunedIndex, PrunedDisk,
         FirstWrite, TypeOK, ForcedLoop, FreshOps, TaskAlive, RunningIsLive,
         ReadersAlive, EmptyMemory, life, signals
<1>18. ASSUME NEW o \in Op, Startup(o) PROVE ForcedLoop'
  BY <1>18
     DEF IInv, Startup, TaskAt, TypeOK, ForcedLoop, life, registry, signals,
         history
<1>19. ASSUME NEW o \in Op, Watch(o) PROVE ForcedLoop'
  BY <1>19
     DEF IInv, Watch, TaskAt, Happened, Requested, Judged, TypeOK, ForcedLoop,
         life, registry, signals, history
<1>20. ASSUME NEW o \in Op, Settle(o) PROVE ForcedLoop'
  BY <1>20
     DEF IInv, Settle, TaskAt, Abandon, LockFree, TypeOK, ForcedLoop, life,
         registry, signals, history
<1>21. ASSUME NEW o \in Op, Finish(o) PROVE ForcedLoop'
  <2>1. FinishEffect(o)
    BY <1>21, FinishFacts DEF IInv
  <2>2. /\ UNCHANGED <<phase, index, disk, readers, cancelled, forced, owner, ident>>
        /\ \A p \in Op \ {o} : verdict'[p] = verdict[p]
        /\ \A w \in writes[o] : w.by = "orphan"
    BY <1>21 DEF IInv, TypeOK, Finish, LockFree, life, signals, history
  <2>3. owner \in [Op -> Gateway \cup {None}] /\ index \in [Gateway -> [Index -> Op \cup {None}]]
    BY DEF IInv, TypeOK
  <2> QED
    BY <2>1, <2>2, <2>3 DEF IInv, FinishEffect, ForcedLoop, Terminal
<1>22. ASSUME NEW o \in Op, Ending(o) PROVE ForcedLoop'
  BY <1>22
     DEF IInv, Ending, TaskAt, TypeOK, ForcedLoop, life, registry, history
<1>23. ASSUME NEW o \in Op, DeliverCancel(o) PROVE ForcedLoop'
  <2>1. UNCHANGED <<phase, records, owner, forced>>
    BY <1>23 DEF DeliverCancel, life, registry, history
  <2>2. \A w \in Abandon(o, "task") : w.by = "shutdown" => w \in writes[o]
    BY DEF Abandon
  <2>3. \A p \in Op : \A w \in writes'[p] : w.by = "shutdown" => w \in writes[p]
    <3>1. writes' = writes \/ writes' = [writes EXCEPT ![o] = Abandon(o, "task")]
      BY <1>23 DEF DeliverCancel
    <3>2. writes \in [Op -> SUBSET Write]
      BY DEF IInv, TypeOK
    <3> DEFINE left == Abandon(o, "task")
    <3> HIDE DEF left
    <3>3. writes' = writes \/ writes' = [writes EXCEPT ![o] = left]
      BY <3>1 DEF left
    <3>4. \A p \in Op : writes'[p] = writes[p] \/ (p = o /\ writes'[p] = left)
      BY <3>2, <3>3
    <3> SUFFICES ASSUME NEW p \in Op, NEW w \in writes'[p], w.by = "shutdown"
                 PROVE  w \in writes[p]
      OBVIOUS
    <3>5. CASE writes'[p] = writes[p]
      BY <3>5
    <3>6. CASE p = o /\ writes'[p] = left
      BY <2>2, <3>6 DEF left
    <3> QED
      BY <3>4, <3>5, <3>6
  <2> QED
    BY <2>1, <2>3 DEF IInv, ForcedLoop
<1>24. ASSUME NEW o \in Op, Persist(o) PROVE ForcedLoop'
  BY <1>24
     DEF IInv, Persist, LockFree, TypeOK, ForcedLoop, life, registry, task,
         signals, history
<1>25. ASSUME NEW o \in Op, Land(o) PROVE ForcedLoop'
  BY <1>25 DEF IInv, Land, TypeOK, ForcedLoop, life, registry, task, history
<1>26. CASE UNCHANGED vars
  BY <1>26
     DEF IInv, TypeOK, ForcedLoop, vars, life, registry, task, signals,
         history
<1> QED
  BY <1>1, <1>2, <1>3, <1>4, <1>5, <1>6, <1>7, <1>8, <1>9, <1>10, <1>11, <1>12,
     <1>13, <1>14, <1>15, <1>16, <1>17, <1>18, <1>19, <1>20, <1>21, <1>22,
     <1>23, <1>24, <1>25, <1>26
     DEF Next, ProcessStep, TaskStep

\* Load, start, prune and their rollbacks keep index and records together.
LEMMA IndexNeverDanglesStep == IInv /\ [Next]_vars => IndexNeverDangles'
<1> SUFFICES ASSUME IInv, [Next]_vars PROVE IndexNeverDangles'
  OBVIOUS
<1>1. ASSUME NEW g \in Gateway, Load(g) PROVE IndexNeverDangles'
  <2>1. LoadEffect(g)
    BY <1>1, LoadFacts DEF IInv
  <2> QED
    <3>1. /\ \A i \in Index : index'[g][i] # None =>
               records'[g][index'[g][i]] # "absent" /\ ident[index'[g][i]] = i
          /\ \A h \in Gateway \ {g} : records'[h] = records[h] /\ index'[h] = index[h]
          /\ ident' = ident
      BY <2>1 DEF LoadEffect
    <3> QED
      BY <3>1 DEF IInv, IndexNeverDangles
<1>2. ASSUME NEW g \in Gateway, Acquire(g) PROVE IndexNeverDangles'
  BY <1>2
     DEF IInv, Acquire, Expired, PrunedRecords, PrunedIndex, PrunedDisk,
         RunningIn, TypeOK, IndexNeverDangles, task, signals, history
<1>3. ASSUME NEW g \in Gateway, AcquireRefused(g) PROVE IndexNeverDangles'
  BY <1>3
     DEF IInv, AcquireRefused, Vanish, Busy, OwnedBy, TypeOK,
         IndexNeverDangles, history
<1>4. ASSUME NEW g \in Gateway, RecoveryInterrupted(g) PROVE IndexNeverDangles'
  BY <1>4
     DEF IInv, RecoveryInterrupted, Vanish, Busy, OwnedBy, RunningIn, TypeOK,
         IndexNeverDangles, history
<1>5. ASSUME NEW g \in Gateway, BeginShutdown(g) PROVE IndexNeverDangles'
  BY <1>5
     DEF IInv, BeginShutdown, Busy, OwnedBy, TypeOK, IndexNeverDangles,
         registry, task, history
<1>6. ASSUME NEW g \in Gateway, ShutdownClean(g) PROVE IndexNeverDangles'
  BY <1>6
     DEF IInv, ShutdownClean, Busy, OwnedBy, TypeOK, IndexNeverDangles,
         registry, task, signals, history
<1>7. ASSUME NEW g \in Gateway, ShutdownTimeout(g) PROVE IndexNeverDangles'
  BY <1>7
     DEF IInv, ShutdownTimeout, Busy, OwnedBy, TypeOK, IndexNeverDangles,
         registry, task, history
<1>8. ASSUME NEW g \in Gateway, ForceDone(g) PROVE IndexNeverDangles'
  BY <1>8
     DEF IInv, ForceDone, OwnedBy, TypeOK, IndexNeverDangles, registry, task,
         signals, history
<1>9. ASSUME NEW g \in Gateway, CloseLoop(g) PROVE IndexNeverDangles'
  BY <1>9
     DEF IInv, CloseLoop, Busy, OwnedBy, Abandon, TypeOK, IndexNeverDangles,
         registry, history
<1>10. ASSUME NEW g \in Gateway, Exit(g) PROVE IndexNeverDangles'
  BY <1>10
     DEF IInv, Exit, Vanish, Busy, OwnedBy, TypeOK, IndexNeverDangles, history
<1>11. ASSUME NEW g \in Gateway, Crash(g) PROVE IndexNeverDangles'
  BY <1>11
     DEF IInv, Crash, Vanish, Busy, OwnedBy, TypeOK, IndexNeverDangles,
         history
<1>12. ASSUME NEW g \in Gateway, NEW o \in Op, ForceVisit(g, o) PROVE IndexNeverDangles'
  <2>1. ForceEffect(g, o)
    BY <1>12, ForceFacts DEF IInv
  <2>2. owner \in [Op -> Gateway \cup {None}] /\ index \in [Gateway -> [Index -> Op \cup {None}]]
    BY DEF IInv, TypeOK
  <2> QED
    BY <2>1, <2>2 DEF IInv, ForceEffect, IndexNeverDangles
<1>13. ASSUME NEW g \in Gateway, NEW o \in Op, ForceAcquire(g, o) PROVE IndexNeverDangles'
  <2>1. ForceEffect(g, o)
    BY <1>13, ForceFacts DEF IInv
  <2>2. owner \in [Op -> Gateway \cup {None}] /\ index \in [Gateway -> [Index -> Op \cup {None}]]
    BY DEF IInv, TypeOK
  <2> QED
    BY <2>1, <2>2 DEF IInv, ForceEffect, IndexNeverDangles
<1>14. ASSUME NEW g \in Gateway, NEW o \in Op, Cancel(g, o) PROVE IndexNeverDangles'
  BY <1>14
     DEF IInv, Cancel, Busy, OwnedBy, TypeOK, IndexNeverDangles, life,
         registry, task, history
<1>15. ASSUME NEW g \in Gateway, NEW i \in Index, StartReplays(g, i) PROVE IndexNeverDangles'
  BY <1>15
     DEF IInv, StartReplays, Expired, PrunedRecords, PrunedIndex, PrunedDisk,
         TypeOK, IndexNeverDangles, life, task, signals, history
<1>16. ASSUME NEW g \in Gateway, NEW i \in Index, StartFails(g, i) PROVE IndexNeverDangles'
  BY <1>16
     DEF IInv, StartFails, Expired, PrunedRecords, PrunedIndex, PrunedDisk,
         TypeOK, IndexNeverDangles, life, task, signals, history
<1>17. ASSUME NEW g \in Gateway, NEW i \in Index, NEW o \in Op, StartAccepted(g, i, o) PROVE IndexNeverDangles'
  BY <1>17
     DEF IInv, StartAccepted, Expired, PrunedRecords, PrunedIndex, PrunedDisk,
         FirstWrite, TypeOK, IndexNeverDangles, FreshOps, EmptyMemory, life,
         signals
<1>18. ASSUME NEW o \in Op, Startup(o) PROVE IndexNeverDangles'
  BY <1>18
     DEF IInv, Startup, TaskAt, TypeOK, IndexNeverDangles, life, registry,
         signals, history
<1>19. ASSUME NEW o \in Op, Watch(o) PROVE IndexNeverDangles'
  BY <1>19
     DEF IInv, Watch, TaskAt, Happened, Requested, Judged, TypeOK,
         IndexNeverDangles, life, registry, signals, history
<1>20. ASSUME NEW o \in Op, Settle(o) PROVE IndexNeverDangles'
  BY <1>20
     DEF IInv, Settle, TaskAt, Abandon, LockFree, TypeOK, IndexNeverDangles,
         life, registry, signals, history
<1>21. ASSUME NEW o \in Op, Finish(o) PROVE IndexNeverDangles'
  <2>1. FinishEffect(o)
    BY <1>21, FinishFacts DEF IInv
  <2>2. /\ UNCHANGED <<phase, index, disk, readers, cancelled, forced, owner, ident>>
        /\ \A p \in Op \ {o} : verdict'[p] = verdict[p]
        /\ \A w \in writes[o] : w.by = "orphan"
    BY <1>21 DEF IInv, TypeOK, Finish, LockFree, life, signals, history
  <2>3. owner \in [Op -> Gateway \cup {None}] /\ index \in [Gateway -> [Index -> Op \cup {None}]]
    BY DEF IInv, TypeOK
  <2> QED
    BY <2>1, <2>2, <2>3 DEF IInv, FinishEffect, IndexNeverDangles, Terminal
<1>22. ASSUME NEW o \in Op, Ending(o) PROVE IndexNeverDangles'
  BY <1>22
     DEF IInv, Ending, TaskAt, TypeOK, IndexNeverDangles, life, registry,
         history
<1>23. ASSUME NEW o \in Op, DeliverCancel(o) PROVE IndexNeverDangles'
  BY <1>23
     DEF IInv, DeliverCancel, Abandon, TypeOK, IndexNeverDangles, life,
         registry, task, history
<1>24. ASSUME NEW o \in Op, Persist(o) PROVE IndexNeverDangles'
  BY <1>24
     DEF IInv, Persist, LockFree, TypeOK, IndexNeverDangles, life, registry,
         task, signals, history
<1>25. ASSUME NEW o \in Op, Land(o) PROVE IndexNeverDangles'
  BY <1>25
     DEF IInv, Land, TypeOK, IndexNeverDangles, life, registry, task, history
<1>26. CASE UNCHANGED vars
  BY <1>26
     DEF IInv, TypeOK, IndexNeverDangles, vars, life, registry, task, signals,
         history
<1> QED
  BY <1>1, <1>2, <1>3, <1>4, <1>5, <1>6, <1>7, <1>8, <1>9, <1>10, <1>11, <1>12,
     <1>13, <1>14, <1>15, <1>16, <1>17, <1>18, <1>19, <1>20, <1>21, <1>22,
     <1>23, <1>24, <1>25, <1>26
     DEF Next, ProcessStep, TaskStep

\* No step of a process that goes on changes a terminal state in memory.
LEMMA TerminalStep == IInv /\ [Next]_vars => MemoryKeepsTerminal
<1> SUFFICES ASSUME IInv, [Next]_vars PROVE MemoryKeepsTerminal
  OBVIOUS
<1>1. ASSUME NEW g \in Gateway, Load(g) PROVE MemoryKeepsTerminal
  <2>1. LoadEffect(g)
    BY <1>1, LoadFacts DEF IInv
  <2> QED
    BY <2>1 DEF IInv, LoadEffect, TypeOK, EmptyMemory, Terminal, MemoryKeepsTerminal
<1>2. ASSUME NEW g \in Gateway, Acquire(g) PROVE MemoryKeepsTerminal
  BY <1>2
     DEF IInv, Acquire, Expired, PrunedRecords, PrunedIndex, PrunedDisk,
         RunningIn, TypeOK, Terminal, MemoryKeepsTerminal, task, signals,
         history
<1>3. ASSUME NEW g \in Gateway, AcquireRefused(g) PROVE MemoryKeepsTerminal
  BY <1>3
     DEF IInv, AcquireRefused, Vanish, Busy, OwnedBy, TypeOK,
         MemoryKeepsTerminal, history
<1>4. ASSUME NEW g \in Gateway, RecoveryInterrupted(g) PROVE MemoryKeepsTerminal
  BY <1>4
     DEF IInv, RecoveryInterrupted, Vanish, Busy, OwnedBy, RunningIn, TypeOK,
         MemoryKeepsTerminal, history
<1>5. ASSUME NEW g \in Gateway, BeginShutdown(g) PROVE MemoryKeepsTerminal
  BY <1>5
     DEF IInv, BeginShutdown, Busy, OwnedBy, TypeOK, MemoryKeepsTerminal,
         registry, task, history
<1>6. ASSUME NEW g \in Gateway, ShutdownClean(g) PROVE MemoryKeepsTerminal
  BY <1>6
     DEF IInv, ShutdownClean, Busy, OwnedBy, TypeOK, MemoryKeepsTerminal,
         registry, task, signals, history
<1>7. ASSUME NEW g \in Gateway, ShutdownTimeout(g) PROVE MemoryKeepsTerminal
  BY <1>7
     DEF IInv, ShutdownTimeout, Busy, OwnedBy, TypeOK, MemoryKeepsTerminal,
         registry, task, history
<1>8. ASSUME NEW g \in Gateway, ForceDone(g) PROVE MemoryKeepsTerminal
  BY <1>8
     DEF IInv, ForceDone, OwnedBy, TypeOK, MemoryKeepsTerminal, registry, task,
         signals, history
<1>9. ASSUME NEW g \in Gateway, CloseLoop(g) PROVE MemoryKeepsTerminal
  BY <1>9
     DEF IInv, CloseLoop, Busy, OwnedBy, Abandon, TypeOK, MemoryKeepsTerminal,
         registry, history
<1>10. ASSUME NEW g \in Gateway, Exit(g) PROVE MemoryKeepsTerminal
  BY <1>10
     DEF IInv, Exit, Vanish, Busy, OwnedBy, TypeOK, MemoryKeepsTerminal,
         history
<1>11. ASSUME NEW g \in Gateway, Crash(g) PROVE MemoryKeepsTerminal
  BY <1>11
     DEF IInv, Crash, Vanish, Busy, OwnedBy, TypeOK, MemoryKeepsTerminal,
         history
<1>12. ASSUME NEW g \in Gateway, NEW o \in Op, ForceVisit(g, o) PROVE MemoryKeepsTerminal
  <2>1. ForceEffect(g, o)
    BY <1>12, ForceFacts DEF IInv
  <2>2. owner \in [Op -> Gateway \cup {None}] /\ index \in [Gateway -> [Index -> Op \cup {None}]]
    BY DEF IInv, TypeOK
  <2> QED
    BY <2>1, <2>2 DEF IInv, ForceEffect, MemoryKeepsTerminal
<1>13. ASSUME NEW g \in Gateway, NEW o \in Op, ForceAcquire(g, o) PROVE MemoryKeepsTerminal
  <2>1. ForceEffect(g, o)
    BY <1>13, ForceFacts DEF IInv
  <2>2. owner \in [Op -> Gateway \cup {None}] /\ index \in [Gateway -> [Index -> Op \cup {None}]]
    BY DEF IInv, TypeOK
  <2> QED
    BY <2>1, <2>2 DEF IInv, ForceEffect, MemoryKeepsTerminal
<1>14. ASSUME NEW g \in Gateway, NEW o \in Op, Cancel(g, o) PROVE MemoryKeepsTerminal
  BY <1>14
     DEF IInv, Cancel, Busy, OwnedBy, TypeOK, MemoryKeepsTerminal, life,
         registry, task, history
<1>15. ASSUME NEW g \in Gateway, NEW i \in Index, StartReplays(g, i) PROVE MemoryKeepsTerminal
  BY <1>15
     DEF IInv, StartReplays, Expired, PrunedRecords, PrunedIndex, PrunedDisk,
         TypeOK, MemoryKeepsTerminal, life, task, signals, history
<1>16. ASSUME NEW g \in Gateway, NEW i \in Index, StartFails(g, i) PROVE MemoryKeepsTerminal
  BY <1>16
     DEF IInv, StartFails, Expired, PrunedRecords, PrunedIndex, PrunedDisk,
         TypeOK, MemoryKeepsTerminal, life, task, signals, history
<1>17. ASSUME NEW g \in Gateway, NEW i \in Index, NEW o \in Op, StartAccepted(g, i, o) PROVE MemoryKeepsTerminal
  <2>1. PICK lost \in SUBSET Expired(g) :
          records' = [records EXCEPT
            ![g] = [PrunedRecords(g, lost) EXCEPT ![o] = "running"]]
    BY <1>17 DEF StartAccepted
  <2>2. \A h \in Gateway, p \in Op :
          p # o => records'[h][p] \in {records[h][p], "absent"}
    BY <2>1 DEF PrunedRecords, IInv, TypeOK
  <2>3. \A h \in Gateway : records[h][o] = "absent"
    BY <1>17 DEF StartAccepted, IInv, FreshOps
  <2> QED
    BY <2>2, <2>3 DEF MemoryKeepsTerminal, Terminal
<1>18. ASSUME NEW o \in Op, Startup(o) PROVE MemoryKeepsTerminal
  BY <1>18
     DEF IInv, Startup, TaskAt, TypeOK, MemoryKeepsTerminal, life, registry,
         signals, history
<1>19. ASSUME NEW o \in Op, Watch(o) PROVE MemoryKeepsTerminal
  BY <1>19
     DEF IInv, Watch, TaskAt, Happened, Requested, Judged, TypeOK,
         MemoryKeepsTerminal, life, registry, signals, history
<1>20. ASSUME NEW o \in Op, Settle(o) PROVE MemoryKeepsTerminal
  BY <1>20
     DEF IInv, Settle, TaskAt, Abandon, LockFree, TypeOK, MemoryKeepsTerminal,
         life, registry, signals, history
<1>21. ASSUME NEW o \in Op, Finish(o) PROVE MemoryKeepsTerminal
  <2>1. FinishEffect(o)
    BY <1>21, FinishFacts DEF IInv
  <2>2. /\ UNCHANGED <<phase, index, disk, readers, cancelled, forced, owner, ident>>
        /\ \A p \in Op \ {o} : verdict'[p] = verdict[p]
        /\ \A w \in writes[o] : w.by = "orphan"
    BY <1>21 DEF IInv, TypeOK, Finish, LockFree, life, signals, history
  <2>3. owner \in [Op -> Gateway \cup {None}] /\ index \in [Gateway -> [Index -> Op \cup {None}]]
    BY DEF IInv, TypeOK
  <2> QED
    BY <2>1, <2>2, <2>3 DEF IInv, FinishEffect, MemoryKeepsTerminal
<1>22. ASSUME NEW o \in Op, Ending(o) PROVE MemoryKeepsTerminal
  BY <1>22
     DEF IInv, Ending, TaskAt, TypeOK, MemoryKeepsTerminal, life, registry,
         history
<1>23. ASSUME NEW o \in Op, DeliverCancel(o) PROVE MemoryKeepsTerminal
  BY <1>23
     DEF IInv, DeliverCancel, Abandon, TypeOK, MemoryKeepsTerminal, life,
         registry, task, history
<1>24. ASSUME NEW o \in Op, Persist(o) PROVE MemoryKeepsTerminal
  BY <1>24
     DEF IInv, Persist, LockFree, TypeOK, MemoryKeepsTerminal, life, registry,
         task, signals, history
<1>25. ASSUME NEW o \in Op, Land(o) PROVE MemoryKeepsTerminal
  BY <1>25
     DEF IInv, Land, TypeOK, MemoryKeepsTerminal, life, registry, task,
         history
<1>26. CASE UNCHANGED vars
  BY <1>26
     DEF IInv, TypeOK, MemoryKeepsTerminal, vars, life, registry, task,
         signals, history
<1> QED
  BY <1>1, <1>2, <1>3, <1>4, <1>5, <1>6, <1>7, <1>8, <1>9, <1>10, <1>11, <1>12,
     <1>13, <1>14, <1>15, <1>16, <1>17, <1>18, <1>19, <1>20, <1>21, <1>22,
     <1>23, <1>24, <1>25, <1>26
     DEF Next, ProcessStep, TaskStep

-----------------------------------------------------------------------------
\* The invariant holds when nothing has happened yet.
LEMMA InitInv == Init => IInv
<1> SUFFICES ASSUME Init PROVE IInv
  OBVIOUS
<1>1. TypeOK
  BY DEF Init, TypeOK, Phase, State, Live
<1>2. FreshOps
  BY NoneIsNew DEF Init, FreshOps
<1>5. EmptyMemory /\ IndexNeverDangles
  BY DEF Init, EmptyMemory, IndexNeverDangles
<1>3. TaskAlive /\ TaskThread /\ RunningIsLive /\ ForcedLoop
  BY DEF Init, TaskAlive, TaskThread, RunningIsLive, ForcedLoop
<1>4. ReadersAlive /\ CancelledLate
  BY DEF Init, ReadersAlive, CancelledLate
<1> QED
  BY <1>1, <1>2, <1>3, <1>4, <1>5 DEF IInv

\* The conjunction is inductive: each conjunct is kept by every step from a
\* state in which all of them hold.
THEOREM Inductive == Spec => []IInv
<1>1. IInv /\ [Next]_vars => IInv'
  BY TypeStep, FreshOpsStep, EmptyMemoryStep, TaskAliveStep, ReadersAliveStep,
     TaskThreadStep, CancelledLateStep, RunningIsLiveStep, ForcedLoopStep,
     IndexNeverDanglesStep
     DEF IInv
<1> QED
  BY InitInv, <1>1, PTL DEF Spec

\* The state of every process, record, task and thread keeps its type; in
\* particular no task reaches _finish with nothing to record.
THEOREM TypeCorrect == Spec => []TypeOK
<1>1. IInv => TypeOK
  BY DEF IInv
<1> QED
  BY Inductive, <1>1, PTL

\* start never looks up an operation that the records have lost, and never
\* answers one request with the operation of another: load, registration,
\* rollback and prune keep _idempotency and _records together.
THEOREM IndexSound == Spec => []IndexNeverDangles
<1>1. IInv => IndexNeverDangles
  BY DEF IInv
<1> QED
  BY Inductive, <1>1, PTL

\* A record that says running belongs to a live task of the serving process:
\* recovery, replay and prune leave no operation running for ever.
THEOREM RunningBelongsToATask == Spec => []RunningHasTask
<1>1. IInv => RunningHasTask
  BY DEF IInv, RunningIsLive, RunningHasTask, Live
<1> QED
  BY Inductive, <1>1, PTL

\* shutdown releases the mutex only when every operation of the process is
\* terminal in memory, whatever its task was doing.
THEOREM ShutdownSound == Spec => []ShutdownSettlesAll
<1>1. IInv => ShutdownSettlesAll
  <2> SUFFICES ASSUME IInv, NEW o \in Op, Owned(o),
                      phase[owner[o]] \in {"released", "closing"}
               PROVE  records[owner[o]][o] \in Terminal \cup {"absent"}
    BY DEF ShutdownSettlesAll
  <2>1. owner[o] \in Gateway
    BY DEF IInv, TypeOK, Owned
  <2>2. records[owner[o]][o] \in State \cup {"absent"}
    BY <2>1 DEF IInv, TypeOK
  <2>3. records[owner[o]][o] # "running"
    BY DEF IInv, ForcedLoop, Owned
  <2> QED
    BY <2>2, <2>3 DEF State
<1> QED
  BY Inductive, <1>1, PTL

\* _finish by the task, _finish by shutdown and recovery record a terminal
\* state in memory once: whoever comes second changes nothing.
THEOREM TerminalOnceInMemory == Spec => MemoryTerminalOnce
<1>1. IInv /\ [Next]_vars => [MemoryKeepsTerminal]_vars
  BY TerminalStep
<1> QED
  BY Inductive, <1>1, PTL DEF Spec, MemoryTerminalOnce
-----------------------------------------------------------------------------
(***************************************************************************)
(* What is kept across crashes, restarts, processes that overlap and state *)
(* files that cannot be read.                                              *)
(***************************************************************************)
(* Memory and file of a process that is not disturbed.                     *)

\* The mutex is held by the process that serves, up to its release.
MutexHeld ==
  \A g \in Gateway : phase[g] \in {"serving", "stopping", "forcing"} => mutex = g

\* What a thread is about to write is what memory says, until one is
\* abandoned; a running operation has no thread that was.
WritesAgree ==
  \A o \in Op : Attended(o) /\ o \notin torn \cup pruned =>
    /\ \A w \in writes[o] : w.state = records[owner[o]][o]
    /\ writes[o] = {} => disk[o] = records[owner[o]][o]
    /\ records[owner[o]][o] = "running" => \A w \in writes[o] : w.by # "orphan"

\* A task that waits for its thread has recorded the end of the operation.
CommitIsOver ==
  \A o \in Op : pc[o] = "commit" => Owned(o) /\ records[owner[o]][o] # "running"

DiskInv == MutexHeld /\ WritesAgree /\ CommitIsOver

-----------------------------------------------------------------------------
\* The mutex passes from process to process.
LEMMA MutexHeldStep == IInv /\ DiskInv /\ [Next]_vars => MutexHeld'
<1> SUFFICES ASSUME IInv, DiskInv, [Next]_vars PROVE MutexHeld'
  OBVIOUS
<1> USE DEF IInv, TypeOK, DiskInv, MutexHeld
<1>1. CASE UNCHANGED life
  BY <1>1 DEF life
<1>2. ASSUME NEW g \in Gateway,
             \/ Load(g) \/ AcquireRefused(g) \/ RecoveryInterrupted(g)
             \/ ShutdownTimeout(g) \/ BeginShutdown(g) \/ CloseLoop(g)
             \/ Exit(g) \/ Crash(g)
      PROVE  MutexHeld'
  BY <1>2 DEF Load, AcquireRefused, RecoveryInterrupted, ShutdownTimeout, BeginShutdown,
              CloseLoop, Exit, Crash, Vanish
<1>3. ASSUME NEW g \in Gateway, Acquire(g) \/ ShutdownClean(g) \/ ForceDone(g)
      PROVE  MutexHeld'
  BY <1>3, NoneIsNew DEF Acquire, ShutdownClean, ForceDone
<1>4. ASSUME NEW g \in Gateway,
             \/ \E o \in Op : ForceVisit(g, o) \/ ForceAcquire(g, o) \/ Cancel(g, o)
             \/ \E i \in Index : StartReplays(g, i) \/ StartFails(g, i)
             \/ \E i \in Index, o \in Op : StartAccepted(g, i, o)
      PROVE  UNCHANGED life
  BY <1>4 DEF ForceVisit, ForceAcquire, Cancel, StartReplays, StartFails, StartAccepted
<1>5. ASSUME NEW o \in Op, TaskStep(o) PROVE UNCHANGED life
  BY <1>5 DEF TaskStep, Startup, Watch, Settle, Finish, Ending, DeliverCancel, Persist, Land
<1> QED
  BY <1>1, <1>2, <1>3, <1>4, <1>5 DEF Next, ProcessStep, vars

\* Only _finish of the task makes it wait for a thread, after the record.
LEMMA CommitIsOverStep == IInv /\ DiskInv /\ [Next]_vars => CommitIsOver'
<1> SUFFICES ASSUME IInv, DiskInv, [Next]_vars,
                    NEW o \in Op, pc'[o] = "commit"
             PROVE  (Owned(o) /\ records[owner[o]][o] # "running")'
  BY DEF CommitIsOver
<1>1. CASE UNCHANGED <<records, owner, pc>>
  BY <1>1 DEF DiskInv, CommitIsOver, Owned
<1>2. ASSUME NEW g \in Gateway, Load(g) \/ Acquire(g)
      PROVE  (Owned(o) /\ records[owner[o]][o] # "running")'
  <2>1. UNCHANGED <<owner, pc>> /\ phase[g] \in {"loaded", "off"}
    BY <1>2 DEF Load, Acquire, task, history
  <2>2. Owned(o) /\ records[owner[o]][o] # "running" /\ owner[o] # g
    BY <2>1 DEF DiskInv, CommitIsOver, IInv, FreshOps
  <2>3. records'[owner[o]] = records[owner[o]]
    BY <1>2, <2>2, LoadFacts DEF LoadEffect, Acquire, IInv, TypeOK, Owned
  <2> QED
    BY <2>1, <2>2, <2>3 DEF Owned
<1>3. ASSUME NEW g \in Gateway, Vanish(g)
      PROVE  (Owned(o) /\ records[owner[o]][o] # "running")'
  <2>1. pc[o] = "commit" /\ owner[o] # g /\ owner' = owner
    BY <1>3 DEF Vanish, Busy, OwnedBy, history
  <2> QED
    BY <1>3, <2>1 DEF Vanish, DiskInv, CommitIsOver, Owned, IInv, TypeOK
<1>4. ASSUME NEW g \in Gateway, NEW p \in Op, ForceVisit(g, p) \/ ForceAcquire(g, p)
      PROVE  (Owned(o) /\ records[owner[o]][o] # "running")'
  <2>1. ForceEffect(g, p)
    BY <1>4, ForceFacts DEF IInv
  <2>2. /\ owner' = owner /\ pc' = pc
        /\ \A h \in Gateway, q \in Op : records'[h][q] = "running" => records[h][q] = "running"
    BY <2>1 DEF ForceEffect, Terminal
  <2> QED
    BY <2>2, OwnerKnown DEF DiskInv, CommitIsOver, Owned, IInv
<1>5. ASSUME NEW g \in Gateway, NEW i \in Index, StartReplays(g, i) \/ StartFails(g, i)
      PROVE  (Owned(o) /\ records[owner[o]][o] # "running")'
  <2>1. PICK lost \in SUBSET Op : records' = [records EXCEPT ![g] = PrunedRecords(g, lost)]
    BY <1>5 DEF StartReplays, StartFails, Expired
  <2>2. UNCHANGED <<owner, pc>>
    BY <1>5 DEF StartReplays, StartFails, task, history
  <2>3. \A h \in Gateway : records'[h][o] \in {records[h][o], "absent"}
    BY <2>1 DEF PrunedRecords, IInv, TypeOK
  <2> QED
    BY <2>2, <2>3 DEF DiskInv, CommitIsOver, Owned, IInv, TypeOK
<1>6. ASSUME NEW g \in Gateway, NEW i \in Index, NEW p \in Op, StartAccepted(g, i, p)
      PROVE  (Owned(o) /\ records[owner[o]][o] # "running")'
  <2>1. p # o /\ pc[o] = "commit" /\ owner'[o] = owner[o]
    BY <1>6 DEF StartAccepted, IInv, TypeOK
  <2>2. owner[o] \in Gateway /\ records[owner[o]][o] # "running"
    BY <2>1 DEF DiskInv, CommitIsOver, Owned, IInv, TypeOK
  <2>3. PICK lost \in SUBSET Op :
          records' = [records EXCEPT ![g] = [PrunedRecords(g, lost) EXCEPT ![p] = "running"]]
    BY <1>6 DEF StartAccepted, Expired
  <2>4. records'[owner[o]][o] # "running"
    BY <2>1, <2>2, <2>3 DEF PrunedRecords, IInv, TypeOK
  <2> QED
    BY <2>1, <2>2, <2>4, NoneIsNew DEF Owned
<1>7. ASSUME NEW p \in Op, Finish(p)
      PROVE  (Owned(o) /\ records[owner[o]][o] # "running")'
  <2>1. FinishEffect(p) /\ owner' = owner
    BY <1>7, FinishFacts DEF IInv, Finish, history
  <2>2. CASE p = o
    BY <2>1, <2>2, NoneIsNew DEF FinishEffect, Owned, Terminal
  <2>3. CASE p # o
    BY <2>1, <2>3 DEF FinishEffect, DiskInv, CommitIsOver, Owned, IInv, TypeOK
  <2> QED
    BY <2>2, <2>3
<1>8. ASSUME NEW g \in Gateway,
             \/ BeginShutdown(g) \/ ShutdownClean(g) \/ ShutdownTimeout(g)
             \/ ForceDone(g) \/ CloseLoop(g) \/ \E p \in Op : Cancel(g, p)
      PROVE  UNCHANGED <<records, owner, pc>>
  BY <1>8 DEF BeginShutdown, ShutdownClean, ShutdownTimeout, ForceDone, CloseLoop, Cancel,
              registry, task, history
<1>9. ASSUME NEW p \in Op,
             \/ Startup(p) \/ Watch(p) \/ Settle(p) \/ Ending(p) \/ DeliverCancel(p)
             \/ Persist(p) \/ Land(p)
      PROVE  (Owned(o) /\ records[owner[o]][o] # "running")'
  <2>1. UNCHANGED <<records, owner>>
    BY <1>9 DEF Startup, Watch, Settle, Ending, DeliverCancel, Persist, Land, registry, history
  <2>2. pc[o] = "commit"
    BY <1>9 DEF Startup, Watch, Settle, Ending, DeliverCancel, Persist, Land, task, IInv, TypeOK
  <2> QED
    BY <2>1, <2>2 DEF DiskInv, CommitIsOver, Owned
<1>10. UNCHANGED vars => UNCHANGED <<records, owner, pc>>
  BY DEF vars, registry, task, history
<1> QED
  BY <1>1, <1>2, <1>3, <1>4, <1>5, <1>6, <1>7, <1>8, <1>9, <1>10
     DEF Next, ProcessStep, TaskStep, AcquireRefused, RecoveryInterrupted, Exit, Crash

\* The part of WritesAgree that is about operation o.
AgreesOn(o) ==
  Attended(o) /\ o \notin torn \cup pruned =>
    /\ \A w \in writes[o] : w.state = records[owner[o]][o]
    /\ writes[o] = {} => disk[o] = records[owner[o]][o]
    /\ records[owner[o]][o] = "running" => \A w \in writes[o] : w.by # "orphan"

\* A step that leaves o alone, or ends its process, keeps that part.
LEMMA LeftAlone ==
  ASSUME IInv, DiskInv, NEW o \in Op,
         Attended(o)' =>
           /\ Attended(o) /\ owner'[o] = owner[o]
           /\ o \in torn \cup pruned => o \in torn' \cup pruned'
           /\ o \notin torn' \cup pruned' =>
                /\ records'[owner[o]][o] = records[owner[o]][o]
                /\ disk'[o] = disk[o] /\ writes'[o] = writes[o]
  PROVE  AgreesOn(o)'
  BY DEF AgreesOn, DiskInv, WritesAgree

\* The end of a process concerns only the operations that it owned.
LEMMA AgreeVanish ==
  ASSUME IInv, DiskInv, NEW o \in Op, NEW g \in Gateway, Vanish(g),
         phase[g] \notin {"off", "exited"},
         disk' = disk \/ mutex = None
  PROVE  AgreesOn(o)'
<1>1. Attended(o)' => Attended(o) /\ owner'[o] = owner[o] /\ owner[o] # g
  BY DEF Vanish, Attended, Owned, history, IInv, TypeOK
<1>2. Attended(o) => mutex # None
  BY NoneIsNew DEF Attended, Owned, DiskInv, MutexHeld, IInv, TypeOK
<1>3. Attended(o)' => /\ records'[owner[o]] = records[owner[o]]
                      /\ writes'[o] = writes[o] /\ UNCHANGED <<torn, pruned>>
  BY <1>1 DEF Vanish, Attended, Owned, IInv, TypeOK
<1> QED
  BY <1>1, <1>2, <1>3, LeftAlone

\* The life of a process, and the steps of a task that write nothing.
LEMMA AgreeQuiet ==
  ASSUME IInv, DiskInv, NEW o \in Op,
         \/ \E g \in Gateway :
              \/ Load(g) \/ BeginShutdown(g) \/ ShutdownClean(g) \/ ShutdownTimeout(g)
              \/ ForceDone(g) \/ CloseLoop(g) \/ \E p \in Op : Cancel(g, p)
         \/ \E p \in Op : Startup(p) \/ Watch(p) \/ Ending(p)
         \/ UNCHANGED vars
  PROVE  AgreesOn(o)'
<1>1. UNCHANGED <<disk, owner, torn, pruned>>
  BY DEF Load, BeginShutdown, ShutdownClean, ShutdownTimeout, ForceDone, CloseLoop, Cancel,
         Startup, Watch, Ending, vars, history
<1>2. \A g \in Gateway :
        phase'[g] \in {"serving", "stopping", "forcing"} =>
          phase[g] \in {"serving", "stopping", "forcing"}
  BY DEF Load, BeginShutdown, ShutdownClean, ShutdownTimeout, ForceDone, CloseLoop, Cancel,
         Startup, Watch, Ending, vars, life, IInv, TypeOK
<1>3. Attended(o)' => Attended(o) /\ owner[o] \in Gateway
  BY <1>1, <1>2 DEF Attended, Owned, IInv, TypeOK
<1>4. CASE UNCHANGED <<records, writes>>
  BY <1>1, <1>3, <1>4, LeftAlone
<1>5. ASSUME NEW g \in Gateway, Load(g) PROVE AgreesOn(o)'
  <2>1. Attended(o) => owner[o] # g
    BY <1>5 DEF Load, Attended, IInv, FreshOps
  <2>2. Attended(o) => records'[owner[o]] = records[owner[o]]
    BY <1>5, <2>1, LoadFacts DEF LoadEffect, Attended, Owned, IInv, TypeOK
  <2> QED
    BY <1>1, <1>3, <1>5, <2>2, LeftAlone DEF Load
<1>6. ASSUME NEW g \in Gateway, CloseLoop(g) PROVE AgreesOn(o)'
  <2>1. Attended(o)' => owner[o] # g
    BY <1>1, <1>6 DEF CloseLoop, Attended, Owned, IInv, TypeOK
  <2>2. Attended(o)' => writes'[o] = writes[o]
    BY <1>6, <2>1 DEF CloseLoop
  <2> QED
    BY <1>1, <1>3, <1>6, <2>2, LeftAlone DEF CloseLoop, registry
<1> QED
  BY <1>4, <1>5, <1>6
     DEF BeginShutdown, ShutdownClean, ShutdownTimeout, ForceDone, Cancel, Startup, Watch,
         Ending, vars, registry

\* Requests, and the prunes with which they and the start-up begin.
LEMMA AgreeRequest ==
  ASSUME IInv, DiskInv, NEW o \in Op, NEW g \in Gateway,
         \/ Acquire(g)
         \/ \E i \in Index : StartReplays(g, i) \/ StartFails(g, i)
         \/ \E i \in Index, p \in Op : StartAccepted(g, i, p)
  PROVE  AgreesOn(o)'
<1>1. CASE Acquire(g)
  <2>1. ~Attended(o)
    BY <1>1, NoneIsNew DEF Acquire, Attended, Owned, DiskInv, MutexHeld, IInv, TypeOK
  <2>2. Attended(o)' => owner[o] = g
    BY <1>1, <2>1 DEF Acquire, history, Attended, Owned, IInv, TypeOK
  <2> QED
    BY <1>1, <2>1, <2>2, LeftAlone DEF Acquire, Attended, Owned, history, IInv, FreshOps
<1>2. ASSUME NEW i \in Index, StartReplays(g, i) \/ StartFails(g, i)
      PROVE  AgreesOn(o)'
  <2>1. PICK gone \in SUBSET Expired(g), lost \in SUBSET Expired(g) :
          /\ lost \subseteq gone
          /\ records' = [records EXCEPT ![g] = PrunedRecords(g, lost)]
          /\ disk' = PrunedDisk(gone)
          /\ pruned' = pruned \cup gone
    BY <1>2 DEF StartReplays, StartFails
  <2>2. UNCHANGED <<phase, writes, owner, torn>>
    BY <1>2 DEF StartReplays, StartFails, life, history
  <2>3. o \notin gone =>
          disk'[o] = disk[o] /\ \A h \in Gateway : records'[h][o] = records[h][o]
    BY <2>1 DEF PrunedRecords, PrunedDisk, IInv, TypeOK
  <2>4. Attended(o)' => Attended(o) /\ owner[o] \in Gateway
    BY <2>2 DEF Attended, Owned, IInv, TypeOK
  <2> QED
    BY <2>1, <2>2, <2>3, <2>4, LeftAlone
<1>3. ASSUME NEW i \in Index, NEW p \in Op, StartAccepted(g, i, p)
      PROVE  AgreesOn(o)'
  <2>1. PICK gone \in SUBSET Expired(g), lost \in SUBSET Expired(g) :
          /\ lost \subseteq gone
          /\ records' = [records EXCEPT
               ![g] = [PrunedRecords(g, lost) EXCEPT ![p] = "running"]]
          /\ disk' = FirstWrite(gone, p)
          /\ pruned' = pruned \cup gone
    BY <1>3 DEF StartAccepted
  <2>2. /\ owner[p] = None /\ writes[p] = {}
        /\ owner' = [owner EXCEPT ![p] = g]
        /\ UNCHANGED <<phase, writes, torn>>
    BY <1>3 DEF StartAccepted, life, IInv, FreshOps
  <2>3. records'[g] = [PrunedRecords(g, lost) EXCEPT ![p] = "running"]
    BY <2>1 DEF IInv, TypeOK
  <2>4. CASE o = p
    <3>1. writes'[o] = {} /\ disk'[o] = "running" /\ owner'[o] = g
      BY <2>1, <2>2, <2>4 DEF FirstWrite, PrunedDisk, IInv, TypeOK
    <3>2. records'[g][o] = "running"
      BY <2>3, <2>4 DEF PrunedRecords
    <3> QED
      BY <3>1, <3>2 DEF AgreesOn
  <2>5. CASE o # p
    <3>1. owner'[o] = owner[o]
      BY <2>2, <2>5 DEF IInv, TypeOK
    <3>2. o \notin gone => disk'[o] = disk[o]
      BY <2>1, <2>5 DEF FirstWrite, PrunedDisk
    <3>3. o \notin gone => records'[g][o] = records[g][o]
      BY <2>1, <2>3, <2>5 DEF PrunedRecords
    <3>4. \A h \in Gateway \ {g} : records'[h] = records[h]
      BY <2>1 DEF IInv, TypeOK
    <3>5. Attended(o)' => Attended(o) /\ owner[o] \in Gateway
      BY <2>2, <3>1 DEF Attended, Owned, IInv, TypeOK
    <3> QED
      BY <2>1, <2>2, <3>1, <3>2, <3>3, <3>4, <3>5, LeftAlone
  <2> QED
    BY <2>4, <2>5
<1> QED
  BY <1>1, <1>2, <1>3

\* What _finish of p does for whoever calls it: nothing, or it records the end
\* and lets a thread write it, if it has the lock.
FinishOnce(p) ==
  \/ UNCHANGED <<records, writes>>
  \/ /\ LockFree(p) /\ records[owner[p]][p] = "running"
     /\ \E s \in Terminal, h \in Holder :
          /\ records' = [records EXCEPT ![owner[p]][p] = s]
          /\ writes' = [writes EXCEPT ![p] = @ \cup {[state |-> s, by |-> h]}]

\* That is all that the task, or the loop of shutdown, does with it.
LEMMA FinishIsOnce ==
  ASSUME IInv, NEW p \in Op,
         Finish(p) \/ \E g \in Gateway : ForceVisit(g, p) \/ ForceAcquire(g, p)
  PROVE  owner[p] \in Gateway /\ FinishOnce(p)
<1>1. CASE Finish(p)
  <2>1. owner[p] \in Gateway /\ verdict[p] \in Terminal
    BY <1>1, OwnerKnown DEF Finish, TaskAt, IInv, TaskAlive
  <2>2. FinishOnce(p)
    BY <1>1, <2>1 DEF Finish, FinishOnce, Holder
  <2> QED
    BY <2>1, <2>2
<1>2. ASSUME NEW g \in Gateway, ForceVisit(g, p) \/ ForceAcquire(g, p)
      PROVE  owner[p] \in Gateway /\ FinishOnce(p)
  <2>1. owner[p] = g
    BY <1>2 DEF ForceVisit, ForceAcquire
  <2>2. FinishOnce(p)
    BY <1>2, <2>1 DEF ForceVisit, ForceAcquire, ForcedFinish, FinishOnce, Holder, Terminal
  <2> QED
    BY <2>1, <2>2
<1> QED
  BY <1>1, <1>2

\* _finish of shutdown and of a task: the thread writes what was recorded.
LEMMA AgreeFinish ==
  ASSUME IInv, DiskInv, NEW o \in Op, NEW p \in Op,
         Finish(p) \/ \E g \in Gateway : ForceVisit(g, p) \/ ForceAcquire(g, p)
  PROVE  AgreesOn(o)'
<1>1. /\ UNCHANGED <<phase, disk, owner, torn, pruned>>
      /\ owner[p] \in Gateway
      /\ FinishOnce(p)
  BY FinishIsOnce DEF Finish, ForceVisit, ForceAcquire, life, history
<1>2. Attended(o)' => Attended(o) /\ owner[o] \in Gateway
  BY <1>1 DEF Attended, Owned, IInv, TypeOK
<1>3. CASE UNCHANGED <<records, writes>>
  BY <1>1, <1>2, <1>3, LeftAlone
<1>4. ASSUME LockFree(p), records[owner[p]][p] = "running",
             NEW s \in Terminal, NEW h \in Holder,
             records' = [records EXCEPT ![owner[p]][p] = s],
             writes' = [writes EXCEPT ![p] = @ \cup {[state |-> s, by |-> h]}]
      PROVE  AgreesOn(o)'
  <2>1. CASE o # p
    <3>1. writes'[o] = writes[o] /\ (Attended(o)' => records'[owner[o]][o] = records[owner[o]][o])
      BY <1>2, <1>4, <2>1 DEF IInv, TypeOK
    <3> QED
      BY <1>1, <1>2, <3>1, LeftAlone
  <2>2. CASE o = p
    <3> SUFFICES ASSUME Attended(o), o \notin torn \cup pruned PROVE AgreesOn(o)'
      BY <1>1, <1>2 DEF AgreesOn
    <3>1. writes[o] = {}
      BY <1>4, <2>2 DEF LockFree, DiskInv, WritesAgree
    <3>2. writes'[o] = {[state |-> s, by |-> h]}
      BY <1>4, <2>2, <3>1 DEF IInv, TypeOK
    <3>3. records'[owner[o]][o] = s /\ s # "running"
      BY <1>1, <1>4, <2>2 DEF IInv, TypeOK, Terminal
    <3>4. writes'[o] # {} /\ \A w \in writes'[o] : w.state = s
      BY <3>2
    <3> QED
      BY <1>1, <3>3, <3>4 DEF AgreesOn
  <2> QED
    BY <2>1, <2>2
<1> QED
  BY <1>1, <1>3, <1>4 DEF FinishOnce

\* Threads that start for a reader, that are abandoned, and that end.
LEMMA AgreeThread ==
  ASSUME IInv, DiskInv, NEW o \in Op, NEW p \in Op,
         Settle(p) \/ DeliverCancel(p) \/ Persist(p) \/ Land(p)
  PROVE  AgreesOn(o)'
<1>1. UNCHANGED <<phase, records, owner, pruned>>
  BY DEF Settle, DeliverCancel, Persist, Land, life, registry, history
<1>2. Attended(o)' <=> Attended(o)
  BY <1>1 DEF Attended, Owned
<1>3. CASE o # p
  <2>1. disk'[o] = disk[o] /\ writes'[o] = writes[o] /\ (o \in torn' <=> o \in torn)
    BY <1>3 DEF Settle, DeliverCancel, Persist, Land, IInv, TypeOK
  <2> QED
    BY <1>1, <1>2, <2>1, LeftAlone
<1>4. CASE o = p
  <2> SUFFICES ASSUME Attended(o), o \notin torn' \cup pruned PROVE AgreesOn(o)'
    BY <1>1, <1>2 DEF AgreesOn
  <2>1. o \notin torn
    BY <1>4 DEF Settle, DeliverCancel, Persist, Land, IInv, TypeOK
  <2>2. /\ \A w \in writes[o] : w.state = records[owner[o]][o]
        /\ writes[o] = {} => disk[o] = records[owner[o]][o]
        /\ records[owner[o]][o] = "running" => \A w \in writes[o] : w.by # "orphan"
    BY <2>1 DEF DiskInv, WritesAgree
  <2>3. CASE Settle(o)
    <3>1. LockFree(o) /\ disk' = disk
      BY <2>3 DEF Settle, IInv, TypeOK
    <3>2. writes'[o] = writes[o]
      <4>1. \A w \in writes[o] : w.by # "drain"
        BY <3>1 DEF LockFree
      <4>2. Abandon(o, "drain") = writes[o]
        BY <4>1 DEF Abandon
      <4> QED
        BY <2>3, <4>2 DEF Settle, IInv, TypeOK
    <3> QED
      BY <1>1, <2>2, <3>1, <3>2 DEF AgreesOn
  <2>4. CASE DeliverCancel(o)
    <3>1. disk' = disk
      BY <2>4 DEF DeliverCancel
    <3>2. CASE writes'[o] = writes[o]
      BY <1>1, <2>2, <3>1, <3>2 DEF AgreesOn
    <3>3. CASE writes'[o] = Abandon(o, "task") /\ pc[o] = "handler"
      <4>1. \A w \in writes[o] : w.by # "task"
        BY <3>3 DEF IInv, TaskThread
      <4>2. Abandon(o, "task") = writes[o]
        BY <4>1 DEF Abandon
      <4> QED
        BY <1>1, <2>2, <3>1, <3>3, <4>2 DEF AgreesOn
    <3>4. CASE writes'[o] = Abandon(o, "task") /\ pc[o] = "commit"
      <4>1. records[owner[o]][o] # "running"
        BY <3>4 DEF DiskInv, CommitIsOver
      <4>2. \A w \in Abandon(o, "task") : \E v \in writes[o] : w.state = v.state
        BY DEF Abandon
      <4>3. Abandon(o, "task") = {} => writes[o] = {}
        BY DEF Abandon
      <4> QED
        BY <1>1, <2>2, <3>1, <3>4, <4>1, <4>2, <4>3 DEF AgreesOn
    <3> QED
      BY <2>4, <3>2, <3>3, <3>4 DEF DeliverCancel, IInv, TypeOK
  <2>5. CASE Persist(o)
    BY <1>1, <2>2, <2>5 DEF Persist, AgreesOn, IInv, TypeOK
  <2>6. CASE Land(o)
    <3>1. PICK w \in writes[o] : disk' = [disk EXCEPT ![o] = w.state] /\ writes'[o] = writes[o] \ {w}
      BY <2>6 DEF Land, IInv, TypeOK
    <3>2. disk'[o] = records[owner[o]][o]
      BY <2>2, <3>1 DEF IInv, TypeOK
    <3> QED
      BY <1>1, <2>2, <3>1, <3>2 DEF AgreesOn
  <2> QED
    BY <1>4, <2>3, <2>4, <2>5, <2>6
<1> QED
  BY <1>3, <1>4

\* Every step keeps memory, threads and files in agreement.
LEMMA DiskStep == IInv /\ DiskInv /\ [Next]_vars => DiskInv'
<1> SUFFICES ASSUME IInv, DiskInv, [Next]_vars PROVE WritesAgree'
  BY MutexHeldStep, CommitIsOverStep DEF DiskInv
<1> SUFFICES ASSUME NEW o \in Op PROVE AgreesOn(o)'
  BY DEF WritesAgree, AgreesOn
<1>1. ASSUME NEW g \in Gateway,
             AcquireRefused(g) \/ RecoveryInterrupted(g) \/ Exit(g) \/ Crash(g)
      PROVE  AgreesOn(o)'
  BY <1>1, AgreeVanish DEF AcquireRefused, RecoveryInterrupted, Exit, Crash
<1> QED
  BY <1>1, AgreeQuiet, AgreeRequest, AgreeFinish, AgreeThread
     DEF Next, ProcessStep, TaskStep

-----------------------------------------------------------------------------
(* What one process leaves to the next.                                    *)

\* Every operation was started for a request ...
NamedOnce == \A o \in Op : Owned(o) => ident[o] \in Index

\* ... and has its state file until the TTL removes it.
PresentOnDisk == \A o \in Op : Owned(o) /\ o \notin pruned => disk[o] # "absent"

\* A process knows what was started before, but for what it could not know, and
\* finds what it knows, but for what it knows twice.
Knows(g) ==
  /\ \A o \in Op : Owned(o) /\ o \notin pruned => records[g][o] # "absent" \/ o \in blind[g]
  /\ \A o \in Op : records[g][o] # "absent"
                     => index[g][ident[o]] = o \/ ident[o] \in clashing[g]

Informed == \A g \in Gateway : phase[g] \in {"loaded", "serving"} => Knows(g)

RestartInv == NamedOnce /\ PresentOnDisk /\ Informed /\ OneOperationPerRequest

-----------------------------------------------------------------------------
\* A step that neither creates a process, nor prunes or starts an operation,
\* takes no file away and changes nothing that a process knows.
Steady ==
  /\ UNCHANGED <<index, ident, owner, blind, clashing, pruned>>
  /\ \A g \in Gateway : phase'[g] \in {"loaded", "serving"} => phase'[g] = phase[g]
  /\ \A g \in Gateway, o \in Op : records'[g][o] = "absent" <=> records[g][o] = "absent"
  /\ \A o \in Op : disk[o] # "absent" => disk'[o] # "absent"

\* The life of a process between its start and its end.
LEMMA SteadyProcess ==
  ASSUME IInv, NEW g \in Gateway,
         \/ BeginShutdown(g) \/ ShutdownClean(g) \/ ShutdownTimeout(g)
         \/ ForceDone(g) \/ CloseLoop(g) \/ \E o \in Op : Cancel(g, o)
  PROVE  Steady
<1>1. UNCHANGED <<registry, disk, history, pruned>>
  BY DEF BeginShutdown, ShutdownClean, ShutdownTimeout, ForceDone, CloseLoop, Cancel
<1>2. \A h \in Gateway : phase'[h] \in {"loaded", "serving"} => phase'[h] = phase[h]
  BY DEF IInv, TypeOK, BeginShutdown, ShutdownClean, ShutdownTimeout, ForceDone, CloseLoop,
         Cancel, life
<1> QED
  BY <1>1, <1>2 DEF Steady, registry, history

\* A turn of shutdown's loop, and the task's own _finish.
LEMMA SteadyFinish ==
  ASSUME IInv, NEW o \in Op,
         Finish(o) \/ \E g \in Gateway : ForceVisit(g, o) \/ ForceAcquire(g, o)
  PROVE  Steady
<1>1. UNCHANGED <<phase, index, disk, history, pruned>>
  BY DEF Finish, ForceVisit, ForceAcquire, life
<1>2. owner[o] \in Gateway /\ FinishOnce(o)
  BY FinishIsOnce
<1>3. \A g \in Gateway, p \in Op : records'[g][p] = "absent" <=> records[g][p] = "absent"
  <2>1. records \in [Gateway -> [Op -> State \cup {"absent"}]]
    BY DEF IInv, TypeOK
  <2> QED
    BY <1>2, <2>1 DEF FinishOnce, Terminal
<1> QED
  BY <1>1, <1>3 DEF Steady, history

\* The other steps of a task, of a reader or of a thread.
LEMMA SteadyTask ==
  ASSUME IInv, NEW o \in Op,
         \/ Startup(o) \/ Watch(o) \/ Settle(o) \/ Ending(o)
         \/ DeliverCancel(o) \/ Persist(o) \/ Land(o)
  PROVE  Steady
<1>1. UNCHANGED <<phase, registry, history, pruned>>
  BY DEF Startup, Watch, Settle, Ending, DeliverCancel, Persist, Land, life
<1>2. CASE Land(o)
  <2>1. PICK w \in writes[o] : disk' = [disk EXCEPT ![o] = w.state] \/ disk' = disk
    BY <1>2 DEF Land
  <2>2. w.state # "absent"
    <3>1. w \in Write
      BY DEF IInv, TypeOK
    <3> QED
      BY <3>1 DEF Write, State, Terminal
  <2> QED
    BY <1>1, <2>1, <2>2 DEF Steady, registry, history, IInv, TypeOK
<1>3. CASE ~Land(o)
  BY <1>1, <1>3 DEF Startup, Watch, Settle, Ending, DeliverCancel, Persist, Steady, registry,
                    history
<1> QED
  BY <1>2, <1>3

\* No steady step disturbs what one process leaves to the next.
LEMMA SteadyKeeps ==
  ASSUME RestartInv, Steady
  PROVE  RestartInv'
<1>1. NamedOnce' /\ PresentOnDisk' /\ OneOperationPerRequest'
  BY DEF RestartInv, NamedOnce, PresentOnDisk, OneOperationPerRequest, Excused, Steady, Owned
<1>2. Informed'
  <2> SUFFICES ASSUME NEW g \in Gateway, phase'[g] \in {"loaded", "serving"}
               PROVE  Knows(g)'
    BY DEF Informed
  <2>1. Knows(g)
    BY DEF RestartInv, Informed, Steady
  <2> QED
    BY <2>1 DEF Knows, Steady, Owned
<1> QED
  BY <1>1, <1>2 DEF RestartInv

-----------------------------------------------------------------------------
(* The steps that are not steady.                                          *)

\* A prune takes from the index what it takes from the records, no more.
LEMMA PrunedIndexKnows ==
  ASSUME NEW g \in Gateway, Knows(g), NEW lost \in SUBSET Expired(g),
         NEW o \in Op \ lost, records[g][o] # "absent", ident[o] \in Index \ clashing[g]
  PROVE  PrunedIndex(g, lost)[ident[o]] = o
<1>1. \A p \in lost : p \in Op /\ records[g][p] # "absent"
  BY DEF Expired, Terminal
<1>2. index[g][ident[o]] = o /\ \A p \in lost : ident[p] = ident[o] => index[g][ident[p]] = p
  BY <1>1 DEF Knows
<1> QED
  BY <1>2 DEF PrunedIndex

\* A process that is created knows what it reads; what it does not read is
\* what it is blind to.
LEMMA LoadKeeps ==
  ASSUME IInv, RestartInv, NEW g \in Gateway, Load(g)
  PROVE  RestartInv'
<1>1. LoadEffect(g)
  BY LoadFacts DEF IInv
<1>2. NamedOnce' /\ PresentOnDisk'
  BY <1>1 DEF LoadEffect, RestartInv, NamedOnce, PresentOnDisk, Owned
<1>3. \A o \in Op : Owned(o) => owner[o] \in Gateway \ {g}
  BY <1>1 DEF LoadEffect, IInv, TypeOK, FreshOps, Owned
<1>4. OneOperationPerRequest'
  BY <1>1, <1>3 DEF LoadEffect, RestartInv, OneOperationPerRequest, Excused, Owned
<1>5. Knows(g)'
  <2>1. \A o \in Op : Owned(o)' /\ o \notin pruned'
                        => records'[g][o] # "absent" \/ o \in blind'[g]
    BY <1>1 DEF LoadEffect, RestartInv, PresentOnDisk, Owned
  <2>2. ASSUME NEW o \in Op, records'[g][o] # "absent" PROVE ident[o] \in Index
    <3>1. Owned(o)
      BY <1>1, <2>2 DEF LoadEffect, IInv, FreshOps, Owned
    <3> QED
      BY <3>1 DEF RestartInv, NamedOnce
  <2>3. \A o \in Op : records'[g][o] # "absent"
                        => index'[g][ident'[o]] = o \/ ident'[o] \in clashing'[g]
    BY <1>1, <2>2 DEF LoadEffect
  <2> QED
    BY <2>1, <2>3 DEF Knows
<1>6. ASSUME NEW h \in Gateway \ {g}, phase'[h] \in {"loaded", "serving"} PROVE Knows(h)'
  <2>1. Knows(h)
    BY <1>1, <1>6 DEF LoadEffect, RestartInv, Informed, IInv, TypeOK
  <2> QED
    BY <1>1, <2>1 DEF LoadEffect, Knows, Owned
<1> QED
  BY <1>2, <1>4, <1>5, <1>6 DEF RestartInv, Informed

\* A process that ends, in any way, leaves the files.
LEMMA VanishKeeps ==
  ASSUME IInv, RestartInv, NEW g \in Gateway,
         AcquireRefused(g) \/ RecoveryInterrupted(g) \/ Exit(g) \/ Crash(g)
  PROVE  RestartInv'
<1>1. Vanish(g)
  BY DEF AcquireRefused, RecoveryInterrupted, Exit, Crash
<1>2. /\ phase' = [phase EXCEPT ![g] = "exited"]
      /\ UNCHANGED <<ident, owner, blind, clashing, pruned>>
      /\ \A h \in Gateway \ {g} : records'[h] = records[h] /\ index'[h] = index[h]
  BY <1>1 DEF Vanish, history, IInv, TypeOK
<1>3. \A o \in Op : disk[o] # "absent" => disk'[o] # "absent"
  BY DEF AcquireRefused, RecoveryInterrupted, Exit, Crash
<1>4. NamedOnce' /\ PresentOnDisk' /\ OneOperationPerRequest'
  BY <1>2, <1>3
     DEF RestartInv, NamedOnce, PresentOnDisk, OneOperationPerRequest, Excused, Owned
<1>5. ASSUME NEW h \in Gateway, phase'[h] \in {"loaded", "serving"} PROVE Knows(h)'
  <2>1. h # g /\ Knows(h)
    BY <1>2, <1>5 DEF RestartInv, Informed, IInv, TypeOK
  <2> QED
    BY <1>2, <2>1 DEF Knows, Owned
<1> QED
  BY <1>4, <1>5 DEF RestartInv, Informed

\* What a prune by g leaves of the registry, and who else is not concerned.
PruneEffect(g) ==
  /\ phase[g] \in {"loaded", "serving"}
  /\ \A h \in Gateway : phase'[h] \in {"loaded", "serving"} => phase[h] \in {"loaded", "serving"}
  /\ UNCHANGED <<ident, owner, blind, clashing>>
  /\ \E gone \in SUBSET Expired(g), lost \in SUBSET Expired(g) :
       /\ lost \subseteq gone
       /\ \A o \in Op : records'[g][o] = "absent" <=> o \in lost \/ records[g][o] = "absent"
       /\ index'[g] = PrunedIndex(g, lost)
       /\ \A o \in Op \ gone : disk[o] # "absent" => disk'[o] # "absent"
       /\ pruned' = pruned \cup gone
  /\ \A h \in Gateway \ {g} : records'[h] = records[h] /\ index'[h] = index[h]

\* start that replays or fails prunes ...
LEMMA RequestPrunes ==
  ASSUME IInv, NEW g \in Gateway, NEW i \in Index, StartReplays(g, i) \/ StartFails(g, i)
  PROVE  PruneEffect(g)
<1>1. PICK gone \in SUBSET Expired(g), lost \in SUBSET Expired(g) :
        /\ lost \subseteq gone
        /\ records' = [records EXCEPT ![g] = PrunedRecords(g, lost)]
        /\ index' = [index EXCEPT ![g] = PrunedIndex(g, lost)]
        /\ disk' = PrunedDisk(gone)
        /\ pruned' = pruned \cup gone
  BY DEF StartReplays, StartFails
<1>2. phase[g] = "serving" /\ UNCHANGED <<phase, ident, owner, blind, clashing>>
  BY DEF StartReplays, StartFails, life, history
<1>3. /\ \A h \in Gateway \ {g} : records'[h] = records[h] /\ index'[h] = index[h]
      /\ index'[g] = PrunedIndex(g, lost) /\ records'[g] = PrunedRecords(g, lost)
  BY <1>1 DEF IInv, TypeOK
<1>4. /\ \A o \in Op : records'[g][o] = "absent" <=> o \in lost \/ records[g][o] = "absent"
      /\ \A o \in Op \ gone : disk[o] # "absent" => disk'[o] # "absent"
  BY <1>1, <1>3 DEF PrunedRecords, PrunedDisk
<1> QED
  BY <1>1, <1>2, <1>3, <1>4 DEF PruneEffect

\* ... and so does the process that gets the mutex, which also settles what
\* it has read as running.
LEMMA AcquirePrunes ==
  ASSUME IInv, NEW g \in Gateway, Acquire(g)
  PROVE  PruneEffect(g)
<1>1. PICK gone \in SUBSET Expired(g), lost \in SUBSET Expired(g) :
        /\ lost \subseteq gone
        /\ records' = [records EXCEPT ![g] =
             [o \in Op |-> IF o \in RunningIn(g) THEN "interrupted"
                           ELSE PrunedRecords(g, lost)[o]]]
        /\ index' = [index EXCEPT ![g] = PrunedIndex(g, lost)]
        /\ disk' = [o \in Op |-> IF o \in RunningIn(g) THEN "interrupted"
                                 ELSE PrunedDisk(gone)[o]]
        /\ pruned' = pruned \cup gone
  BY DEF Acquire
<1>2. /\ phase[g] = "loaded" /\ phase' = [phase EXCEPT ![g] = "serving"]
      /\ UNCHANGED <<ident, owner, blind, clashing>>
  BY DEF Acquire, history
<1>3. /\ \A h \in Gateway \ {g} : records'[h] = records[h] /\ index'[h] = index[h]
      /\ index'[g] = PrunedIndex(g, lost)
      /\ \A o \in Op : records'[g][o] = IF o \in RunningIn(g) THEN "interrupted"
                                        ELSE PrunedRecords(g, lost)[o]
  BY <1>1 DEF IInv, TypeOK
<1>4. /\ \A o \in Op : records'[g][o] = "absent" <=> o \in lost \/ records[g][o] = "absent"
      /\ \A o \in Op \ gone : disk[o] # "absent" => disk'[o] # "absent"
  BY <1>1, <1>3 DEF PrunedRecords, PrunedDisk, RunningIn, Expired, Terminal
<1>5. \A h \in Gateway : phase'[h] \in {"loaded", "serving"} => phase[h] \in {"loaded", "serving"}
  BY <1>2 DEF IInv, TypeOK
<1> QED
  BY <1>1, <1>2, <1>3, <1>4, <1>5 DEF PruneEffect

\* A prune removes nothing but what its process knew.
LEMMA PruneKeeps ==
  ASSUME IInv, RestartInv, NEW g \in Gateway, PruneEffect(g)
  PROVE  RestartInv'
<1>1. PICK gone \in SUBSET Expired(g), lost \in SUBSET Expired(g) :
        /\ lost \subseteq gone
        /\ \A o \in Op : records'[g][o] = "absent" <=> o \in lost \/ records[g][o] = "absent"
        /\ index'[g] = PrunedIndex(g, lost)
        /\ \A o \in Op \ gone : disk[o] # "absent" => disk'[o] # "absent"
        /\ pruned' = pruned \cup gone
  BY DEF PruneEffect
<1>2. /\ UNCHANGED <<ident, owner, blind, clashing>>
      /\ \A h \in Gateway \ {g} : records'[h] = records[h] /\ index'[h] = index[h]
      /\ \A h \in Gateway : phase'[h] \in {"loaded", "serving"}
                              => phase[h] \in {"loaded", "serving"}
  BY DEF PruneEffect
<1>3. NamedOnce' /\ PresentOnDisk' /\ OneOperationPerRequest'
  BY <1>1, <1>2
     DEF RestartInv, NamedOnce, PresentOnDisk, OneOperationPerRequest, Excused, Owned
<1>4. Knows(g)'
  <2>1. Knows(g)
    BY DEF PruneEffect, RestartInv, Informed
  <2>2. \A o \in Op : Owned(o)' /\ o \notin pruned'
                        => records'[g][o] # "absent" \/ o \in blind'[g]
    BY <1>1, <1>2, <2>1 DEF Knows, Owned
  <2>3. ASSUME NEW o \in Op, records'[g][o] # "absent", ident[o] \notin clashing[g]
        PROVE  index'[g][ident[o]] = o
    <3>1. o \notin lost /\ records[g][o] # "absent"
      BY <1>1, <2>3
    <3>2. ident[o] \in Index
      BY <3>1 DEF RestartInv, NamedOnce, Owned, IInv, FreshOps
    <3> QED
      BY <1>1, <2>1, <2>3, <3>1, <3>2, PrunedIndexKnows
  <2> QED
    BY <1>2, <2>2, <2>3 DEF Knows
<1>5. ASSUME NEW h \in Gateway \ {g}, phase'[h] \in {"loaded", "serving"} PROVE Knows(h)'
  <2>1. Knows(h)
    BY <1>2, <1>5 DEF RestartInv, Informed
  <2> QED
    BY <1>1, <1>2, <2>1 DEF Knows, Owned
<1> QED
  BY <1>3, <1>4, <1>5 DEF RestartInv, Informed

\* A request that finds no operation gets one that nobody has seen before, and
\* that no process but the one that serves can know.
LEMMA StartKeeps ==
  ASSUME IInv, MutexHeld, RestartInv, NEW g \in Gateway, NEW i \in Index, NEW o \in Op,
         StartAccepted(g, i, o)
  PROVE  RestartInv'
<1>1. /\ phase[g] = "serving" /\ owner[o] = None
      /\ phase' = phase /\ clashing' = clashing
      /\ ident' = [ident EXCEPT ![o] = i]
      /\ owner' = [owner EXCEPT ![o] = g]
      /\ \A h \in Gateway : blind'[h] = IF phase[h] = "loaded" THEN blind[h] \cup {o}
                                        ELSE blind[h]
  BY DEF StartAccepted, life
<1>2. PICK gone \in SUBSET Expired(g), lost \in SUBSET Expired(g) :
        /\ lost \subseteq gone
        /\ PrunedIndex(g, lost)[i] = None
        /\ records' = [records EXCEPT
             ![g] = [PrunedRecords(g, lost) EXCEPT ![o] = "running"]]
        /\ index' = [index EXCEPT ![g] = [PrunedIndex(g, lost) EXCEPT ![i] = o]]
        /\ disk' = FirstWrite(gone, o)
        /\ pruned' = pruned \cup gone
  BY DEF StartAccepted
<1>3. /\ gone \subseteq Op /\ lost \subseteq Expired(g) /\ Knows(g)
      /\ \A h \in Gateway : records[h][o] = "absent"
  BY <1>1 DEF Expired, RestartInv, Informed, IInv, FreshOps
<1>4. \A p \in Op : disk'[p] = IF p = o THEN "running"
                              ELSE IF p \in gone THEN "absent" ELSE disk[p]
  BY <1>2 DEF FirstWrite, PrunedDisk
<1>5. \A p \in Op : records'[g][p] = IF p = o THEN "running"
                                    ELSE IF p \in lost THEN "absent" ELSE records[g][p]
  <2>1. records'[g] = [PrunedRecords(g, lost) EXCEPT ![o] = "running"]
    BY <1>2 DEF IInv, TypeOK
  <2> QED
    BY <2>1 DEF PrunedRecords
<1>6. \A h \in Gateway \ {g} : records'[h] = records[h] /\ index'[h] = index[h]
  BY <1>2 DEF IInv, TypeOK
<1>7. /\ ident'[o] = i /\ owner'[o] = g
      /\ \A p \in Op \ {o} : ident'[p] = ident[p] /\ owner'[p] = owner[p]
  BY <1>1 DEF IInv, TypeOK
<1>8. ASSUME NEW p \in Op \ {o}, p \notin lost, records[g][p] # "absent",
             ident[p] \notin clashing[g]
      PROVE  ident[p] \in Index /\ PrunedIndex(g, lost)[ident[p]] = p /\ ident[p] # i
  <2>1. ident[p] \in Index
    BY <1>8 DEF RestartInv, NamedOnce, Owned, IInv, FreshOps
  <2>2. PrunedIndex(g, lost)[ident[p]] = p
    BY <1>3, <1>8, <2>1, PrunedIndexKnows
  <2> QED
    BY <1>2, <2>1, <2>2, NoneIsNew
<1>9. NamedOnce' /\ PresentOnDisk'
  BY <1>2, <1>4, <1>7 DEF RestartInv, NamedOnce, PresentOnDisk, Owned
<1>10. OneOperationPerRequest'
  <2>1. ASSUME NEW p \in Op \ {o}, Owned(p), ident[p] = i, p \notin pruned'
        PROVE  Excused(p, o)'
    <3>1. records[g][p] # "absent" \/ p \in blind[g]
      BY <1>2, <1>3, <2>1 DEF Knows
    <3>2. p \notin lost
      BY <1>2, <2>1
    <3>3. p \in blind[g] \/ i \in clashing[g]
      BY <1>8, <2>1, <3>1, <3>2
    <3> QED
      BY <1>1, <1>7, <3>3 DEF Excused
  <2>2. ASSUME NEW p \in Op \ {o}, NEW q \in Op \ {o}, Owned(q), Excused(p, q)
        PROVE  Excused(p, q)'
    <3>1. owner[q] \in Gateway /\ owner'[q] = owner[q] /\ ident'[q] = ident[q]
      BY <1>7, <2>2 DEF Owned, IInv, TypeOK
    <3> QED
      BY <1>1, <2>2, <3>1 DEF Excused
  <2>3. \A p \in Op \ {o} : Owned(p)' <=> Owned(p)
    BY <1>7 DEF Owned
  <2> SUFFICES ASSUME NEW p \in Op, NEW q \in Op, Owned(p)', Owned(q)',
                      ident'[p] = ident'[q], p # q, p \notin pruned', q \notin pruned'
               PROVE  Excused(p, q)' \/ Excused(q, p)'
    BY DEF OneOperationPerRequest
  <2>4. CASE p = o
    BY <1>7, <2>1, <2>3, <2>4
  <2>5. CASE q = o
    BY <1>7, <2>1, <2>3, <2>5
  <2>6. CASE p # o /\ q # o
    <3>1. Excused(p, q) \/ Excused(q, p)
      BY <1>2, <1>7, <2>3, <2>6 DEF RestartInv, OneOperationPerRequest
    <3> QED
      BY <2>2, <2>3, <2>6, <3>1
  <2> QED
    BY <2>4, <2>5, <2>6
<1>11. Knows(g)'
  <2>1. index'[g] = [PrunedIndex(g, lost) EXCEPT ![i] = o]
    BY <1>2 DEF IInv, TypeOK
  <2>2. index'[g][i] = o /\ \A j \in Index \ {i} : index'[g][j] = PrunedIndex(g, lost)[j]
    BY <2>1 DEF PrunedIndex
  <2>3. \A p \in Op : records'[g][p] # "absent"
                        => index'[g][ident'[p]] = p \/ ident'[p] \in clashing'[g]
    BY <1>1, <1>5, <1>7, <1>8, <2>2
  <2>4. ASSUME NEW p \in Op, Owned(p)', p \notin pruned'
        PROVE  records'[g][p] # "absent" \/ p \in blind'[g]
    <3>1. CASE p = o
      BY <1>5, <3>1
    <3>2. CASE p # o
      <4>1. Owned(p) /\ p \notin pruned /\ p \notin lost
        BY <1>2, <1>7, <2>4, <3>2 DEF Owned
      <4>2. records[g][p] # "absent" \/ p \in blind[g]
        BY <1>3, <4>1 DEF Knows
      <4> QED
        BY <1>1, <1>5, <3>2, <4>1, <4>2
    <3> QED
      BY <3>1, <3>2
  <2> QED
    BY <2>3, <2>4 DEF Knows
<1>12. ASSUME NEW h \in Gateway \ {g}, phase'[h] \in {"loaded", "serving"} PROVE Knows(h)'
  <2>1. phase[h] = "loaded"
    BY <1>1, <1>12 DEF MutexHeld
  <2>2. Knows(h)
    BY <2>1 DEF RestartInv, Informed
  <2>3. \A p \in Op : Owned(p)' /\ p \notin pruned'
                        => records'[h][p] # "absent" \/ p \in blind'[h]
    BY <1>1, <1>2, <1>6, <1>7, <2>1, <2>2 DEF Knows, Owned
  <2>4. \A p \in Op : records'[h][p] # "absent"
                        => index'[h][ident'[p]] = p \/ ident'[p] \in clashing'[h]
    BY <1>1, <1>3, <1>6, <1>7, <2>2 DEF Knows
  <2> QED
    BY <2>3, <2>4 DEF Knows
<1> QED
  BY <1>1, <1>9, <1>10, <1>11, <1>12 DEF RestartInv, Informed

-----------------------------------------------------------------------------
\* Every step keeps what one process leaves to the next.
LEMMA RestartStep == IInv /\ DiskInv /\ RestartInv /\ [Next]_vars => RestartInv'
<1> SUFFICES ASSUME IInv, MutexHeld, RestartInv, [Next]_vars PROVE RestartInv'
  BY DEF DiskInv
<1>1. ASSUME NEW g \in Gateway, ProcessStep(g) PROVE RestartInv'
  BY <1>1, LoadKeeps, AcquirePrunes, RequestPrunes, PruneKeeps, VanishKeeps, StartKeeps,
     SteadyProcess, SteadyFinish, SteadyKeeps
     DEF ProcessStep
<1>2. ASSUME NEW o \in Op, TaskStep(o) PROVE RestartInv'
  BY <1>2, SteadyTask, SteadyFinish, SteadyKeeps DEF TaskStep
<1>3. CASE UNCHANGED vars
  BY <1>3, SteadyKeeps DEF Steady, vars, life, registry, history
<1> QED
  BY <1>1, <1>2, <1>3 DEF Next

\* Nothing has been started, and nothing is on disk.
LEMMA RestartInit == Init => DiskInv /\ RestartInv
<1> SUFFICES ASSUME Init PROVE DiskInv /\ RestartInv
  OBVIOUS
<1>1. DiskInv
  BY DEF Init, DiskInv, MutexHeld, WritesAgree, CommitIsOver, Attended, Owned
<1>2. NamedOnce /\ PresentOnDisk /\ Informed /\ OneOperationPerRequest
  BY DEF Init, NamedOnce, PresentOnDisk, Informed, OneOperationPerRequest, Owned
<1> QED
  BY <1>1, <1>2 DEF RestartInv

\* Memory, threads and file of an operation agree as long as no write failed
\* or was abandoned, with any number of overlapping processes.
THEOREM DiskFollowsMemory == Spec => []DiskInv
<1> QED
  BY RestartInit, DiskStep, Inductive, PTL DEF Spec

\* Whatever the order in which the task, its readers, shutdown and their
\* threads write: at rest the state file is what memory says.
THEOREM DiskAgrees == Spec => []DiskAgreesAtRest
<1>1. DiskInv => DiskAgreesAtRest
  BY DEF DiskInv, WritesAgree, DiskAgreesAtRest
<1> QED
  BY <1>1, DiskFollowsMemory, PTL

\* The state files, and what each process knows of them, stay in step for ever,
\* with processes that overlap and files that cannot be read.
THEOREM RestartInductive == Spec => []RestartInv
<1> QED
  BY RestartInit, RestartStep, Inductive, DiskFollowsMemory, PTL DEF Spec

\* start, _load_records and prune together answer a request with one operation,
\* across any number of crashes, restarts and failed writes, unless the process
\* that repeats it could not know the first or had read the request twice.
THEOREM RequestRunsOnce == Spec => []OneOperationPerRequest
<1>1. RestartInv => OneOperationPerRequest
  BY DEF RestartInv
<1> QED
  BY <1>1, RestartInductive, PTL

\* A process that serves knows every operation that any process acknowledged,
\* but for those whose state file it passed over or was created before.
THEOREM AcknowledgedKnown == Spec => []AcknowledgedIsKnown
<1>1. RestartInv => AcknowledgedIsKnown
  BY DEF RestartInv, Informed, Knows, AcknowledgedIsKnown, Serving
<1> QED
  BY <1>1, RestartInductive, PTL

\* ... and finds what it knows through the index that it rebuilt from the state
\* files, but for requests of which it has read several.
THEOREM IndexComplete == Spec => []IndexIsComplete
<1>1. RestartInv => IndexIsComplete
  BY DEF RestartInv, Informed, Knows, IndexIsComplete, Serving
<1> QED
  BY <1>1, RestartInductive, PTL
-----------------------------------------------------------------------------
(* Every process implements the ledger.                                    *)

\* The clients of g see no change: the requests of what g knows do not change,
\* nor do those of which it knows several operations.
Unseen(g) ==
  /\ StatusOf(g)' = StatusOf(g)
  /\ Visible(g)' <=> Visible(g)
  /\ Visible(g) => /\ records'[g] = records[g] /\ index'[g] = index[g]
                   /\ clashing'[g] = clashing[g]
                   /\ \A o \in Op : records[g][o] # "absent" => ident'[o] = ident[o]

\* Then the ledger of g stutters.
LEMMA UnseenStutters ==
  ASSUME NEW g \in Gateway, Unseen(g)
  PROVE  UNCHANGED Ledger(g)!ledger
<1>1. ASSUME NEW o \in Op, Visible(g) PROVE Listed(g, o)' <=> Listed(g, o)
  BY <1>1 DEF Unseen, Listed
<1>2. StateOf(g)' = StateOf(g)
  BY <1>1 DEF Unseen, StateOf
<1>3. AnswerOf(g)' = AnswerOf(g)
  BY DEF Unseen, AnswerOf
<1> QED
  BY <1>2, <1>3 DEF Unseen, Ledger!ledger

\* The process that gets the mutex opens its ledger with what it has settled.
LEMMA LedgerOpens ==
  ASSUME IInv, IInv', RestartInv', NEW g \in Gateway, Acquire(g)
  PROVE  Ledger(g)!Open
<1>1. phase[g] = "loaded" /\ phase'[g] = "serving"
  BY DEF Acquire, IInv, TypeOK
<1>2. StatusOf(g) = "closed" /\ StatusOf(g)' = "open"
  BY <1>1 DEF StatusOf, Visible
<1>3. /\ StateOf(g)' = [o \in Op |-> IF Listed(g, o)' THEN records'[g][o] ELSE "absent"]
      /\ AnswerOf(g)' = [i \in Index |-> IF i \notin clashing'[g] THEN index'[g][i] ELSE None]
  BY <1>1 DEF StateOf, AnswerOf, Visible
<1>4. \A o \in Op : records'[g][o] \in Terminal \cup {"absent"}
  <2>1. records[g] \in [Op -> State \cup {"absent"}]
    BY DEF IInv, TypeOK
  <2>2. PICK lost \in SUBSET Expired(g) :
          records' = [records EXCEPT ![g] =
            [o \in Op |-> IF o \in RunningIn(g) THEN "interrupted"
                          ELSE PrunedRecords(g, lost)[o]]]
    BY DEF Acquire
  <2>3. records'[g] = [o \in Op |-> IF o \in RunningIn(g) THEN "interrupted"
                                    ELSE PrunedRecords(g, lost)[o]]
    BY <2>2 DEF IInv, TypeOK
  <2> QED
    BY <2>1, <2>3 DEF RunningIn, PrunedRecords, State, Terminal
<1>5. index'[g] \in [Index -> Op \cup {None}]
  BY DEF IInv, TypeOK
<1>6. ASSUME NEW o \in Op PROVE Listed(g, o)' <=> \E i \in Index : AnswerOf(g)'[i] = o
  <2>1. ASSUME NEW i \in Index, AnswerOf(g)'[i] = o PROVE Listed(g, o)'
    <3>1. i \notin clashing'[g] /\ index'[g][i] = o
      BY <1>3, <2>1, NoneIsNew
    <3> QED
      BY <3>1, NoneIsNew DEF IInv, IndexNeverDangles, Listed
  <2>2. ASSUME Listed(g, o)' PROVE \E i \in Index : AnswerOf(g)'[i] = o
    <3>1. ident'[o] \in Index /\ ident'[o] \notin clashing'[g]
      BY <2>2 DEF Listed, IInv, FreshOps, RestartInv, NamedOnce, Owned
    <3>2. index'[g][ident'[o]] = o
      BY <1>1, <2>2 DEF Listed, RestartInv, Informed, Knows
    <3> QED
      BY <1>3, <3>1, <3>2
  <2> QED
    BY <2>1, <2>2
<1>7. Ledger(g)!Consistent(StateOf(g)', AnswerOf(g)')
  <2>1. \A o \in Op : StateOf(g)'[o] = "absent" <=> ~Listed(g, o)'
    BY <1>3 DEF Listed
  <2>2. \A o \in Op : StateOf(g)'[o] = "absent" <=> \A i \in Index : AnswerOf(g)'[i] # o
    BY <1>6, <2>1
  <2>3. ASSUME NEW i \in Index, NEW j \in Index,
               AnswerOf(g)'[i] = AnswerOf(g)'[j], AnswerOf(g)'[i] # None
        PROVE  i = j
    BY <1>3, <2>3 DEF IInv, IndexNeverDangles
  <2> QED
    BY <2>2, <2>3 DEF Ledger!Consistent
<1>8. /\ StateOf(g)' \in [Op -> Terminal \cup {"absent"}]
      /\ AnswerOf(g)' \in [Index -> Op \cup {None}]
  BY <1>3, <1>4, <1>5
<1> QED
  BY <1>2, <1>7, <1>8 DEF Ledger!Open

\* A process that ends, in any way, closes its ledger.
LEMMA LedgerCloses ==
  ASSUME IInv, NEW g \in Gateway, Vanish(g), phase[g] \notin {"off", "exited"}
  PROVE  Ledger(g)!Close
<1>1. phase'[g] = "exited"
  BY DEF Vanish, IInv, TypeOK
<1>2. StatusOf(g) # "over" /\ StatusOf(g)' = "over"
  BY <1>1 DEF StatusOf, Visible
<1>3. StateOf(g)' = [o \in Op |-> "absent"] /\ AnswerOf(g)' = [i \in Index |-> None]
  BY <1>1 DEF StateOf, AnswerOf, Visible
<1> QED
  BY <1>2, <1>3 DEF Ledger!Close

\* Of what the ledger shows, a prune removes from the index the answers that
\* name what it removes, no more.
LEMMA PrunedIndexFree ==
  ASSUME IInv, NEW g \in Gateway, Knows(g), NEW lost \in SUBSET Expired(g),
         NEW i \in Index \ clashing[g]
  PROVE  PrunedIndex(g, lost)[i] = IF index[g][i] \in lost THEN None ELSE index[g][i]
<1>1. ASSUME NEW o \in lost, ident[o] = i PROVE index[g][i] \in lost
  <2>1. o \in Op /\ records[g][o] # "absent"
    BY DEF Expired, Terminal
  <2> QED
    BY <1>1, <2>1 DEF Knows
<1>2. ASSUME index[g][i] \in lost PROVE \E o \in lost : ident[o] = i
  <2>1. index[g][i] # None
    BY <1>2, NoneIsNew DEF Expired
  <2> QED
    BY <1>2, <2>1 DEF IInv, IndexNeverDangles
<1> QED
  BY <1>1, <1>2 DEF PrunedIndex

\* What the clients of g see of a prune: the settled operations that it shows
\* and the prune removes, and their requests.
Shown(g, lost) == {o \in lost : ident[o] \notin clashing[g]}
Kept(g, lost) == [o \in Op |-> IF o \in Shown(g, lost) THEN "absent" ELSE StateOf(g)[o]]
Free(g, lost) == [i \in Index |-> IF AnswerOf(g)[i] \in Shown(g, lost) THEN None
                                  ELSE AnswerOf(g)[i]]

LEMMA PruneShown ==
  ASSUME IInv, NEW g \in Gateway, Visible(g), Knows(g), NEW lost \in SUBSET Expired(g)
  PROVE  /\ Shown(g, lost) \in SUBSET {o \in Op : StateOf(g)[o] \in Terminal}
         /\ \A o \in Op : Kept(g, lost)[o] =
              IF PrunedRecords(g, lost)[o] # "absent" /\ ident[o] \notin clashing[g]
              THEN PrunedRecords(g, lost)[o] ELSE "absent"
         /\ \A i \in Index : Free(g, lost)[i] =
              IF i \notin clashing[g] THEN PrunedIndex(g, lost)[i] ELSE None
<1>1. lost \subseteq Op /\ \A o \in lost : records[g][o] \in Terminal
  BY DEF Expired
<1>2. \A o \in Op : StateOf(g)[o] = IF Listed(g, o) THEN records[g][o] ELSE "absent"
  BY DEF StateOf
<1>3. Shown(g, lost) \in SUBSET {o \in Op : StateOf(g)[o] \in Terminal}
  BY <1>1, <1>2 DEF Shown, Listed, Terminal
<1>4. ASSUME NEW o \in Op
      PROVE  Kept(g, lost)[o] =
               IF PrunedRecords(g, lost)[o] # "absent" /\ ident[o] \notin clashing[g]
               THEN PrunedRecords(g, lost)[o] ELSE "absent"
  BY <1>2 DEF Kept, Shown, Listed, PrunedRecords
<1>5. ASSUME NEW i \in Index
      PROVE  Free(g, lost)[i] =
               IF i \notin clashing[g] THEN PrunedIndex(g, lost)[i] ELSE None
  <2>1. Free(g, lost)[i] = IF AnswerOf(g)[i] \in Shown(g, lost) THEN None ELSE AnswerOf(g)[i]
    BY DEF Free
  <2>2. AnswerOf(g)[i] = IF i \notin clashing[g] THEN index[g][i] ELSE None
    BY DEF AnswerOf
  <2>3. CASE i \in clashing[g]
    BY <2>1, <2>2, <2>3
  <2>4. CASE i \notin clashing[g]
    <3>1. PrunedIndex(g, lost)[i] = IF index[g][i] \in lost THEN None ELSE index[g][i]
      BY <2>4, PrunedIndexFree
    <3>2. index[g][i] \in lost => ident[index[g][i]] = i
      BY <1>1, NoneIsNew DEF IInv, IndexNeverDangles
    <3>3. index[g][i] \in Shown(g, lost) <=> index[g][i] \in lost
      BY <2>4, <3>2 DEF Shown
    <3> QED
      BY <2>1, <2>2, <2>4, <3>1, <3>3
  <2> QED
    BY <2>3, <2>4
<1> QED
  BY <1>3, <1>4, <1>5

\* start retires what its prune removes, and takes on at most one request.
LEMMA LedgerServes ==
  ASSUME IInv, RestartInv, NEW g \in Gateway,
         \/ \E i \in Index : StartReplays(g, i) \/ StartFails(g, i)
         \/ \E i \in Index, o \in Op : StartAccepted(g, i, o)
  PROVE  Ledger(g)!Serve
<1>1. phase[g] = "serving" /\ phase' = phase /\ clashing' = clashing
  BY DEF StartReplays, StartFails, StartAccepted, life, history
<1>2. /\ StatusOf(g) = "open" /\ StatusOf(g)' = "open" /\ Visible(g)
      /\ StateOf(g)' = [o \in Op |-> IF Listed(g, o)' THEN records'[g][o] ELSE "absent"]
      /\ AnswerOf(g)' = [i \in Index |-> IF i \notin clashing[g] THEN index'[g][i] ELSE None]
  BY <1>1 DEF StatusOf, StateOf, AnswerOf, Visible
<1>3. Knows(g)
  BY <1>1 DEF RestartInv, Informed
<1>4. ASSUME NEW lost \in SUBSET Expired(g),
             \/ StateOf(g)' = Kept(g, lost) /\ AnswerOf(g)' = Free(g, lost)
             \/ \E i \in Index, o \in Op :
                  /\ Free(g, lost)[i] = None
                  /\ StateOf(g)[o] = "absent"
                  /\ StateOf(g)' = [Kept(g, lost) EXCEPT ![o] = "running"]
                  /\ AnswerOf(g)' = [Free(g, lost) EXCEPT ![i] = o]
      PROVE  Ledger(g)!Serve
  <2>1. Shown(g, lost) \in SUBSET {o \in Op : StateOf(g)[o] \in Terminal}
    BY <1>2, <1>3, PruneShown
  <2>2. \E retired \in SUBSET {p \in Op : StateOf(g)[p] \in Terminal} :
          LET left  == [p \in Op |-> IF p \in retired THEN "absent" ELSE StateOf(g)[p]]
              spare == [j \in Index |-> IF AnswerOf(g)[j] \in retired THEN None
                                        ELSE AnswerOf(g)[j]]
          IN  \/ StateOf(g)' = left /\ AnswerOf(g)' = spare
              \/ \E j \in Index, p \in Op :
                   /\ spare[j] = None
                   /\ StateOf(g)[p] = "absent"
                   /\ StateOf(g)' = [left EXCEPT ![p] = "running"]
                   /\ AnswerOf(g)' = [spare EXCEPT ![j] = p]
    <3> WITNESS Shown(g, lost) \in SUBSET {p \in Op : StateOf(g)[p] \in Terminal}
    <3> QED
      BY <1>4 DEF Kept, Free
  <2> QED
    BY <1>2, <2>2 DEF Ledger!Serve
<1>5. ASSUME NEW i \in Index, StartReplays(g, i) \/ StartFails(g, i)
      PROVE  Ledger(g)!Serve
  <2>1. PICK lost \in SUBSET Expired(g) :
          /\ records' = [records EXCEPT ![g] = PrunedRecords(g, lost)]
          /\ index' = [index EXCEPT ![g] = PrunedIndex(g, lost)]
    BY <1>5 DEF StartReplays, StartFails
  <2>2. /\ records'[g] = PrunedRecords(g, lost) /\ index'[g] = PrunedIndex(g, lost)
        /\ ident' = ident
    BY <1>5, <2>1 DEF StartReplays, StartFails, history, IInv, TypeOK
  <2>3. StateOf(g)' = Kept(g, lost)
    <3>1. \A o \in Op : StateOf(g)'[o] = Kept(g, lost)[o]
      BY <1>1, <1>2, <1>3, <2>2, PruneShown DEF Listed
    <3> QED
      BY <1>2, <3>1 DEF Kept
  <2>4. AnswerOf(g)' = Free(g, lost)
    <3>1. \A j \in Index : AnswerOf(g)'[j] = Free(g, lost)[j]
      BY <1>2, <1>3, <2>2, PruneShown
    <3> QED
      BY <1>2, <3>1 DEF Free
  <2> QED
    BY <1>4, <2>3, <2>4
<1>6. ASSUME NEW i \in Index, NEW o \in Op, StartAccepted(g, i, o)
      PROVE  Ledger(g)!Serve
  <2>1. PICK lost \in SUBSET Expired(g) :
          /\ PrunedIndex(g, lost)[i] = None
          /\ records' = [records EXCEPT
               ![g] = [PrunedRecords(g, lost) EXCEPT ![o] = "running"]]
          /\ index' = [index EXCEPT ![g] = [PrunedIndex(g, lost) EXCEPT ![i] = o]]
    BY <1>6 DEF StartAccepted
  <2>2. records[g][o] = "absent" /\ ident' = [ident EXCEPT ![o] = i]
    BY <1>6 DEF StartAccepted, IInv, FreshOps
  <2>3. /\ \A p \in Op : records'[g][p] = IF p = o THEN "running"
                                         ELSE PrunedRecords(g, lost)[p]
        /\ \A j \in Index : index'[g][j] = IF j = i THEN o ELSE PrunedIndex(g, lost)[j]
    <3>1. /\ records'[g] = [PrunedRecords(g, lost) EXCEPT ![o] = "running"]
          /\ index'[g] = [PrunedIndex(g, lost) EXCEPT ![i] = o]
      BY <2>1 DEF IInv, TypeOK
    <3> QED
      BY <3>1 DEF PrunedRecords, PrunedIndex
  <2>4. ident'[o] = i /\ \A p \in Op \ {o} : ident'[p] = ident[p]
    BY <2>2 DEF IInv, TypeOK
  <2>5. \A p \in Op \ {o} : StateOf(g)'[p] = Kept(g, lost)[p]
    BY <1>1, <1>2, <1>3, <2>3, <2>4, PruneShown DEF Listed
  <2>6. \A j \in Index \ {i} : AnswerOf(g)'[j] = Free(g, lost)[j]
    BY <1>2, <1>3, <2>3, PruneShown
  <2>7. PrunedRecords(g, lost)[o] = "absent" /\ StateOf(g)[o] = "absent"
    BY <2>2 DEF PrunedRecords, StateOf, Listed
  <2>8. Kept(g, lost)[o] = "absent"
    BY <2>7 DEF Kept
  <2>9. CASE i \in clashing[g]
    <3>1. StateOf(g)'[o] = "absent" /\ AnswerOf(g)'[i] = None
      BY <1>1, <1>2, <2>4, <2>9 DEF Listed
    <3>2. Free(g, lost)[i] = None
      BY <1>2, <1>3, <2>9, PruneShown
    <3>3. StateOf(g)' = Kept(g, lost)
      BY <1>2, <2>5, <2>8, <3>1 DEF Kept
    <3>4. AnswerOf(g)' = Free(g, lost)
      BY <1>2, <2>6, <3>1, <3>2 DEF Free
    <3> QED
      BY <1>4, <3>3, <3>4
  <2>10. CASE i \notin clashing[g]
    <3>1. StateOf(g)'[o] = "running" /\ AnswerOf(g)'[i] = o
      BY <1>1, <1>2, <2>3, <2>4, <2>10 DEF Listed
    <3>2. Free(g, lost)[i] = None
      BY <1>2, <1>3, <2>1, <2>10, PruneShown
    <3>3. StateOf(g)' = [Kept(g, lost) EXCEPT ![o] = "running"]
      BY <1>2, <2>5, <3>1 DEF Kept
    <3>4. AnswerOf(g)' = [Free(g, lost) EXCEPT ![i] = o]
      BY <1>2, <2>6, <3>1 DEF Free
    <3> QED
      BY <1>4, <2>7, <3>2, <3>3, <3>4
  <2> QED
    BY <2>9, <2>10
<1> QED
  BY <1>5, <1>6

\* _finish settles an operation of its process, once, or changes nothing that
\* the clients of g see.
LEMMA LedgerSettles ==
  ASSUME IInv, NEW o \in Op, NEW g \in Gateway,
         Finish(o) \/ \E h \in Gateway : ForceVisit(h, o) \/ ForceAcquire(h, o)
  PROVE  Ledger(g)!Settle \/ UNCHANGED Ledger(g)!ledger
<1>1. UNCHANGED <<phase, index, ident, clashing>>
  BY DEF Finish, ForceVisit, ForceAcquire, life, history
<1>2. owner[o] \in Gateway /\ FinishOnce(o)
  BY FinishIsOnce
<1>3. StatusOf(g)' = StatusOf(g) /\ (Visible(g)' <=> Visible(g))
  BY <1>1 DEF StatusOf, Visible
<1>4. CASE records'[g] = records[g]
  <2>1. Unseen(g)
    BY <1>1, <1>3, <1>4 DEF Unseen
  <2> QED
    BY <2>1, UnseenStutters
<1>5. CASE records'[g] # records[g]
  <2>1. PICK s \in Terminal :
          /\ records[owner[o]][o] = "running"
          /\ records' = [records EXCEPT ![owner[o]][o] = s]
    BY <1>2, <1>5 DEF FinishOnce
  <2>2. owner[o] = g
    BY <1>2, <1>5, <2>1 DEF IInv, TypeOK
  <2>3. /\ records[g][o] = "running" /\ records'[g][o] = s
        /\ \A p \in Op \ {o} : records'[g][p] = records[g][p]
    BY <2>1, <2>2 DEF IInv, TypeOK
  <2>4. Visible(g)
    BY <2>2, <2>3 DEF IInv, FreshOps, EmptyMemory, Visible
  <2>5. /\ StatusOf(g) = "open"
        /\ StateOf(g) = [p \in Op |-> IF Listed(g, p) THEN records[g][p] ELSE "absent"]
        /\ StateOf(g)' = [p \in Op |-> IF Listed(g, p)' THEN records'[g][p] ELSE "absent"]
        /\ AnswerOf(g)' = AnswerOf(g)
    BY <1>1, <1>3, <2>4 DEF StatusOf, StateOf, AnswerOf, Visible
  <2>6. \A p \in Op : Listed(g, p)' <=> Listed(g, p)
    BY <1>1, <2>3 DEF Listed, Terminal
  <2>7. CASE Listed(g, o)
    <3>1. StateOf(g)[o] = "running" /\ StateOf(g)' = [StateOf(g) EXCEPT ![o] = s]
      BY <2>3, <2>5, <2>6, <2>7
    <3> QED
      BY <1>3, <2>5, <3>1 DEF Ledger!Settle
  <2>8. CASE ~Listed(g, o)
    <3>1. StateOf(g)' = StateOf(g)
      BY <2>3, <2>5, <2>6, <2>8
    <3> QED
      BY <1>3, <2>5, <3>1 DEF Ledger!ledger
  <2> QED
    BY <2>7, <2>8
<1> QED
  BY <1>4, <1>5

\* The other steps of a process, and every step of another, are not seen.
LEMMA LedgerElsewhere ==
  ASSUME IInv, NEW g \in Gateway, NEW h \in Gateway,
         \/ g # h /\ (\/ Acquire(h) \/ Vanish(h)
                      \/ \E i \in Index : StartReplays(h, i) \/ StartFails(h, i)
                      \/ \E i \in Index, o \in Op : StartAccepted(h, i, o))
         \/ Load(h) \/ BeginShutdown(h) \/ ShutdownClean(h) \/ ShutdownTimeout(h)
         \/ ForceDone(h) \/ CloseLoop(h) \/ \E o \in Op : Cancel(h, o)
  PROVE  Unseen(g)
<1>1. CASE g # h
  <2>1. /\ phase'[g] = phase[g] /\ records'[g] = records[g] /\ index'[g] = index[g]
        /\ clashing'[g] = clashing[g]
    BY <1>1 DEF Acquire, Vanish, StartReplays, StartFails, StartAccepted, Load, BeginShutdown,
       ShutdownClean, ShutdownTimeout, ForceDone, CloseLoop, Cancel, life, registry, history,
       IInv, TypeOK
  <2>2. ident' = ident \/ \E i \in Index, o \in Op : owner[o] = None /\ ident' = [ident EXCEPT ![o] = i]
    BY DEF Acquire, Vanish, StartReplays, StartFails, StartAccepted, Load, BeginShutdown,
       ShutdownClean, ShutdownTimeout, ForceDone, CloseLoop, Cancel, history
  <2>3. \A o \in Op : records[g][o] # "absent" => ident'[o] = ident[o]
    BY <2>2 DEF IInv, TypeOK, FreshOps
  <2> QED
    BY <2>1, <2>3 DEF Unseen, StatusOf, Visible
<1>2. CASE g = h /\ Load(h)
  BY <1>2 DEF Load, Unseen, StatusOf, Visible, IInv, TypeOK
<1>3. CASE g = h /\ ~Load(h)
  <2>1. UNCHANGED <<records, index, ident, clashing>>
    BY <1>3 DEF BeginShutdown, ShutdownClean, ShutdownTimeout, ForceDone, CloseLoop, Cancel,
                registry, history
  <2>2. Visible(g) /\ Visible(g)'
    BY <1>3 DEF BeginShutdown, ShutdownClean, ShutdownTimeout, ForceDone, CloseLoop, Cancel,
                life, Visible, IInv, TypeOK
  <2> QED
    BY <2>1, <2>2 DEF Unseen, StatusOf, Visible
<1> QED
  BY <1>1, <1>2, <1>3

\* Every step is a step of the ledger of each process, or not seen there.
LEMMA LedgerKept ==
  ASSUME IInv, IInv', RestartInv, RestartInv', [Next]_vars
  PROVE  LedgerStep
<1> DEFINE Unmoved(g) == UNCHANGED Ledger(g)!ledger
<1> SUFFICES ASSUME NEW g \in Gateway
             PROVE  Ledger(g)!Next \/ Unmoved(g)
  BY DEF LedgerStep
<1>1. ASSUME NEW h \in Gateway,
             AcquireRefused(h) \/ RecoveryInterrupted(h) \/ Exit(h) \/ Crash(h)
      PROVE  Ledger(g)!Next \/ Unseen(g)
  <2>1. Vanish(h) /\ phase[h] \notin {"off", "exited"}
    BY <1>1 DEF AcquireRefused, RecoveryInterrupted, Exit, Crash
  <2> QED
    BY <2>1, LedgerCloses, LedgerElsewhere DEF Ledger!Next
<1>2. ASSUME NEW h \in Gateway,
             \/ Acquire(h)
             \/ \E i \in Index : StartReplays(h, i) \/ StartFails(h, i)
             \/ \E i \in Index, o \in Op : StartAccepted(h, i, o)
      PROVE  Ledger(g)!Next \/ Unseen(g)
  BY <1>2, LedgerOpens, LedgerServes, LedgerElsewhere DEF Ledger!Next
<1>3. ASSUME NEW h \in Gateway,
             \/ Load(h) \/ BeginShutdown(h) \/ ShutdownClean(h) \/ ShutdownTimeout(h)
             \/ ForceDone(h) \/ CloseLoop(h) \/ \E o \in Op : Cancel(h, o)
      PROVE  Unseen(g)
  BY <1>3, LedgerElsewhere
<1>4. ASSUME NEW o \in Op,
             Finish(o) \/ \E h \in Gateway : ForceVisit(h, o) \/ ForceAcquire(h, o)
      PROVE  Ledger(g)!Next \/ Unmoved(g)
  BY <1>4, LedgerSettles DEF Ledger!Next
<1>5. ASSUME \/ \E o \in Op : \/ Startup(o) \/ Watch(o) \/ Settle(o) \/ Ending(o)
                              \/ DeliverCancel(o) \/ Persist(o) \/ Land(o)
             \/ UNCHANGED vars
      PROVE  Unseen(g)
  <2>1. UNCHANGED <<phase, records, index, ident, clashing>>
    BY <1>5 DEF Startup, Watch, Settle, Ending, DeliverCancel, Persist, Land, vars, life,
                registry, history
  <2> QED
    BY <2>1 DEF Unseen, StatusOf, Visible
<1>6. Unseen(g) => Unmoved(g)
  BY UnseenStutters
<1> HIDE DEF Unmoved
<1>7. ASSUME NEW h \in Gateway, ProcessStep(h) PROVE Ledger(g)!Next \/ Unmoved(g)
  BY <1>1, <1>2, <1>3, <1>4, <1>6, <1>7 DEF ProcessStep
<1>8. ASSUME NEW o \in Op, TaskStep(o) PROVE Ledger(g)!Next \/ Unmoved(g)
  BY <1>4, <1>5, <1>6, <1>8 DEF TaskStep
<1> QED
  BY <1>5, <1>6, <1>7, <1>8 DEF Next

\* The manager of every process implements the ledger that its clients see:
\* one operation for a request, settled once, retired before it is repeated;
\* only requests of which it read several operations stay out of it.
THEOREM LedgerImplemented == Spec => ImplementsLedger
<1>1. Init => LedgerInit
  <2> SUFFICES ASSUME Init, NEW g \in Gateway PROVE Ledger(g)!Init
    BY DEF LedgerInit
  <2>1. phase[g] = "off"
    BY DEF Init
  <2> QED
    BY <2>1 DEF Ledger!Init, StatusOf, StateOf, AnswerOf, Visible
<1>2. IInv /\ IInv' /\ RestartInv /\ RestartInv' /\ [Next]_vars => [LedgerStep]_vars
  BY LedgerKept
<1> QED
  BY <1>1, <1>2, Inductive, RestartInductive, PTL DEF Spec, ImplementsLedger
=============================================================================
