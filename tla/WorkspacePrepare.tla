-------------------------- MODULE WorkspacePrepare --------------------------
(***************************************************************************)
(* prepare (services/workspaces.py): one workspace, and in some modes one  *)
(* branch, for each idempotency key; and the pruning of old workspaces     *)
(* that every preparation begins with.  Keys are served under a lock each; *)
(* preparations with different keys, commands, failures and the death of   *)
(* the gateway interleave.                                                 *)
(***************************************************************************)
EXTENDS Naturals, FiniteSets

CONSTANTS Workspace,          \* ids that _new_workspace_id may generate
          Key, Slot,          \* idempotency keys; requests at the same time
          Fixed, Nothing,     \* a branch name a client gives; no value
          MaxCalls            \* bound: requests

ASSUME PrepareAssumption == IsFiniteSet(Workspace) /\ MaxCalls \in Nat
ASSUME NothingIsNew == Nothing \notin Slot

VARIABLES
  dir,          \* what is in the directory of each workspace
  old,          \* the workspaces not touched within the time to live
  running,      \* the workspaces with a running operation
  refs,         \* the branches at the origin
  req,          \* what the coroutine of each request knows
  lock,         \* which request holds the lock of each key
  branchSaved,  \* responses stored by BranchService
  saved,        \* responses stored by prepare
  calls,
  answers,      \* history: the responses sent
  pruned,       \* history: workspaces that a prune began to remove
  madeFor       \* history: the key for which each workspace was made

store == <<branchSaved, saved>>
history == <<answers, pruned, madeFor>>
vars == <<dir, old, running, refs, req, lock, store, calls, history>>

\* partial: no meta.json; damaged: meta.json, but not all of the repository
Content == {"absent", "partial", "damaged", "ready"}
\* how the branch is chosen: generated, given (to continue or not), none
Mode == {"generate", "continue", "insist", "ref"}
Ask == [key: Key, mode: Mode]
Idle == [pc |-> "idle"]
HasMeta(w) == dir[w] \in {"damaged", "ready"}

Init ==
  /\ dir = [w \in Workspace |-> "absent"] /\ old = {} /\ running = {}
  /\ refs = {} /\ req = [r \in Slot |-> Idle] /\ lock = [k \in Key |-> Nothing]
  /\ branchSaved = {} /\ saved = {}
  /\ calls = 0 /\ answers = {} /\ pruned = {}
  /\ madeFor = [w \in Workspace |-> Nothing]

At(r, pc) == req[r].pc = pc
KeyOf(r) == req[r].ask.key

\* leaving the coroutine releases its lock
Ends(r) ==
  /\ req' = [req EXCEPT ![r] = Idle]
  /\ lock' = [lock EXCEPT ![KeyOf(r)] = Nothing]

Goes(r, next) == req' = [req EXCEPT ![r] = next] /\ UNCHANGED lock

(***************************************************************************)
(* The service.                                                            *)
(***************************************************************************)
Arrive(r) ==
  /\ req[r] = Idle /\ calls < MaxCalls /\ calls' = calls + 1
  /\ \E ask \in Ask : req' = [req EXCEPT ![r] = [pc |-> "lock", ask |-> ask]]
  /\ UNCHANGED <<dir, old, running, refs, lock, store, history>>

KeyIsIgnored(k) == TRUE
KeyIsFree(k) == lock[k] = Nothing

FirstStep(ask) == IF ask.mode = "ref" THEN "make" ELSE "branch"

\* get_idempotent_response: at most one
Saved(k) == {s \in saved : s.ask.key = k}

\* a stored response is replayed or, for another request, refused
Enter(r) ==
  /\ At(r, "lock") /\ KeyIsFree(KeyOf(r))
  /\ LET ask == req[r].ask  stored == Saved(ask.key)
     IN IF stored = {}
        THEN /\ req' = [req EXCEPT ![r] =
                          [pc |-> FirstStep(ask), ask |-> ask, branch |-> Nothing]]
             /\ lock' = [lock EXCEPT ![ask.key] = r]
             /\ UNCHANGED answers
        ELSE /\ req' = [req EXCEPT ![r] = Idle]
             /\ answers' = answers \cup {s \in stored : s.ask = ask}
             /\ UNCHANGED lock
  /\ UNCHANGED <<dir, old, running, refs, store, calls, pruned, madeFor>>

\* a branch that was created for a key, and whether GitHub's answer arrived
Ref(r, name, known) == [name |-> name, key |-> KeyOf(r), known |-> known]

NameOf(r) == IF req[r].ask.mode = "generate" THEN Cardinality(refs) ELSE Fixed
Taken(name) == \E b \in refs : b.name = name

SavedBranchIgnored(k) == {}
SavedBranch(k) == {s \in branchSaved : s.key = k}

\* create_work_branch: stored, created, continued, or refused as in conflict
Branch(r) ==
  /\ At(r, "branch")
  /\ LET name == NameOf(r)  stored == SavedBranch(KeyOf(r))  mode == req[r].ask.mode
         Has(b) == Goes(r, [pc |-> "make", ask |-> req[r].ask, branch |-> b])
         Saves == branchSaved' =
           branchSaved \cup {[key |-> KeyOf(r), mode |-> mode, branch |-> name]}
     IN \/ /\ stored # {}
           /\ \E s \in stored : IF s.mode = mode THEN Has(s.branch) ELSE Ends(r)
           /\ UNCHANGED <<refs, branchSaved>>
        \/ /\ stored = {} /\ ~Taken(name)
           /\ refs' = refs \cup {Ref(r, name, TRUE)}
           /\ Saves /\ Has(name)
        \/ /\ stored = {} /\ Taken(name)
           /\ IF mode = "continue" THEN Saves /\ Has(name)
                                   ELSE Ends(r) /\ UNCHANGED branchSaved
           /\ UNCHANGED refs
        \/ /\ stored = {} /\ ~Taken(name)             \* the answer is lost
           /\ refs' = refs \cup {Ref(r, name, FALSE)}
           /\ Ends(r) /\ UNCHANGED branchSaved
  /\ UNCHANGED <<dir, old, running, saved, calls, history>>

\* prune_expired_workspace_dirs
ExpiredAnyway == {w \in old : dir[w] # "absent"}
Expired == {w \in old \ running : dir[w] # "absent"}

\* what rmtree may leave of a workspace that it cannot remove
Remains(w) == {"partial", dir[w]} \cup (IF HasMeta(w) THEN {"damaged"} ELSE {})

\* the directory as prepare makes it, before the clone
MadeWithMeta == "damaged"
Made == "partial"

\* the ids are random: one that was ever answered does not come up again
Unused == {w \in Workspace : dir[w] = "absent" /\ \A a \in answers : a.workspace # w}

\* all of this happens between two awaits
Make(r) ==
  /\ At(r, "make")
  /\ \E left \in [Expired -> Content], fresh \in SUBSET Expired, new \in Unused :
       LET gone == {w \in Expired : left[w] = "absent"}
       IN /\ \A w \in Expired \ gone : left[w] \in Remains(w)
          /\ dir' = [w \in Workspace |-> IF w = new THEN Made
                                          ELSE IF w \in Expired THEN left[w] ELSE dir[w]]
          /\ old' = old \ (gone \cup fresh)
          /\ pruned' = (pruned \cup Expired) \ {new}
          /\ madeFor' = [madeFor EXCEPT ![new] = KeyOf(r)]
          /\ Goes(r, [pc |-> "clone", ask |-> req[r].ask,
                      branch |-> req[r].branch, workspace |-> new])
  /\ UNCHANGED <<running, refs, store, calls, answers>>

Response(r) ==
  [ask |-> req[r].ask, branch |-> req[r].branch, workspace |-> req[r].workspace]

\* clone, fetch, checkout and environment succeed; metadata, then the response
Finish(r) ==
  /\ At(r, "clone")
  /\ dir' = [dir EXCEPT ![req[r].workspace] = "ready"]
  /\ saved' = (saved \ Saved(KeyOf(r))) \cup {Response(r)}
  /\ answers' = answers \cup {Response(r)}
  /\ Ends(r)
  /\ UNCHANGED <<old, running, refs, branchSaved, calls, pruned, madeFor>>

\* the store fails, or the gateway dies, after the metadata were written
FinishUnrecorded(r) ==
  /\ At(r, "clone")
  /\ dir' = [dir EXCEPT ![req[r].workspace] = "ready"]
  /\ Ends(r)
  /\ UNCHANGED <<old, running, refs, store, calls, history>>

\* clone, fetch, checkout or the virtual environment fails or times out, and
\* rmtree(ignore_errors=True) follows; or GitHub or the policy refuses before
Fails(r) ==
  /\ req[r] # Idle /\ ~At(r, "lock")
  /\ dir' \in IF ~At(r, "clone") THEN {dir}
              ELSE {[dir EXCEPT ![req[r].workspace] = c] :
                      c \in {"absent", dir[req[r].workspace]}}
  /\ Ends(r)
  /\ UNCHANGED <<old, running, refs, store, calls, history>>

(***************************************************************************)
(* The users of a workspace, time, and the end of the process.             *)
(***************************************************************************)
\* get_meta touches the directory, then an operation may start
Use(w) ==
  /\ HasMeta(w) /\ old' = old \ {w}
  /\ running' \in {running, running \cup {w}}
  /\ UNCHANGED <<dir, refs, req, lock, store, calls, history>>

\* the last operation becomes terminal
Settle(w) ==
  /\ w \in running /\ running' = running \ {w}
  /\ UNCHANGED <<dir, old, refs, req, lock, store, calls, history>>

\* no preparation lasts as long as the time to live; an operation may
Ages(w) ==
  /\ dir[w] # "absent" /\ ~\E r \in Slot : At(r, "clone") /\ req[r].workspace = w
  /\ old' = old \cup {w}
  /\ UNCHANGED <<dir, running, refs, req, lock, store, calls, history>>

\* and the next gateway finds every operation interrupted
Crash ==
  /\ req' = [r \in Slot |-> Idle] /\ lock' = [k \in Key |-> Nothing]
  /\ running' = {}
  /\ UNCHANGED <<dir, old, refs, store, calls, history>>

Next ==
  \/ \E r \in Slot : \/ Arrive(r) \/ Enter(r) \/ Branch(r) \/ Make(r)
                     \/ Finish(r) \/ FinishUnrecorded(r) \/ Fails(r)
  \/ \E w \in Workspace : Use(w) \/ Settle(w) \/ Ages(w)
  \/ Crash

Spec == Init /\ [][Next]_vars

(***************************************************************************)
(* What must hold.                                                         *)
(***************************************************************************)
Name == Nat \cup {Fixed, Nothing}
Answer == [ask: Ask, branch: Name, workspace: Workspace]
Request == {Idle} \cup [pc: {"lock"}, ask: Ask]
             \cup [pc: {"branch", "make"}, ask: Ask, branch: Name]
             \cup [pc: {"clone"}, ask: Ask, branch: Name, workspace: Workspace]

Serving(r) == ~At(r, "idle") /\ ~At(r, "lock")

\* Every variable keeps its type; a request is served only while it holds the
\* lock of its key, and clones into a directory that has no metadata yet.
TypeOK ==
  /\ dir \in [Workspace -> Content]
  /\ old \subseteq Workspace /\ running \subseteq Workspace /\ pruned \subseteq Workspace
  /\ madeFor \in [Workspace -> Key \cup {Nothing}]
  /\ refs \subseteq [name: Name, key: Key, known: BOOLEAN] /\ IsFiniteSet(refs)
  /\ branchSaved \subseteq [key: Key, mode: Mode, branch: Name]
  /\ saved \subseteq Answer /\ answers \subseteq Answer
  /\ req \in [Slot -> Request] /\ lock \in [Key -> Slot \cup {Nothing}]
  /\ \A r \in Slot : Serving(r) => lock[KeyOf(r)] = r
  /\ \A r \in Slot : At(r, "clone") => dir[req[r].workspace] = "partial"

\* Every response to a key is the same: the same workspace, the same branch,
\* and never to a request with other parameters, whether the requests run at
\* the same time, fail, are retried, or reach a restarted gateway (PLAN 8.1).
AnswersAgree ==
  \A a, b \in answers : a.ask.key = b.ask.key => a = b

\* A key whose branch is known to have been created never creates another one,
\* although its workspace failed and the preparation is retried.
OneBranchPerKey ==
  \A b, c \in refs : (b.key = c.key /\ b.known /\ c.known) => b = c

\* A prepared workspace is not removed while an operation runs in it, however
\* old it is, nor within its time to live, by whichever preparation prunes.
KeptWhileUsed ==
  [][\A w \in Workspace :
       dir[w] = "ready" /\ (w \in running \/ w \notin old) => dir'[w] = "ready"]_dir

\* A workspace with metadata, which every request accepts, is a complete clone,
\* unless a prune began to remove it: never the remains of a preparation that
\* failed or died.
VisibleIsWhole ==
  \A w \in Workspace : dir[w] = "damaged" => w \in pruned

\* PLAN.md:463: the directory, the idempotency record and the id returned are
\* registered together, so that a key returns the workspace first made for it.
FirstWorkspaceReturned ==
  \A a \in answers, w \in Workspace \ pruned :
    (dir[w] = "ready" /\ madeFor[w] = a.ask.key) => w = a.workspace
=============================================================================
