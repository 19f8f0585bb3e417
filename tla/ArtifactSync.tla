---------------------------- MODULE ArtifactSync ----------------------------
(***************************************************************************)
(* sync_run_artifacts_to_workspace (services/workspaces.py): the artifacts *)
(* of one workflow run are listed page by page, compared with the manifest *)
(* that the last synchronisation left, and downloaded one by one into the  *)
(* workspace unless nothing has changed.  Only calls of GitHub are         *)
(* awaited, so between two of them synchronisations of the same run        *)
(* interleave, artifacts are deleted and the run is started again; between *)
(* the awaits a file operation may fail, or the gateway die, half way.     *)
(***************************************************************************)
EXTENDS Naturals, Sequences, FiniteSetsExt, SequencesExt

CONSTANTS Slot,            \* synchronisations that may run at the same time
          None, Torn,      \* no manifest; a manifest that is no valid JSON
          PageSize,        \* _ARTIFACT_PAGE_SIZE
          MaxId, MaxCalls  \* bounds: artifacts ever uploaded, requests

ASSUME SyncAssumption == PageSize \in Nat \ {0} /\ MaxId \in Nat /\ MaxCalls \in Nat

Id == 1..MaxId             \* an artifact never changes; a new upload has a new id

VARIABLES
  completed, remote, made, \* at GitHub: the run, its artifacts, ids given so far
  dirs,      \* the destination directory of each artifact
  manifest,  \* manifest.json: the artifacts it names, None or Torn
  excluded,  \* .git/info/exclude has the entry for the artifacts
  req,       \* what the coroutine of each request knows
  told,      \* the artifacts named in the response to each request
  calls,
  trusted,   \* history: the files come from one undisturbed synchronisation
  removed,   \* history: destinations deleted by commands since then
  steady     \* history: no rerun while the manifest's artifacts were listed

github == <<completed, remote, made>>
disk == <<dirs, manifest, excluded>>
history == <<trusted, removed, steady>>
vars == <<github, disk, req, told, calls, history>>

Idle == [pc |-> "idle"]
Empty == [a \in Id |-> "none"]

Init ==
  /\ completed = TRUE /\ remote = {} /\ made = 0
  /\ dirs = Empty /\ manifest = None /\ excluded = FALSE
  /\ req = [r \in Slot |-> Idle] /\ told = [r \in Slot |-> None] /\ calls = 0
  /\ trusted = TRUE /\ removed = {} /\ steady = TRUE

At(r, pc) == req[r].pc = pc
Goes(r, next) == req' = [req EXCEPT ![r] = next]
Ends(r) == Goes(r, Idle)
Fetches(r, list, todo) ==
  /\ Goes(r, [pc |-> "fetch", list |-> list, todo |-> todo,
              seen |-> req[r].seen, rerun |-> req[r].rerun])
  /\ UNCHANGED told
Answers(r, list) == Ends(r) /\ told' = [told EXCEPT ![r] = list]

\* an error ends the request, the death of the gateway ends all of them
Interrupted(r) == Ends(r) \/ req' = [s \in Slot |-> Idle]

Fetching == {r \in Slot : At(r, "fetch")}

(***************************************************************************)
(* Reading the run and its artifacts.                                      *)
(***************************************************************************)
Arrive(r) ==
  /\ req[r] = Idle /\ calls < MaxCalls /\ calls' = calls + 1
  /\ Goes(r, [pc |-> "status"]) /\ told' = [told EXCEPT ![r] = None]
  /\ UNCHANGED <<github, disk, history>>

\* get_workflow_run: a run that has not completed is refused
ReadRun(r) ==
  /\ At(r, "status")
  /\ IF completed THEN Goes(r, [pc |-> "list", page |-> 1, total |-> 0, got |-> <<>>,
                                seen |-> {remote}, rerun |-> FALSE])
                  ELSE Ends(r)
  /\ UNCHANGED <<github, disk, told, calls, history>>

\* GitHub lists the newest artifact first
Newest == [k \in 1..Cardinality(remote) |->
             CHOOSE a \in remote : Cardinality({b \in remote : b >= a}) = k]
Page(p) == SubSeq(Newest, (p - 1) * PageSize + 1, Min({p * PageSize, Len(Newest)}))

OnePage(items, got, total) == TRUE
LastPage(items, got, total) ==
  items = <<>> \/ Len(got) >= total \/ Len(items) < PageSize

\* _artifact_manifest_records and the fingerprint: sorted by id
Sorted(list) ==
  [k \in DOMAIN list |->
     CHOOSE a \in ToSet(list) : /\ Cardinality({i \in DOMAIN list : list[i] < a}) < k
                                /\ Cardinality({i \in DOMAIN list : list[i] <= a}) >= k]

(***************************************************************************)
(* The directory of the run.                                               *)
(***************************************************************************)
NamesCurrent(list) == manifest = list

\* _manifest_is_current: the same artifacts, and each destination exists
Current(list) ==
  manifest = list /\ \A a \in ToSet(list) : dirs[a] # "none"

\* the manifest of what was listed is written
Records(r, list) == manifest' = list /\ steady' = ~req[r].rerun

\* with the artifacts still to download; after the last the manifest is written
ThenManifest(r, list, todo, before) ==
  IF todo = <<>> THEN Records(r, list) /\ Answers(r, list)
  ELSE Fetches(r, list, todo) /\ manifest' = before /\ UNCHANGED steady

ManifestFirst(r, list, todo, before) ==
  IF todo = <<>> THEN Records(r, list) /\ Answers(r, list)
  ELSE Fetches(r, list, todo) /\ manifest' = list /\ UNCHANGED steady

Continues(r, list, todo, before) == ThenManifest(r, list, todo, before)

\* what an interrupted rmtree may leave
Remains(now, kept) ==
  \A a \in Id : kept[a] \in IF now[a] = "none" THEN {"none"} ELSE {now[a], "part", "none"}

\* _ensure_gpt_artifacts_local_exclude: git does not see the artifacts
Excludes == excluded' = TRUE

\* _read_artifact_manifest raises
Unreadable == manifest = Torn

\* with the last page, and without an await: an unreadable manifest is an
\* error, a current one is answered, and otherwise everything is removed
Decide(r, list) ==
  /\ Excludes
  /\ \/ /\ Unreadable
        /\ Ends(r) /\ UNCHANGED <<dirs, manifest, told, history>>
     \/ /\ ~Unreadable /\ Current(list)
        /\ Answers(r, list) /\ UNCHANGED <<dirs, manifest, history>>
     \/ /\ ~Unreadable /\ ~Current(list)
        /\ dirs' = Empty
        /\ Continues(r, list, list, None)
        /\ trusted' = (Fetching = {}) /\ removed' = {}
     \/ /\ ~Unreadable /\ ~Current(list)
        /\ \E kept \in [Id -> {"none", "part", "whole"}] :
             Remains(dirs, kept) /\ dirs' = kept
        /\ manifest' \in {manifest, None} \cup (IF list = <<>> THEN {Torn} ELSE {})
        /\ trusted' = FALSE
        /\ Interrupted(r) /\ UNCHANGED <<told, removed, steady>>

\* _list_all_run_artifacts: the first page says how many there are
ReadPage(r) ==
  /\ At(r, "list")
  /\ LET q == req[r]
         items == Page(q.page)
         got == q.got \o items
         total == IF q.page = 1 THEN Len(Newest) ELSE q.total
     IN IF LastPage(items, got, total)
        THEN Decide(r, Sorted(got))
        ELSE /\ Goes(r, [q EXCEPT !.page = @ + 1, !.total = total, !.got = got])
             /\ UNCHANGED <<disk, told, history>>
  /\ UNCHANGED <<github, calls>>

\* download_artifact answers, the digest is right: the archive is unpacked
Extract(r) ==
  /\ At(r, "fetch")
  /\ LET a == Head(req[r].todo)
     IN /\ a \in remote
        /\ dirs' = [dirs EXCEPT ![a] = "whole"]
        /\ removed' = removed \ {a}
  /\ Continues(r, req[r].list, Tail(req[r].todo), manifest)
  /\ UNCHANGED <<github, excluded, calls, trusted>>

\* unpacking stops half way, or the last step, writing the manifest, does
ExtractStops(r) ==
  /\ At(r, "fetch")
  /\ \E left \in {"part", "whole"} :
       /\ dirs' = [dirs EXCEPT ![Head(req[r].todo)] = left]
       /\ manifest' \in IF left = "whole" /\ Len(req[r].todo) = 1
                        THEN {manifest, Torn} ELSE {manifest}
  /\ removed' = removed \ {Head(req[r].todo)}
  /\ Interrupted(r)
  /\ UNCHANGED <<github, excluded, told, calls, trusted, steady>>

\* a call of GitHub fails, a digest is missing or wrong, the gateway dies
CallFails(r) ==
  /\ req[r] # Idle
  /\ Interrupted(r)
  /\ UNCHANGED <<github, disk, told, calls, history>>

(***************************************************************************)
(* The environment.                                                        *)
(***************************************************************************)
\* those who list a run that goes on see the artifacts change, or the run restart
Follows(r) == At(r, "list") /\ ~req[r].rerun
Witness ==
  req' = [r \in Slot |-> IF Follows(r)
            THEN [req[r] EXCEPT !.seen = @ \cup {remote'}, !.rerun = ~completed']
            ELSE req[r]]

Rerun ==
  /\ completed /\ made < MaxId
  /\ completed' = FALSE /\ UNCHANGED <<remote, made>>
  /\ Witness /\ UNCHANGED <<disk, told, calls, history>>

Upload ==
  /\ ~completed /\ made < MaxId
  /\ made' = made + 1 /\ remote' = remote \cup {made'} /\ completed' \in BOOLEAN
  /\ Witness /\ UNCHANGED <<disk, told, calls, history>>

\* by a user, or because it expires
Delete ==
  /\ \E a \in remote : remote' = remote \ {a}
  /\ UNCHANGED <<completed, made>>
  /\ Witness /\ UNCHANGED <<disk, told, calls, history>>

\* a command of the workspace deletes a downloaded artifact
CommandRemoves ==
  /\ \E a \in Id : /\ dirs[a] # "none"
                   /\ dirs' = [dirs EXCEPT ![a] = "none"]
                   /\ removed' = removed \cup {a}
  /\ UNCHANGED <<github, manifest, excluded, req, told, calls, trusted, steady>>

Next ==
  \/ \E r \in Slot : Arrive(r) \/ ReadRun(r) \/ ReadPage(r) \/ Extract(r)
                       \/ ExtractStops(r) \/ CallFails(r)
  \/ Rerun \/ Upload \/ Delete \/ CommandRemoves

Spec == Init /\ [][Next]_vars

(***************************************************************************)
(* What must hold.                                                         *)
(***************************************************************************)
\* Unless two synchronisations overlapped or a removal was interrupted since
\* the directory was last made anew, a manifest that can be read is the truth,
\* after crashes and failed downloads too: the artifacts it names are
\* there in full, except for those that a command deleted, and no others are.
\* And git status never shows any of them.
ManifestIsTrue ==
  /\ trusted /\ manifest \notin {None, Torn} => \A a \in Id :
       IF a \in ToSet(manifest) THEN dirs[a] = "whole" \/ (a \in removed /\ dirs[a] = "none")
                                ELSE dirs[a] = "none"
  /\ dirs # Empty => excluded

Responds(r) == told[r] = None /\ told'[r] # None

\* Under the same condition a response, whether it downloaded or skipped, names
\* artifacts that are there in full (a command may have deleted one while the
\* others were downloaded).
ResponseIsWhole ==
  [][\A r \in Slot : Responds(r) /\ trusted' =>
       \A a \in ToSet(told'[r]) :
         dirs'[a] = "whole" \/ (At(r, "fetch") /\ a \in removed')]_vars

\* The artifacts a response names are exactly those the run had at one moment
\* while they were listed, even if some were deleted between two pages, unless
\* the run was started again meanwhile, or while the artifacts of the manifest
\* were listed, which a response that skips the downloads repeats.
ResponseIsASnapshot ==
  [][\A r \in Slot : Responds(r) /\ ~req[r].rerun /\ steady' =>
       ToSet(told'[r]) \in req[r].seen]_vars
=============================================================================
