-------------------------- MODULE ArtifactSyncProofs --------------------------
(***************************************************************************)
(* Theorems about ArtifactSync, for any number of synchronisations,        *)
(* artifacts and requests and any size of the pages: a manifest is the     *)
(* truth about the directory, what a response names is there in full, and  *)
(* it is what the run had at one moment.                                   *)
(***************************************************************************)
EXTENDS ArtifactSync, FiniteSetTheorems, TLAPS

\* A sequence, of whatever is in it.
IsList(q) == q \in Seq(ToSet(q))

Types ==
  /\ remote \subseteq Id /\ made \in 0..MaxId
  /\ dirs \in [Id -> {"none", "part", "whole"}] /\ removed \subseteq Id
  /\ DOMAIN req = Slot /\ DOMAIN told = Slot

\* An artifact that was downloaded, and perhaps deleted by a command since then.
InFull(a) == dirs[a] = "whole" \/ (a \in removed /\ dirs[a] = "none")

Listing(r) == At(r, "list") => IsList(req[r].got) /\ req[r].page \in Nat \ {0}

\* What is to be downloaded is a part of what was listed ...
Under(r) ==
  At(r, "fetch") =>
    /\ IsList(req[r].list) /\ IsList(req[r].todo)
    /\ req[r].todo # <<>> /\ ToSet(req[r].todo) \subseteq ToSet(req[r].list)
    /\ excluded

\* ... and when nothing disturbs the synchronisation, it is the only one, there
\* is no manifest, and the directory holds what it has downloaded.
Undisturbed(r) ==
  At(r, "fetch") /\ trusted =>
    /\ Fetching = {r} /\ manifest = None
    /\ ToSet(req[r].list) \ ToSet(req[r].todo) \subseteq Id
    /\ \A a \in Id : IF a \notin ToSet(req[r].list) THEN dirs[a] = "none"
                     ELSE a \notin ToSet(req[r].todo) => InFull(a)

\* What a manifest promises.
Promised ==
  trusted /\ manifest \notin {None, Torn} =>
    /\ ToSet(manifest) \subseteq Id
    /\ \A a \in Id : IF a \in ToSet(manifest) THEN InFull(a) ELSE dirs[a] = "none"

SyncInv ==
  /\ Types
  /\ \A r \in Slot : Listing(r) /\ Under(r) /\ Undisturbed(r)
  /\ Promised
  /\ dirs # Empty => excluded

-----------------------------------------------------------------------------
(***************************************************************************)
(* Facts about lists.                                                      *)
(***************************************************************************)
LEMMA MinFacts ==
  ASSUME NEW a \in Nat, NEW b \in Nat
  PROVE  Min({a, b}) \in Nat /\ Min({a, b}) <= b
<1>1. CASE a <= b
  BY <1>1 DEF Min
<1>2. CASE b < a
  BY <1>2 DEF Min
<1> QED
  BY <1>1, <1>2

LEMMA SequencesAreLists ==
  ASSUME NEW S, NEW q \in Seq(S)
  PROVE  IsList(q)
<1>1. q \in [1..Len(q) -> S] /\ Len(q) \in Nat /\ DOMAIN q = 1..Len(q)
  OBVIOUS
<1>2. ToSet(q) = {q[i] : i \in 1..Len(q)}
  BY <1>1 DEF ToSet
<1>3. q \in [1..Len(q) -> ToSet(q)]
  BY <1>1, <1>2
<1> QED
  BY <1>1, <1>3 DEF IsList

LEMMA EmptyList == IsList(<<>>) /\ ToSet(<<>>) = {}
<1>1. <<>> \in Seq({}) /\ DOMAIN <<>> = {}
  OBVIOUS
<1> QED
  BY <1>1, SequencesAreLists DEF ToSet

LEMMA JoinedLists ==
  ASSUME NEW p, NEW q, IsList(p), IsList(q)
  PROVE  IsList(p \o q)
<1>1. PICK S : S = ToSet(p) \cup ToSet(q)
  OBVIOUS
<1>2. p \in Seq(S) /\ q \in Seq(S)
  <2>1. p \in Seq(ToSet(p)) /\ q \in Seq(ToSet(q))
    BY DEF IsList
  <2>2. \A T, U : T \subseteq U => \A f \in Seq(T) : f \in Seq(U)
    OBVIOUS
  <2>3. ToSet(p) \subseteq S /\ ToSet(q) \subseteq S
    BY <1>1
  <2> QED
    BY <2>1, <2>2, <2>3
<1>3. (p \o q) \in Seq(S)
  BY <1>2
<1> QED
  BY <1>3, SequencesAreLists

LEMMA SortedList ==
  ASSUME NEW q, IsList(q)
  PROVE  IsList(Sorted(q))
<1>1. DOMAIN q = 1..Len(q) /\ Len(q) \in Nat
  BY DEF IsList
<1> DEFINE place(k) ==
      CHOOSE a \in ToSet(q) : /\ Cardinality({i \in DOMAIN q : q[i] < a}) < k
                              /\ Cardinality({i \in DOMAIN q : q[i] <= a}) >= k
<1>2. Sorted(q) = [k \in 1..Len(q) |-> place(k)]
  BY <1>1 DEF Sorted
<1> HIDE DEF place
<1>3. Sorted(q) \in [1..Len(q) -> {place(k) : k \in 1..Len(q)}]
  BY <1>2
<1>4. Sorted(q) \in Seq({place(k) : k \in 1..Len(q)})
  BY <1>1, <1>3
<1> QED
  BY <1>4, SequencesAreLists

LEMMA PartOfList ==
  ASSUME NEW S, NEW q \in Seq(S), NEW a \in Nat, NEW b \in Nat, b <= Len(q)
  PROVE  SubSeq(q, a + 1, b) \in Seq(S)
<1>1. CASE a < b
  BY <1>1
<1>2. CASE b <= a
  BY <1>2
<1> QED
  BY <1>1, <1>2

LEMMA PageList ==
  ASSUME Types, NEW p \in Nat \ {0}
  PROVE  IsList(Page(p))
<1>1. IsFiniteSet(remote)
  <2>1. IsFiniteSet(1..MaxId)
    BY SyncAssumption, FS_Interval
  <2> QED
    BY <2>1, FS_Subset DEF Types, Id
<1>2. PICK n \in Nat : n = Cardinality(remote)
  BY <1>1, FS_CardinalityType
<1> DEFINE nth(k) == CHOOSE a \in remote : Cardinality({b \in remote : b >= a}) = k
<1>3. Newest = [k \in 1..n |-> nth(k)]
  BY <1>2 DEF Newest
<1> HIDE DEF nth
<1>4. Newest \in [1..n -> {nth(k) : k \in 1..n}]
  BY <1>3
<1>5. PICK S : S = {nth(k) : k \in 1..n} /\ Newest \in Seq(S)
  <2>1. Newest \in Seq({nth(k) : k \in 1..n})
    BY <1>2, <1>4
  <2> QED
    BY <2>1
<1>6. Len(Newest) = n
  BY <1>2, <1>4
<1>7. PICK a \in Nat, b \in Nat :
        a = (p - 1) * PageSize /\ b = Min({p * PageSize, Len(Newest)}) /\ b <= n
  <2>1. p * PageSize \in Nat /\ (p - 1) * PageSize \in Nat
    BY SyncAssumption
  <2>2. Min({p * PageSize, n}) \in Nat /\ Min({p * PageSize, n}) <= n
    BY <1>2, <2>1, MinFacts
  <2> QED
    BY <1>6, <2>1, <2>2
<1>8. SubSeq(Newest, a + 1, b) \in Seq(S)
  BY <1>5, <1>6, <1>7, PartOfList
<1> QED
  BY <1>7, <1>8, SequencesAreLists DEF Page

\* A list that is not empty is its first element and the others.
LEMMA FirstAndOthers ==
  ASSUME NEW q, IsList(q), q # <<>>
  PROVE  /\ IsList(Tail(q)) /\ ToSet(Tail(q)) \subseteq ToSet(q)
         /\ Head(q) \in ToSet(q) /\ ToSet(q) \subseteq {Head(q)} \cup ToSet(Tail(q))
<1>1. PICK n \in Nat : n = Len(q) /\ DOMAIN q = 1..n /\ q \in Seq(ToSet(q)) /\ n # 0
  BY DEF IsList
<1>2. /\ Tail(q) \in Seq(ToSet(q)) /\ Head(q) = q[1] /\ DOMAIN Tail(q) = 1..(n - 1)
      /\ \A i \in 1..(n - 1) : Tail(q)[i] = q[i + 1]
  BY <1>1
<1>3. ToSet(q) = {q[i] : i \in 1..n} /\ ToSet(Tail(q)) = {Tail(q)[i] : i \in 1..(n - 1)}
  BY <1>1, <1>2 DEF ToSet
<1>4. ASSUME NEW x \in ToSet(q), x # Head(q) PROVE x \in ToSet(Tail(q))
  <2>1. PICK i \in 1..n : x = q[i]
    BY <1>3
  <2>2. i - 1 \in 1..(n - 1) /\ Tail(q)[i - 1] = x
    BY <1>2, <1>4, <2>1
  <2> QED
    BY <1>3, <2>2
<1>5. ToSet(Tail(q)) \subseteq ToSet(q)
  <2> SUFFICES ASSUME NEW x \in ToSet(Tail(q)) PROVE x \in ToSet(q)
    OBVIOUS
  <2>1. PICK i \in 1..(n - 1) : x = q[i + 1]
    BY <1>2, <1>3
  <2>2. i + 1 \in 1..n
    BY <1>1
  <2> QED
    BY <1>3, <2>1, <2>2
<1>6. Head(q) \in ToSet(q)
  <2>1. 1 \in 1..n
    BY <1>1
  <2> QED
    BY <1>2, <1>3, <2>1
<1>7. IsList(Tail(q))
  BY <1>2, SequencesAreLists
<1> QED
  BY <1>4, <1>5, <1>6, <1>7

-----------------------------------------------------------------------------
(***************************************************************************)
(* The steps.                                                              *)
(***************************************************************************)
\* A step that leaves the directory and its history alone and begins no download.
LEMMA QuietStep ==
  ASSUME SyncInv, UNCHANGED <<dirs, manifest, history>>, excluded => excluded',
         remote' \subseteq Id, made' \in 0..MaxId, DOMAIN req' = Slot, DOMAIN told' = Slot,
         \A s \in Slot : Listing(s)',
         \A s \in Slot : At(s, "fetch")' => req'[s] = req[s]
  PROVE  SyncInv'
<1>1. Types'
  BY DEF SyncInv, Types, history
<1>2. ASSUME NEW s \in Slot PROVE Under(s)'
  BY DEF SyncInv, Under, At
<1>3. ASSUME NEW s \in Slot PROVE Undisturbed(s)'
  <2> SUFFICES ASSUME At(s, "fetch")', trusted' PROVE Undisturbed(s)'
    BY DEF Undisturbed
  <2>1. req'[s] = req[s] /\ At(s, "fetch") /\ trusted /\ Undisturbed(s)
    BY DEF SyncInv, At, history
  <2>2. Fetching' = {s}
    <3>1. \A t \in Slot : At(t, "fetch")' => At(t, "fetch")
      BY DEF At
    <3> QED
      BY <2>1, <3>1 DEF Undisturbed, Fetching
  <2> QED
    BY <2>1, <2>2 DEF Undisturbed, InFull, history
<1>4. Promised' /\ (dirs' # Empty => excluded')
  BY DEF SyncInv, Promised, InFull, history
<1> QED
  BY <1>1, <1>2, <1>3, <1>4 DEF SyncInv

\* What a request does with its own record.
LEMMA Goings ==
  ASSUME Types, NEW r \in Slot, NEW next, Goes(r, next)
  PROVE  /\ DOMAIN req' = Slot /\ req'[r] = next
         /\ \A s \in Slot \ {r} : req'[s] = req[s]
  BY DEF Types, Goes

LEMMA ArriveStep ==
  ASSUME SyncInv, NEW r \in Slot, Arrive(r)
  PROVE  SyncInv'
<1>1. /\ Goes(r, [pc |-> "status"]) /\ told' = [told EXCEPT ![r] = None]
      /\ UNCHANGED <<remote, made, dirs, manifest, excluded, history>>
  BY DEF Arrive, github, disk
<1>2. /\ DOMAIN req' = Slot /\ req'[r] = [pc |-> "status"]
      /\ \A s \in Slot \ {r} : req'[s] = req[s]
  BY <1>1, Goings DEF SyncInv
<1>3. \A s \in Slot : Listing(s)' /\ (At(s, "fetch")' => req'[s] = req[s])
  BY <1>2 DEF SyncInv, Listing, At
<1> QED
  BY <1>1, <1>2, <1>3, QuietStep DEF SyncInv, Types

\* The next of a request is no download.
LEMMA ReadRunStep ==
  ASSUME SyncInv, NEW r \in Slot, ReadRun(r)
  PROVE  SyncInv'
<1>1. /\ UNCHANGED <<remote, made, dirs, manifest, excluded, history, told>>
      /\ \/ Goes(r, [pc |-> "list", page |-> 1, total |-> 0, got |-> <<>>,
                     seen |-> {remote}, rerun |-> FALSE])
         \/ Goes(r, Idle)
  BY DEF ReadRun, github, disk, Ends
<1>2. PICK next :
        /\ Goes(r, next)
        /\ next.pc # "fetch" /\ (next.pc = "list" => next.got = <<>> /\ next.page = 1)
  BY <1>1 DEF Idle
<1>3. DOMAIN req' = Slot /\ req'[r] = next /\ \A s \in Slot \ {r} : req'[s] = req[s]
  BY <1>2, Goings DEF SyncInv
<1>4. \A s \in Slot : Listing(s)' /\ (At(s, "fetch")' => req'[s] = req[s])
  BY <1>2, <1>3, EmptyList DEF SyncInv, Listing, At
<1> QED
  BY <1>1, <1>3, <1>4, QuietStep DEF SyncInv, Types

\* A request ends, or all of them do.
LEMMA Endings ==
  ASSUME Types, NEW r \in Slot, Interrupted(r)
  PROVE  /\ DOMAIN req' = Slot /\ req'[r] = Idle
         /\ \A s \in Slot : req'[s] = req[s] \/ req'[s] = Idle
<1>1. CASE Ends(r)
  BY <1>1, Goings DEF Ends
<1>2. CASE req' = [s \in Slot |-> Idle]
  BY <1>2
<1> QED
  BY <1>1, <1>2 DEF Interrupted

LEMMA CallFailsStep ==
  ASSUME SyncInv, NEW r \in Slot, CallFails(r)
  PROVE  SyncInv'
<1>1. /\ Interrupted(r) /\ UNCHANGED <<remote, made, dirs, manifest, excluded, history, told>>
  BY DEF CallFails, github, disk
<1>2. DOMAIN req' = Slot /\ \A s \in Slot : req'[s] = req[s] \/ req'[s] = Idle
  BY <1>1, Endings DEF SyncInv
<1>3. \A s \in Slot : Listing(s)' /\ (At(s, "fetch")' => req'[s] = req[s])
  BY <1>2 DEF SyncInv, Listing, At, Idle
<1> QED
  BY <1>1, <1>2, <1>3, QuietStep DEF SyncInv, Types

\* GitHub changes: those who list keep what they have.
LEMMA GitHubStep ==
  ASSUME SyncInv, Rerun \/ Upload \/ Delete
  PROVE  SyncInv'
<1>1. Witness /\ UNCHANGED <<dirs, manifest, excluded, told, history>>
  BY DEF Rerun, Upload, Delete, disk
<1>2. remote' \subseteq Id /\ made' \in 0..MaxId
  <2>1. CASE Rerun
    BY <2>1 DEF Rerun, SyncInv, Types
  <2>2. CASE Upload
    <3>1. made' = made + 1 /\ made \in 0..MaxId /\ made < MaxId /\ remote' = remote \cup {made'}
      BY <2>2 DEF Upload, SyncInv, Types
    <3>2. made' \in 1..MaxId
      BY <3>1, SyncAssumption
    <3> QED
      BY <3>1, <3>2 DEF SyncInv, Types, Id
  <2>3. CASE Delete
    BY <2>3 DEF Delete, SyncInv, Types
  <2> QED
    BY <2>1, <2>2, <2>3
<1>3. DOMAIN req' = Slot
  BY <1>1 DEF Witness
<1>4. ASSUME NEW s \in Slot PROVE Listing(s)' /\ (At(s, "fetch")' => req'[s] = req[s])
  <2>1. CASE Follows(s)
    <3>1. req'[s] = [req[s] EXCEPT !.seen = @ \cup {remote'}, !.rerun = ~completed']
      BY <1>1, <2>1 DEF Witness
    <3>2. req'[s].pc = "list" /\ req'[s].got = req[s].got /\ req'[s].page = req[s].page
      BY <2>1, <3>1 DEF Follows, At
    <3> QED
      BY <2>1, <3>2 DEF SyncInv, Listing, Follows, At
  <2>2. CASE ~Follows(s)
    <3>1. req'[s] = req[s]
      BY <1>1, <2>2 DEF Witness
    <3> QED
      BY <2>2, <3>1 DEF SyncInv, Listing, At
  <2> QED
    BY <2>1, <2>2
<1> QED
  BY <1>1, <1>2, <1>3, <1>4, QuietStep DEF SyncInv, Types

\* A command deletes a download: the history has it.
LEMMA CommandStep ==
  ASSUME SyncInv, CommandRemoves
  PROVE  SyncInv'
<1>1. PICK a \in Id : /\ dirs[a] # "none" /\ dirs' = [dirs EXCEPT ![a] = "none"]
                      /\ removed' = removed \cup {a}
  BY DEF CommandRemoves
<1>2. UNCHANGED <<remote, made, manifest, excluded, req, told, trusted>>
  BY DEF CommandRemoves, github
<1>3. Types'
  BY <1>1, <1>2 DEF SyncInv, Types
<1>4. /\ dirs'[a] = "none" /\ a \in removed'
      /\ \A b \in Id \ {a} : dirs'[b] = dirs[b] /\ (b \in removed' <=> b \in removed)
  BY <1>1 DEF SyncInv, Types
<1>5. \A b \in Id : /\ InFull(b) => InFull(b)'
                    /\ dirs[b] = "none" => dirs'[b] = "none"
  BY <1>1, <1>4 DEF InFull
<1>6. ASSUME NEW s \in Slot PROVE (Listing(s) /\ Under(s))'
  BY <1>2 DEF SyncInv, Listing, Under, At
<1>7. ASSUME NEW s \in Slot PROVE Undisturbed(s)'
  <2>1. Undisturbed(s) /\ Fetching' = Fetching
    BY <1>2 DEF SyncInv, Fetching, At
  <2> QED
    BY <1>2, <1>5, <2>1 DEF Undisturbed, At
<1>8. Promised'
  BY <1>2, <1>5 DEF SyncInv, Promised
<1>9. excluded'
  <2>1. dirs # Empty
    BY <1>1 DEF Empty
  <2> QED
    BY <1>2, <2>1 DEF SyncInv
<1> QED
  BY <1>3, <1>6, <1>7, <1>8, <1>9 DEF SyncInv

\* What follows when the directory is left in doubt: nothing is promised.
LEMMA Doubted ==
  ASSUME SyncInv, Types', NEW r \in Slot, Interrupted(r), excluded',
         \/ trusted' = FALSE
         \/ trusted' = trusted /\ At(r, "fetch") /\ manifest' \in {manifest, Torn}
  PROVE  SyncInv'
<1>1. /\ DOMAIN req' = Slot /\ req'[r] = Idle
      /\ \A s \in Slot : req'[s] = req[s] \/ req'[s] = Idle
  BY Endings DEF SyncInv
<1>2. ASSUME NEW s \in Slot PROVE (Listing(s) /\ Under(s))'
  BY <1>1 DEF SyncInv, Listing, Under, At, Idle
<1>3. ASSUME trusted' PROVE manifest' \in {None, Torn} /\ \A s \in Slot : ~At(s, "fetch")'
  <2>1. trusted /\ At(r, "fetch") /\ manifest' \in {manifest, Torn} /\ Undisturbed(r)
    BY <1>3 DEF SyncInv
  <2>2. manifest = None /\ Fetching = {r}
    BY <2>1 DEF Undisturbed
  <2> QED
    BY <1>1, <2>1, <2>2 DEF Fetching, At, Idle
<1>4. ASSUME NEW s \in Slot PROVE Undisturbed(s)'
  BY <1>3 DEF Undisturbed
<1>5. Promised'
  BY <1>3 DEF Promised
<1> QED
  BY <1>2, <1>4, <1>5 DEF SyncInv

LEMMA ExtractStopsStep ==
  ASSUME SyncInv, NEW r \in Slot, ExtractStops(r)
  PROVE  SyncInv'
<1>1. PICK left \in {"part", "whole"} :
        /\ dirs' = [dirs EXCEPT ![Head(req[r].todo)] = left]
        /\ manifest' \in {manifest, Torn}
  BY DEF ExtractStops
<1>2. /\ At(r, "fetch") /\ removed' = removed \ {Head(req[r].todo)} /\ Interrupted(r)
      /\ UNCHANGED <<remote, made, excluded, told, trusted>>
  BY DEF ExtractStops, github
<1>3. excluded
  BY <1>2 DEF SyncInv, Under
<1>4. Types'
  <2>1. dirs' \in [Id -> {"none", "part", "whole"}]
    BY <1>1 DEF SyncInv, Types
  <2>2. DOMAIN req' = Slot
    BY <1>2, Endings DEF SyncInv
  <2> QED
    BY <1>2, <2>1, <2>2 DEF SyncInv, Types
<1> QED
  BY <1>1, <1>2, <1>3, <1>4, Doubted

\* An artifact is downloaded in full; after the last the manifest is written.
LEMMA ExtractFacts ==
  ASSUME SyncInv, NEW r \in Slot, Extract(r)
  PROVE  /\ At(r, "fetch") /\ Head(req[r].todo) \in Id
         /\ dirs' = [dirs EXCEPT ![Head(req[r].todo)] = "whole"]
         /\ removed' = removed \ {Head(req[r].todo)}
         /\ UNCHANGED <<remote, made, excluded, trusted>>
         /\ DOMAIN req' = Slot /\ \A s \in Slot \ {r} : req'[s] = req[s]
         /\ \/ /\ Tail(req[r].todo) = <<>> /\ manifest' = req[r].list
               /\ req'[r] = Idle /\ told' = [told EXCEPT ![r] = req[r].list]
            \/ /\ Tail(req[r].todo) # <<>> /\ manifest' = manifest /\ told' = told
               /\ At(r, "fetch")' /\ req'[r].list = req[r].list
               /\ req'[r].todo = Tail(req[r].todo)
<1>1. /\ At(r, "fetch") /\ Head(req[r].todo) \in Id
      /\ dirs' = [dirs EXCEPT ![Head(req[r].todo)] = "whole"]
      /\ removed' = removed \ {Head(req[r].todo)}
      /\ UNCHANGED <<remote, made, excluded, trusted>>
  BY DEF Extract, SyncInv, Types, github
<1>2. ThenManifest(r, req[r].list, Tail(req[r].todo), manifest)
  BY DEF Extract, Continues
<1>3. CASE Tail(req[r].todo) = <<>>
  <2>1. manifest' = req[r].list /\ Goes(r, Idle) /\ told' = [told EXCEPT ![r] = req[r].list]
    BY <1>2, <1>3 DEF ThenManifest, Records, Answers, Ends
  <2>2. DOMAIN req' = Slot /\ req'[r] = Idle /\ \A s \in Slot \ {r} : req'[s] = req[s]
    BY <2>1, Goings DEF SyncInv
  <2> QED
    BY <1>1, <1>3, <2>1, <2>2
<1>4. CASE Tail(req[r].todo) # <<>>
  <2>1. Fetches(r, req[r].list, Tail(req[r].todo)) /\ manifest' = manifest
    BY <1>2, <1>4 DEF ThenManifest
  <2>2. PICK next : next = [pc |-> "fetch", list |-> req[r].list, todo |-> Tail(req[r].todo),
                            seen |-> req[r].seen, rerun |-> req[r].rerun]
    OBVIOUS
  <2>3. DOMAIN req' = Slot /\ req'[r] = next /\ \A s \in Slot \ {r} : req'[s] = req[s]
    BY <2>1, <2>2, Goings DEF SyncInv, Fetches
  <2>4. next.pc = "fetch" /\ next.list = req[r].list /\ next.todo = Tail(req[r].todo)
    BY <2>2
  <2>5. told' = told
    BY <2>1 DEF Fetches
  <2> QED
    BY <1>1, <1>4, <2>1, <2>3, <2>4, <2>5 DEF At
<1> QED
  BY <1>3, <1>4

\* An undisturbed synchronisation has downloaded one more.
LEMMA ExtractAdds ==
  ASSUME SyncInv, NEW r \in Slot, Extract(r), trusted,
         NEW list, NEW todo, list = req[r].list, todo = req[r].todo
  PROVE  /\ \A s \in Slot \ {r} : ~At(s, "fetch")'
         /\ ToSet(list) \ ToSet(Tail(todo)) \subseteq Id
         /\ \A b \in Id : IF b \notin ToSet(list) THEN dirs'[b] = "none"
                          ELSE b \notin ToSet(Tail(todo)) => InFull(b)'
<1>1. PICK a \in Id :
        /\ a = Head(todo) /\ dirs' = [dirs EXCEPT ![a] = "whole"] /\ removed' = removed \ {a}
        /\ At(r, "fetch") /\ \A s \in Slot \ {r} : req'[s] = req[s]
  BY ExtractFacts
<1>2. IsList(todo) /\ todo # <<>> /\ ToSet(todo) \subseteq ToSet(list)
  BY <1>1 DEF SyncInv, Under
<1>3. a \in ToSet(todo) /\ ToSet(todo) \subseteq {a} \cup ToSet(Tail(todo))
  BY <1>1, <1>2, FirstAndOthers
<1>4. InFull(a)' /\ \A b \in Id \ {a} : dirs'[b] = dirs[b] /\ (b \in removed' <=> b \in removed)
  BY <1>1 DEF SyncInv, Types, InFull
<1>5. Undisturbed(r)
  BY DEF SyncInv
<1>6. /\ Fetching = {r} /\ ToSet(list) \ ToSet(todo) \subseteq Id
      /\ \A b \in Id : IF b \notin ToSet(list) THEN dirs[b] = "none"
                       ELSE b \notin ToSet(todo) => InFull(b)
  BY <1>1, <1>5 DEF Undisturbed
<1>7. \A s \in Slot \ {r} : ~At(s, "fetch")'
  BY <1>1, <1>6 DEF Fetching, At
<1>8. ToSet(list) \ ToSet(Tail(todo)) \subseteq Id
  BY <1>3, <1>6
<1>9. ASSUME NEW b \in Id
      PROVE  IF b \notin ToSet(list) THEN dirs'[b] = "none"
             ELSE b \notin ToSet(Tail(todo)) => InFull(b)'
  BY <1>2, <1>3, <1>4, <1>6 DEF InFull
<1> QED
  BY <1>7, <1>8, <1>9

LEMMA ExtractStep ==
  ASSUME SyncInv, NEW r \in Slot, Extract(r)
  PROVE  SyncInv'
<1>1. PICK a, list, todo :
        /\ a \in Id /\ list = req[r].list /\ todo = req[r].todo /\ a = Head(todo)
        /\ dirs' = [dirs EXCEPT ![a] = "whole"] /\ removed' = removed \ {a}
  BY ExtractFacts
<1>2. /\ At(r, "fetch") /\ UNCHANGED <<remote, made, excluded, trusted>>
      /\ DOMAIN req' = Slot /\ \A s \in Slot \ {r} : req'[s] = req[s]
      /\ \/ /\ Tail(todo) = <<>> /\ manifest' = list
            /\ req'[r] = Idle /\ DOMAIN told' = Slot
         \/ /\ Tail(todo) # <<>> /\ manifest' = manifest /\ told' = told
            /\ At(r, "fetch")' /\ req'[r].list = list
            /\ req'[r].todo = Tail(todo)
  BY <1>1, ExtractFacts DEF SyncInv, Types
<1>3. Types'
  BY <1>1, <1>2 DEF SyncInv, Types
<1>4. /\ IsList(list) /\ IsList(todo) /\ todo # <<>> /\ ToSet(todo) \subseteq ToSet(list)
      /\ excluded
  BY <1>1, <1>2 DEF SyncInv, Under
<1>5. /\ IsList(Tail(todo)) /\ ToSet(Tail(todo)) \subseteq ToSet(todo)
      /\ a \in ToSet(todo) /\ ToSet(todo) \subseteq {a} \cup ToSet(Tail(todo))
  BY <1>1, <1>4, FirstAndOthers
<1>6. ASSUME NEW s \in Slot PROVE Listing(s)'
  BY <1>2 DEF SyncInv, Listing, At, Idle
<1>7. ASSUME NEW s \in Slot PROVE Under(s)'
  <2>1. CASE s = r
    <3> SUFFICES ASSUME At(r, "fetch")' PROVE Under(r)'
      BY <2>1 DEF Under
    <3>1. Tail(todo) # <<>> /\ req'[r].list = list /\ req'[r].todo = Tail(todo)
      BY <1>2 DEF At, Idle
    <3>2. ToSet(Tail(todo)) \subseteq ToSet(list) /\ excluded'
      BY <1>2, <1>4, <1>5
    <3> QED
      BY <1>4, <1>5, <3>1, <3>2 DEF Under
  <2>2. CASE s # r
    BY <1>2, <2>2 DEF SyncInv, Under, At
  <2> QED
    BY <2>1, <2>2
<1>8. ASSUME trusted
      PROVE  /\ \A s \in Slot \ {r} : ~At(s, "fetch")'
             /\ ToSet(list) \ ToSet(Tail(todo)) \subseteq Id
             /\ \A b \in Id : IF b \notin ToSet(list) THEN dirs'[b] = "none"
                              ELSE b \notin ToSet(Tail(todo)) => InFull(b)'
  BY <1>1, <1>8, ExtractAdds
<1>9. ASSUME NEW s \in Slot PROVE Undisturbed(s)'
  <2> SUFFICES ASSUME At(s, "fetch")', trusted PROVE Undisturbed(s)'
    BY <1>2 DEF Undisturbed
  <2>1. s = r
    BY <1>8
  <2>2. Tail(todo) # <<>> /\ manifest' = manifest /\ req'[r].list = list /\ req'[r].todo = Tail(todo)
    BY <1>2, <2>1 DEF At, Idle
  <2>3. manifest = None
    BY <1>2 DEF SyncInv, Undisturbed
  <2>4. Fetching' = {r}
    BY <1>8, <2>1 DEF Fetching
  <2> QED
    BY <1>8, <2>1, <2>2, <2>3, <2>4 DEF Undisturbed
<1>10. Promised'
  <2> SUFFICES ASSUME trusted, manifest' \notin {None, Torn}
               PROVE  /\ ToSet(manifest') \subseteq Id
                      /\ \A b \in Id : IF b \in ToSet(manifest') THEN InFull(b)'
                                       ELSE dirs'[b] = "none"
    BY <1>2 DEF Promised
  <2>1. manifest = None
    BY <1>2 DEF SyncInv, Undisturbed
  <2>2. Tail(todo) = <<>> /\ manifest' = list
    BY <1>2, <2>1
  <2>3. ToSet(Tail(todo)) = {}
    BY <2>2, EmptyList
  <2> QED
    BY <1>8, <2>2, <2>3
<1> QED
  BY <1>2, <1>3, <1>4, <1>6, <1>7, <1>9, <1>10 DEF SyncInv

\* What is decided with the last page (Decide).
LEMMA DecideStep ==
  ASSUME SyncInv, NEW r \in Slot, NEW list, IsList(list), At(r, "list"), Decide(r, list),
         UNCHANGED github
  PROVE  SyncInv'
<1>1. excluded' /\ UNCHANGED <<remote, made>>
  BY DEF Decide, Excludes, github
<1>2. CASE /\ UNCHANGED <<dirs, manifest, history>> /\ Ends(r)
           /\ (told' = told \/ told' = [told EXCEPT ![r] = list])
  <2>1. DOMAIN req' = Slot /\ req'[r] = Idle /\ \A s \in Slot \ {r} : req'[s] = req[s]
    BY <1>2, Goings DEF SyncInv, Ends
  <2>2. \A s \in Slot : Listing(s)' /\ (At(s, "fetch")' => req'[s] = req[s])
    BY <2>1 DEF SyncInv, Listing, At, Idle
  <2> QED
    BY <1>1, <1>2, <2>1, <2>2, QuietStep DEF SyncInv, Types
<1>3. CASE /\ dirs' = Empty /\ ThenManifest(r, list, list, None)
           /\ trusted' = (Fetching = {}) /\ removed' = {}
  <2>1. \A a \in Id : dirs'[a] = "none"
    BY <1>3 DEF Empty
  <2>2. PICK next :
          /\ DOMAIN req' = Slot /\ DOMAIN told' = Slot /\ req'[r] = next
          /\ \A s \in Slot \ {r} : req'[s] = req[s]
          /\ \/ list = <<>> /\ manifest' = list /\ next = Idle
             \/ /\ list # <<>> /\ manifest' = None
                /\ next.pc = "fetch" /\ next.list = list /\ next.todo = list
    <3>1. CASE list = <<>>
      <4>1. manifest' = list /\ Goes(r, Idle) /\ told' = [told EXCEPT ![r] = list]
        BY <1>3, <3>1 DEF ThenManifest, Records, Answers, Ends
      <4>2. DOMAIN req' = Slot /\ req'[r] = Idle /\ \A s \in Slot \ {r} : req'[s] = req[s]
        BY <4>1, Goings DEF SyncInv
      <4> QED
        BY <3>1, <4>1, <4>2 DEF SyncInv, Types
    <3>2. CASE list # <<>>
      <4>1. /\ manifest' = None /\ told' = told
            /\ Goes(r, [pc |-> "fetch", list |-> list, todo |-> list,
                        seen |-> req[r].seen, rerun |-> req[r].rerun])
        BY <1>3, <3>2 DEF ThenManifest, Fetches
      <4>2. /\ DOMAIN req' = Slot /\ \A s \in Slot \ {r} : req'[s] = req[s]
            /\ req'[r] = [pc |-> "fetch", list |-> list, todo |-> list,
                          seen |-> req[r].seen, rerun |-> req[r].rerun]
        BY <4>1, Goings DEF SyncInv
      <4>3. req'[r].pc = "fetch" /\ req'[r].list = list /\ req'[r].todo = list
        BY <4>2
      <4> QED
        BY <3>2, <4>1, <4>2, <4>3 DEF SyncInv, Types
    <3> QED
      BY <3>1, <3>2
  <2>3. Types'
    BY <1>1, <1>3, <2>2 DEF SyncInv, Types, Empty
  <2>4. ASSUME NEW s \in Slot PROVE (Listing(s) /\ Under(s))'
    <3>1. CASE s = r
      BY <1>1, <2>2, <3>1 DEF Listing, Under, At, Idle
    <3>2. CASE s # r
      BY <1>1, <2>2, <3>2 DEF SyncInv, Listing, Under, At
    <3> QED
      BY <3>1, <3>2
  <2>5. ASSUME NEW s \in Slot PROVE Undisturbed(s)'
    <3> SUFFICES ASSUME At(s, "fetch")', trusted' PROVE Undisturbed(s)'
      BY DEF Undisturbed
    <3>1. \A t \in Slot \ {r} : ~At(t, "fetch")'
      BY <1>3, <2>2 DEF Fetching, At
    <3>2. s = r
      BY <3>1
    <3>3. manifest' = None /\ req'[r].list = list /\ req'[r].todo = list
      BY <2>2, <3>2 DEF At, Idle
    <3>4. Fetching' = {r}
      BY <3>1, <3>2 DEF Fetching
    <3> QED
      BY <2>1, <3>2, <3>3, <3>4 DEF Undisturbed
  <2>6. Promised'
    <3> SUFFICES ASSUME manifest' \notin {None, Torn}
                 PROVE  ToSet(manifest') \subseteq Id /\ \A a \in Id : a \notin ToSet(manifest')
      BY <2>1 DEF Promised
    <3>1. manifest' = <<>>
      BY <2>2
    <3> QED
      BY <3>1, EmptyList
  <2> QED
    BY <1>1, <2>3, <2>4, <2>5, <2>6 DEF SyncInv
<1>4. CASE /\ \E kept \in [Id -> {"none", "part", "whole"}] : dirs' = kept
           /\ trusted' = FALSE /\ Interrupted(r) /\ UNCHANGED <<told, removed>>
  <2>1. Types'
    BY <1>1, <1>4, Endings DEF SyncInv, Types
  <2> QED
    BY <1>1, <1>4, <2>1, Doubted
<1>5. \/ /\ UNCHANGED <<dirs, manifest, history>> /\ Ends(r)
         /\ (told' = told \/ told' = [told EXCEPT ![r] = list])
      \/ /\ dirs' = Empty /\ ThenManifest(r, list, list, None)
         /\ trusted' = (Fetching = {}) /\ removed' = {}
      \/ /\ \E kept \in [Id -> {"none", "part", "whole"}] : dirs' = kept
         /\ trusted' = FALSE /\ Interrupted(r) /\ UNCHANGED <<told, removed>>
  BY DEF Decide, Answers, Continues
<1> QED
  BY <1>2, <1>3, <1>4, <1>5

\* A page is read; the last one decides.
LEMMA ReadPageFacts ==
  ASSUME SyncInv, NEW r \in Slot, ReadPage(r)
  PROVE  /\ At(r, "list") /\ UNCHANGED github
         /\ \/ \E list : IsList(list) /\ Decide(r, list)
            \/ /\ UNCHANGED <<disk, told, history>>
               /\ \E got, page, total :
                    /\ IsList(got) /\ page \in Nat \ {0}
                    /\ Goes(r, [req[r] EXCEPT !.page = page, !.total = total, !.got = got])
<1>1. At(r, "list") /\ UNCHANGED github
  BY DEF ReadPage
<1>2. IsList(req[r].got) /\ req[r].page \in Nat \ {0}
  BY <1>1 DEF SyncInv, Listing
<1>3. PICK got : got = req[r].got \o Page(req[r].page)
  OBVIOUS
<1>4. IsList(got) /\ IsList(Sorted(got))
  BY <1>2, <1>3, PageList, JoinedLists, SortedList DEF SyncInv
<1>5. PICK total : IF LastPage(Page(req[r].page), got, total)
                   THEN Decide(r, Sorted(got))
                   ELSE /\ Goes(r, [req[r] EXCEPT !.page = @ + 1, !.total = total, !.got = got])
                        /\ UNCHANGED <<disk, told, history>>
  BY <1>3 DEF ReadPage
<1>6. CASE LastPage(Page(req[r].page), got, total)
  BY <1>1, <1>4, <1>5, <1>6
<1>7. CASE ~LastPage(Page(req[r].page), got, total)
  <2>1. Goes(r, [req[r] EXCEPT !.page = @ + 1, !.total = total, !.got = got])
    BY <1>5, <1>7
  <2>2. PICK page \in Nat \ {0} : page = req[r].page + 1
    BY <1>2
  <2>3. Goes(r, [req[r] EXCEPT !.page = page, !.total = total, !.got = got])
    BY <2>1, <2>2
  <2> QED
    BY <1>1, <1>4, <1>5, <1>7, <2>3
<1> QED
  BY <1>6, <1>7

LEMMA ReadPageStep ==
  ASSUME SyncInv, NEW r \in Slot, ReadPage(r)
  PROVE  SyncInv'
<1>1. At(r, "list") /\ UNCHANGED github
  BY ReadPageFacts
<1>2. CASE \E list : IsList(list) /\ Decide(r, list)
  BY <1>1, <1>2, DecideStep
<1>3. CASE /\ UNCHANGED <<disk, told, history>>
           /\ \E got, page, total :
                /\ IsList(got) /\ page \in Nat \ {0}
                /\ Goes(r, [req[r] EXCEPT !.page = page, !.total = total, !.got = got])
  <2>1. PICK got, page, total :
          /\ IsList(got) /\ page \in Nat \ {0}
          /\ Goes(r, [req[r] EXCEPT !.page = page, !.total = total, !.got = got])
    BY <1>3
  <2>2. /\ DOMAIN req' = Slot /\ \A s \in Slot \ {r} : req'[s] = req[s]
        /\ req'[r] = [req[r] EXCEPT !.page = page, !.total = total, !.got = got]
    BY <2>1, Goings DEF SyncInv
  <2>3. req'[r].pc = "list"
    BY <1>1, <2>2 DEF At
  <2>4. Listing(r)'
    BY <1>1, <2>1, <2>2 DEF Listing, At
  <2>5. \A s \in Slot : Listing(s)' /\ (At(s, "fetch")' => req'[s] = req[s])
    BY <2>2, <2>3, <2>4 DEF SyncInv, Listing, At
  <2> QED
    BY <1>1, <1>3, <2>2, <2>5, QuietStep DEF SyncInv, Types, github, disk
<1> QED
  BY <1>2, <1>3, ReadPageFacts

-----------------------------------------------------------------------------
(***************************************************************************)
(* The invariant and what follows from it.                                 *)
(***************************************************************************)
LEMMA SyncInit == Init => SyncInv
<1> SUFFICES ASSUME Init PROVE SyncInv
  OBVIOUS
<1>1. Types
  BY SyncAssumption DEF Init, Types, Empty
<1>2. ASSUME NEW s \in Slot PROVE ~At(s, "list") /\ ~At(s, "fetch")
  BY DEF Init, At, Idle
<1>3. Promised /\ dirs = Empty
  BY DEF Init, Promised
<1> QED
  BY <1>1, <1>2, <1>3 DEF SyncInv, Listing, Under, Undisturbed

LEMMA SyncNext == SyncInv /\ [Next]_vars => SyncInv'
<1> SUFFICES ASSUME SyncInv, [Next]_vars PROVE SyncInv'
  OBVIOUS
<1>1. CASE UNCHANGED vars
  <2>1. UNCHANGED <<remote, made, dirs, manifest, excluded, req, told, history>>
    BY <1>1 DEF vars, github, disk
  <2>2. \A s \in Slot : Listing(s)'
    BY <2>1 DEF SyncInv, Listing, At
  <2> QED
    BY <2>1, <2>2, QuietStep DEF SyncInv, Types
<1> QED
  BY <1>1, ArriveStep, ReadRunStep, ReadPageStep, ExtractStep, ExtractStopsStep, CallFailsStep,
     GitHubStep, CommandStep DEF Next

\* Who downloads undisturbed is alone, and the directory is what was downloaded.
THEOREM SyncInductive == Spec => []SyncInv
  BY SyncInit, SyncNext, PTL DEF Spec

\* A manifest that can be read names what is in the directory in full, after
\* crashes and failed downloads too, unless synchronisations overlapped or a
\* removal was interrupted (_manifest_is_current, sync_run_artifacts_to_workspace);
\* and git ignores the artifacts (_ensure_gpt_artifacts_local_exclude).
THEOREM ManifestsAreTrue == Spec => []ManifestIsTrue
<1>1. SyncInv => ManifestIsTrue
  BY DEF SyncInv, Promised, InFull, ManifestIsTrue
<1> QED
  BY <1>1, SyncInductive, PTL

\* A response, whether it downloaded or skipped, names what is there in full.
THEOREM ResponsesAreWhole == Spec => ResponseIsWhole
<1>1. ASSUME SyncInv, [Next]_vars, NEW r \in Slot, Responds(r), trusted',
             NEW a \in ToSet(told'[r])
      PROVE  dirs'[a] = "whole" \/ (At(r, "fetch") /\ a \in removed')
  <2>1. told' # told /\ DOMAIN told = Slot /\ told'[r] # None /\ told[r] # told'[r]
    BY <1>1 DEF Responds, SyncInv, Types
  <2>2. PICK s \in Slot : ReadPage(s) \/ Extract(s) \/ Arrive(s)
    BY <1>1, <2>1 DEF Next, vars, ReadRun, ExtractStops, CallFails, Rerun, Upload, Delete,
                      CommandRemoves
  <2>3. CASE Arrive(s)
    BY <2>1, <2>3 DEF Arrive
  <2>4. CASE Extract(s)
    <3>1. /\ At(s, "fetch") /\ trusted /\ Tail(req[s].todo) = <<>>
          /\ told' = [told EXCEPT ![s] = req[s].list]
      BY <1>1, <2>1, <2>4, ExtractFacts
    <3>2. s = r /\ a \in ToSet(req[r].list)
      BY <1>1, <2>1, <3>1
    <3>3. a \in Id /\ InFull(a)'
      BY <1>1, <2>4, <3>1, <3>2, ExtractAdds, EmptyList
    <3> QED
      BY <3>1, <3>2, <3>3 DEF InFull
  <2>5. CASE ReadPage(s)
    <3>1. PICK list : IsList(list) /\ Decide(s, list)
      BY <1>1, <2>1, <2>5, ReadPageFacts
    <3>2. CASE /\ ~Unreadable /\ Current(list)
               /\ Answers(s, list) /\ UNCHANGED <<dirs, manifest, history>>
      <4>1. s = r /\ told'[r] = list
        BY <2>1, <3>2 DEF Answers
      <4>2. manifest = list /\ list # None /\ list # Torn /\ dirs[a] # "none" /\ trusted
        BY <1>1, <2>1, <3>2, <4>1 DEF Current, Unreadable, history
      <4>3. InFull(a)
        BY <1>1, <4>1, <4>2 DEF SyncInv, Promised
      <4> QED
        BY <3>2, <4>2, <4>3 DEF InFull
    <3>3. CASE ThenManifest(s, list, list, None)
      <4>1. list = <<>> /\ told' = [told EXCEPT ![s] = list]
        BY <2>1, <3>3 DEF ThenManifest, Answers, Fetches
      <4>2. told'[r] = <<>>
        BY <2>1, <4>1
      <4> QED
        BY <1>1, <4>2, EmptyList
    <3> QED
      BY <2>1, <3>1, <3>2, <3>3 DEF Decide, Continues
  <2> QED
    BY <2>2, <2>3, <2>4, <2>5
<1>2. SyncInv /\ [Next]_vars =>
        [\A r \in Slot : Responds(r) /\ trusted' =>
           \A a \in ToSet(told'[r]) :
             dirs'[a] = "whole" \/ (At(r, "fetch") /\ a \in removed')]_vars
  BY <1>1
<1> QED
  BY <1>2, SyncInductive, PTL DEF Spec, ResponseIsWhole

-----------------------------------------------------------------------------
(***************************************************************************)
(* A list read in pages: the artifacts are ranked, the newest first.       *)
(***************************************************************************)
\* How many of the numbers are not below a: the place of a, the greatest first.
Rank(R, a) == Cardinality({b \in R : b >= a})

LEMMA Ranks ==
  ASSUME NEW R \in SUBSET Nat, IsFiniteSet(R)
  PROVE  /\ Cardinality(R) \in Nat
         /\ \A a \in R : Rank(R, a) \in 1..Cardinality(R)
         /\ \A a, c \in R : a < c => Rank(R, c) < Rank(R, a)
         /\ \A k \in 1..Cardinality(R) : \E a \in R : Rank(R, a) = k
<1> DEFINE n == Cardinality(R)
           From(a) == {b \in R : b >= a}
<1>1. n \in Nat /\ IsFiniteSet(1..n) /\ Cardinality(1..n) = n
  <2>1. n \in Nat
    BY FS_CardinalityType
  <2>2. 0 <= n /\ n \in Int /\ 1 \in Int
    BY <2>1
  <2>3. IsFiniteSet(1..n) /\ Cardinality(1..n) = IF 1 > n THEN 0 ELSE n - 1 + 1
    BY <2>2, FS_Interval
  <2> QED
    BY <2>1, <2>3
<1>2. ASSUME NEW a \in R
      PROVE  IsFiniteSet(From(a)) /\ Rank(R, a) = Cardinality(From(a)) /\ Rank(R, a) \in 1..n
  <2>1. From(a) \in SUBSET R /\ a \in From(a)
    OBVIOUS
  <2>2. IsFiniteSet(From(a)) /\ Cardinality(From(a)) <= n
    BY <2>1, FS_Subset
  <2>3. Cardinality(From(a)) \in Nat /\ Cardinality(From(a)) # 0
    BY <2>1, <2>2, FS_CardinalityType, FS_EmptySet
  <2> QED
    BY <1>1, <2>2, <2>3 DEF Rank
<1>3. ASSUME NEW a \in R, NEW c \in R, a < c PROVE Rank(R, c) < Rank(R, a)
  <2>1. From(c) \in SUBSET From(a) /\ a \in From(a) /\ a \notin From(c)
    <3>1. a \in Nat /\ c \in Nat /\ \A b \in R : b \in Nat
      OBVIOUS
    <3>2. \A b \in R : b >= c => b >= a
      BY <1>3, <3>1
    <3>3. a >= a /\ ~(a >= c)
      BY <1>3, <3>1
    <3> QED
      BY <3>2, <3>3
  <2>2. IsFiniteSet(From(a))
    BY <1>2
  <2>3. Cardinality(From(c)) <= Cardinality(From(a)) /\ Cardinality(From(c)) # Cardinality(From(a))
    BY <2>1, <2>2, FS_Subset
  <2>4. /\ Rank(R, a) = Cardinality(From(a)) /\ Rank(R, c) = Cardinality(From(c))
        /\ Rank(R, a) \in Nat /\ Rank(R, c) \in Nat
    BY <1>1, <1>2
  <2> HIDE DEF From
  <2> QED
    BY <2>3, <2>4
<1> HIDE DEF From
<1> DEFINE f == [a \in R |-> Rank(R, a)]
<1>4. f \in Injection(R, 1..n)
  <2>1. f \in [R -> 1..n]
    BY <1>2
  <2>2. ASSUME NEW a \in R, NEW c \in R, f[a] = f[c] PROVE a = c
    <3>1. Rank(R, a) = Rank(R, c) /\ Rank(R, a) \in 1..n /\ a \in Nat /\ c \in Nat
      BY <1>2, <2>2
    <3>2. ~(a < c) /\ ~(c < a)
      BY <1>3, <3>1
    <3> QED
      BY <3>1, <3>2
  <2> HIDE DEF n
  <2> QED
    BY <2>1, <2>2 DEF Injection, IsInjective
<1>5. f \in Surjection(R, 1..n)
  <2> HIDE DEF f
  <2> QED
    BY <1>1, <1>4, FS_Injection
<1>6. \A k \in 1..n : \E a \in R : Rank(R, a) = k
  BY <1>5 DEF Surjection
<1> QED
  BY <1>1, <1>2, <1>3, <1>6

\* Some numbers have a greatest one and a least one.
LEMMA Extremes ==
  ASSUME NEW R \in SUBSET Nat, IsFiniteSet(R), R # {}
  PROVE  /\ \E m \in R : \A a \in R : a <= m
         /\ \E m \in R : \A a \in R : m <= a
<1>1. Cardinality(R) \in Nat /\ Cardinality(R) # 0
  BY FS_CardinalityType, FS_EmptySet
<1>2. PICK m \in R : Rank(R, m) = 1
  BY <1>1, Ranks, 1 \in 1..Cardinality(R)
<1>3. ASSUME NEW a \in R PROVE a <= m
  <2>1. a \in Nat /\ m \in Nat /\ (m < a => Rank(R, a) < Rank(R, m)) /\ Rank(R, a) >= 1
    BY <1>1, Ranks
  <2> QED
    BY <1>1, <1>2, <2>1, Ranks
<1>4. PICK l \in R : Rank(R, l) = Cardinality(R)
  BY <1>1, Ranks, Cardinality(R) \in 1..Cardinality(R)
<1>5. ASSUME NEW a \in R PROVE l <= a
  <2>1. a \in Nat /\ l \in Nat /\ (a < l => Rank(R, l) < Rank(R, a))
        /\ Rank(R, a) \in 1..Cardinality(R)
    BY <1>1, Ranks
  <2> QED
    BY <1>1, <1>4, <2>1
<1> QED
  BY <1>3, <1>5

\* What is sorted is what was there.
LEMMA SortedSet ==
  ASSUME NEW q \in Seq(Nat)
  PROVE  ToSet(Sorted(q)) = ToSet(q)
<1> DEFINE n == Len(q)
           Below(a) == {i \in 1..n : q[i] < a}
           UpTo(a) == {i \in 1..n : q[i] <= a}
           Fits(a, k) == Cardinality(Below(a)) < k /\ Cardinality(UpTo(a)) >= k
<1>1. n \in Nat /\ DOMAIN q = 1..n /\ q \in [1..n -> Nat] /\ ToSet(q) = {q[i] : i \in 1..n}
  BY DEF ToSet
<1>2. IsFiniteSet(1..n) /\ Cardinality(1..n) = n
  <2>1. IsFiniteSet(1..n) /\ Cardinality(1..n) = IF 1 > n THEN 0 ELSE n - 1 + 1
    BY <1>1, FS_Interval
  <2> QED
    BY <1>1, <2>1
<1>3. ToSet(q) \in SUBSET Nat /\ IsFiniteSet(ToSet(q))
  <2>1. ToSet(q) \in SUBSET Nat
    BY <1>1
  <2>2. q \in Surjection(1..n, ToSet(q))
    BY <1>1 DEF Surjection
  <2> QED
    BY <1>2, <2>1, <2>2, FS_Surjection
<1>4. \A a : /\ IsFiniteSet(Below(a)) /\ Cardinality(Below(a)) \in Nat
             /\ IsFiniteSet(UpTo(a)) /\ Cardinality(UpTo(a)) \in Nat /\ Cardinality(UpTo(a)) <= n
  <2> TAKE a
  <2>1. Below(a) \in SUBSET (1..n) /\ UpTo(a) \in SUBSET (1..n)
    OBVIOUS
  <2>2. IsFiniteSet(Below(a)) /\ IsFiniteSet(UpTo(a)) /\ Cardinality(UpTo(a)) <= n
    BY <1>2, <2>1, FS_Subset
  <2> QED
    BY <2>2, FS_CardinalityType
<1> HIDE DEF Below, UpTo
<1>5. ASSUME NEW a \in Nat, NEW c \in Nat, c < a
      PROVE  Cardinality(UpTo(c)) <= Cardinality(Below(a))
  <2>1. UpTo(c) \in SUBSET Below(a)
    BY <1>1, <1>5 DEF Below, UpTo
  <2> QED
    BY <1>4, <2>1, FS_Subset
<1>6. Sorted(q) = [k \in 1..n |-> CHOOSE a \in ToSet(q) : Fits(a, k)]
  BY <1>1 DEF Sorted, Below, UpTo
<1>7. ASSUME NEW k \in 1..n PROVE \E a \in ToSet(q) : Fits(a, k)
  <2> DEFINE D == {a \in ToSet(q) : Cardinality(UpTo(a)) >= k}
  <2>1. D \in SUBSET Nat /\ D \in SUBSET ToSet(q) /\ IsFiniteSet(D)
    <3>1. D \in SUBSET ToSet(q)
      OBVIOUS
    <3> QED
      BY <1>3, <3>1, FS_Subset
  <2>2. D # {}
    <3>1. ToSet(q) # {}
      BY <1>1
    <3>2. PICK m \in ToSet(q) : \A a \in ToSet(q) : a <= m
      BY <1>3, <3>1, Extremes
    <3>3. UpTo(m) = 1..n
      BY <1>1, <3>2 DEF UpTo
    <3>4. Cardinality(UpTo(m)) >= k
      BY <1>1, <1>2, <3>3
    <3> QED
      BY <3>2, <3>4
  <2>3. PICK a \in D : \A c \in D : a <= c
    <3> HIDE DEF D
    <3> QED
      BY <2>1, <2>2, Extremes
  <2>4. a \in ToSet(q) /\ Cardinality(UpTo(a)) >= k /\ a \in Nat
    BY <2>1, <2>3
  <2>5. Cardinality(Below(a)) < k
    <3>1. CASE Below(a) = {}
      BY <3>1, FS_EmptySet
    <3>2. CASE Below(a) # {}
      <4> DEFINE E == {c \in ToSet(q) : c < a}
      <4>1. E \in SUBSET Nat /\ IsFiniteSet(E) /\ E # {}
        <5>1. E \in SUBSET ToSet(q)
          OBVIOUS
        <5>2. E # {}
          BY <1>1, <3>2 DEF Below
        <5> QED
          BY <1>3, <5>1, <5>2, FS_Subset
      <4>2. PICK c \in E : \A e \in E : e <= c
        <5> HIDE DEF E
        <5> QED
          BY <4>1, Extremes
      <4>3. c \in ToSet(q) /\ c < a /\ c \in Nat
        BY <4>1, <4>2
      <4>4. ~(Cardinality(UpTo(c)) >= k)
        BY <2>3, <2>4, <4>3
      <4>5. Below(a) \in SUBSET UpTo(c)
        BY <1>1, <4>2 DEF Below, UpTo
      <4>6. Cardinality(Below(a)) <= Cardinality(UpTo(c))
        BY <1>4, <4>5, FS_Subset
      <4>7. Cardinality(Below(a)) \in Nat /\ Cardinality(UpTo(c)) \in Nat /\ k \in Nat
        BY <1>1, <1>4
      <4> QED
        BY <4>4, <4>6, <4>7
    <3> QED
      BY <3>1, <3>2
  <2> QED
    BY <2>4, <2>5
<1>8. \A k \in 1..n : Sorted(q)[k] \in ToSet(q) /\ Fits(Sorted(q)[k], k)
  <2> HIDE DEF Fits
  <2> QED
    BY <1>6, <1>7
<1>9. DOMAIN Sorted(q) = 1..n
  BY <1>6
<1>10. ToSet(Sorted(q)) = {Sorted(q)[k] : k \in 1..n}
  BY <1>9 DEF ToSet
<1>11. ASSUME NEW a \in ToSet(q) PROVE a \in ToSet(Sorted(q))
  <2>1. PICK j \in 1..n : q[j] = a /\ a \in Nat
    BY <1>1
  <2>2. PICK k \in Nat : k = Cardinality(Below(a)) + 1
    BY <1>4
  <2>3. Cardinality(UpTo(a)) >= k
    <3>1. Below(a) \cup {j} \in SUBSET UpTo(a) /\ j \notin Below(a)
      BY <1>1, <2>1 DEF Below, UpTo
    <3>2. Cardinality(Below(a) \cup {j}) = k
      BY <1>4, <2>2, <3>1, FS_AddElement
    <3>3. Cardinality(Below(a) \cup {j}) <= Cardinality(UpTo(a))
      BY <1>4, <3>1, FS_Subset
    <3> QED
      BY <1>4, <2>2, <3>2, <3>3
  <2>4. k \in 1..n
    <3> QED
      BY <1>1, <1>4, <2>2, <2>3
  <2>5. PICK c \in ToSet(q) : c = Sorted(q)[k] /\ Fits(c, k)
    BY <1>8, <2>4
  <2>6. c \in Nat /\ (c < a => Cardinality(UpTo(c)) <= Cardinality(Below(a)))
        /\ (a < c => Cardinality(UpTo(a)) <= Cardinality(Below(c)))
    BY <1>3, <1>5, <2>1
  <2>7. /\ Cardinality(Below(c)) < k /\ Cardinality(UpTo(c)) >= k
        /\ Cardinality(Below(c)) \in Nat /\ Cardinality(UpTo(c)) \in Nat
        /\ Cardinality(Below(a)) \in Nat /\ Cardinality(UpTo(a)) \in Nat
    BY <1>4, <2>5
  <2>8. c = a
    <3> QED
      BY <2>1, <2>2, <2>3, <2>6, <2>7
  <2> QED
    BY <1>10, <2>4, <2>5, <2>8
<1> QED
  BY <1>8, <1>10, <1>11

\* The artifacts are a finite number of ids.
Numbered == remote \in SUBSET Nat /\ IsFiniteSet(remote)

\* The newest artifacts, so many of them.
Top(j) == {a \in remote : Rank(remote, a) <= j}

LEMMA NewestFacts ==
  ASSUME Numbered
  PROVE  /\ Cardinality(remote) \in Nat /\ Newest \in Seq(remote)
         /\ Len(Newest) = Cardinality(remote)
         /\ \A k \in 1..Cardinality(remote) : Rank(remote, Newest[k]) = k
<1>1. PICK n \in Nat : n = Cardinality(remote)
  BY FS_CardinalityType DEF Numbered
<1>2. Newest = [k \in 1..n |-> CHOOSE a \in remote : Rank(remote, a) = k]
  BY <1>1 DEF Newest, Rank
<1>3. \A k \in 1..n : \E a \in remote : Rank(remote, a) = k
  BY <1>1, Ranks DEF Numbered
<1>4. \A k \in 1..n : Newest[k] \in remote /\ Rank(remote, Newest[k]) = k
  BY <1>2, <1>3
<1>5. Newest \in [1..n -> remote]
  BY <1>2, <1>4
<1> QED
  BY <1>1, <1>4, <1>5

\* The artifact at a place is the only one of its rank.
LEMMA AtItsRank ==
  ASSUME Numbered, NEW a \in remote
  PROVE  /\ Rank(remote, a) \in 1..Cardinality(remote)
         /\ Newest[Rank(remote, a)] = a
<1>1. Rank(remote, a) \in 1..Cardinality(remote)
  BY Ranks DEF Numbered
<1>2. PICK c \in remote : c = Newest[Rank(remote, a)] /\ Rank(remote, c) = Rank(remote, a)
  BY <1>1, NewestFacts
<1>3. a \in Nat /\ c \in Nat
  BY DEF Numbered
<1>4. (a < c => Rank(remote, c) < Rank(remote, a)) /\ (c < a => Rank(remote, a) < Rank(remote, c))
  BY Ranks DEF Numbered
<1>5. Rank(remote, a) \in Nat
  BY <1>1
<1> QED
  BY <1>1, <1>2, <1>3, <1>4, <1>5

LEMMA TopFacts ==
  ASSUME Numbered, NEW j \in Nat, j <= Cardinality(remote)
  PROVE  Cardinality(Top(j)) = j
<1> DEFINE n == Cardinality(remote)
           f == [k \in 1..j |-> Newest[k]]
<1>1. /\ n \in Nat /\ Newest \in Seq(remote) /\ Len(Newest) = n
      /\ \A k \in 1..n : Rank(remote, Newest[k]) = k
  BY NewestFacts
<1>2. \A k \in 1..j : k \in 1..n /\ Newest[k] \in remote /\ Rank(remote, Newest[k]) = k
  BY <1>1
<1>3. f \in [1..j -> Top(j)]
  BY <1>2 DEF Top
<1>4. \A a \in Top(j) : Rank(remote, a) \in 1..j /\ f[Rank(remote, a)] = a
  BY AtItsRank DEF Top
<1>5. f \in Surjection(1..j, Top(j))
  <2> HIDE DEF f
  <2> QED
    BY <1>3, <1>4 DEF Surjection
<1>6. f \in Injection(1..j, Top(j))
  <2>1. ASSUME NEW k \in 1..j, NEW i \in 1..j, f[k] = f[i] PROVE k = i
    BY <1>2, <2>1
  <2> HIDE DEF f
  <2> QED
    BY <1>3, <2>1 DEF Injection, IsInjective
<1>7. IsFiniteSet(1..j) /\ Cardinality(1..j) = j
  <2>1. IsFiniteSet(1..j) /\ Cardinality(1..j) = IF 1 > j THEN 0 ELSE j - 1 + 1
    BY FS_Interval
  <2> QED
    BY <2>1
<1> HIDE DEF f
<1> QED
  BY <1>5, <1>6, <1>7, FS_Surjection

LEMMA SubSeqFacts ==
  ASSUME NEW S, NEW q \in Seq(S), NEW a \in Nat, NEW b \in Nat, b <= Len(q)
  PROVE  /\ SubSeq(q, a + 1, b) \in Seq(S)
         /\ Len(SubSeq(q, a + 1, b)) = IF a < b THEN b - a ELSE 0
         /\ ToSet(SubSeq(q, a + 1, b)) = {q[k] : k \in (a + 1)..b}
<1> DEFINE s == SubSeq(q, a + 1, b)
           l == IF a < b THEN b - a ELSE 0
<1>1. s \in Seq(S)
  BY PartOfList
<1>2. Len(s) = l /\ l \in Nat
  BY <1>1
<1>3. \A i \in 1..l : s[i] = q[a + i]
  BY <1>1
<1>4. ToSet(s) = {s[i] : i \in 1..l}
  <2>1. DOMAIN s = 1..Len(s)
    BY <1>1
  <2> HIDE DEF s, l
  <2> QED
    BY <1>2, <2>1 DEF ToSet
<1>5. \A i \in 1..l : a + i \in (a + 1)..b
  OBVIOUS
<1>6. \A k \in (a + 1)..b : k - a \in 1..l /\ a + (k - a) = k
  OBVIOUS
<1>7. {s[i] : i \in 1..l} = {q[k] : k \in (a + 1)..b}
  <2> HIDE DEF s, l
  <2>1. ASSUME NEW i \in 1..l PROVE s[i] \in {q[k] : k \in (a + 1)..b}
    BY <1>3, <1>5
  <2>2. ASSUME NEW k \in (a + 1)..b PROVE q[k] \in {s[i] : i \in 1..l}
    BY <1>3, <1>6
  <2> QED
    BY <2>1, <2>2
<1> QED
  BY <1>1, <1>2, <1>4, <1>7

\* The artifacts of a page are those of its ranks.
LEMMA PageFacts ==
  ASSUME Numbered, NEW p \in Nat \ {0}, NEW m, m = (p - 1) * PageSize
  PROVE  /\ m \in Nat /\ Page(p) \in Seq(remote)
         /\ Len(Page(p)) = IF m + PageSize <= Cardinality(remote) THEN PageSize
                           ELSE IF m < Cardinality(remote) THEN Cardinality(remote) - m ELSE 0
         /\ ToSet(Page(p)) = Top(m + PageSize) \ Top(m)
<1>0. PICK n : n = Cardinality(remote)
  OBVIOUS
<1>1. PICK e \in Nat : e = p * PageSize /\ m \in Nat /\ e = m + PageSize /\ PageSize \in Nat \ {0}
  <2>1. PageSize \in Nat \ {0} /\ p - 1 \in Nat
    BY SyncAssumption
  <2>2. p * PageSize = (p - 1) * PageSize + PageSize
    BY <2>1
  <2>3. (p - 1) * PageSize \in Nat /\ p * PageSize \in Nat
    BY <2>1
  <2> QED
    BY <2>1, <2>2, <2>3
<1>2. /\ n \in Nat /\ Newest \in Seq(remote) /\ Len(Newest) = n
      /\ \A k \in 1..n : Rank(remote, Newest[k]) = k
  BY <1>0, NewestFacts
<1>3. m \in Nat /\ e \in Nat /\ e = m + PageSize /\ PageSize \in Nat /\ n \in Nat
  BY <1>1, <1>2
<1>4. PICK b \in Nat : b = Min({e, n}) /\ b <= e /\ b <= n /\ (b = e \/ b = n)
  <2>1. CASE e <= n
    <3>1. Min({e, n}) = e
      BY <1>3, <2>1 DEF Min
    <3> QED
      BY <1>3, <2>1, <3>1
  <2>2. CASE n < e
    <3>1. Min({e, n}) = n
      BY <1>3, <2>2 DEF Min
    <3> QED
      BY <1>3, <2>2, <3>1
  <2> QED
    BY <1>3, <2>1, <2>2
<1>5. b \in Nat /\ b <= e /\ b <= n /\ (b = e \/ b = n)
  BY <1>4
<1>6. Page(p) = SubSeq(Newest, m + 1, b)
  BY <1>1, <1>2, <1>4 DEF Page
<1>7. /\ Page(p) \in Seq(remote) /\ Len(Page(p)) = IF m < b THEN b - m ELSE 0
      /\ ToSet(Page(p)) = {Newest[k] : k \in (m + 1)..b}
  <2>1. b <= Len(Newest)
    BY <1>2, <1>5
  <2>2. Newest \in Seq(remote) /\ m \in Nat /\ b \in Nat
    BY <1>2, <1>3, <1>5
  <2>3. /\ SubSeq(Newest, m + 1, b) \in Seq(remote)
        /\ Len(SubSeq(Newest, m + 1, b)) = IF m < b THEN b - m ELSE 0
        /\ ToSet(SubSeq(Newest, m + 1, b)) = {Newest[k] : k \in (m + 1)..b}
    BY ONLY <2>1, <2>2, SubSeqFacts
  <2> QED
    BY <1>6, <2>3
<1>8. {Newest[k] : k \in (m + 1)..b} = Top(m + PageSize) \ Top(m)
  <2>1. ASSUME NEW k \in (m + 1)..b PROVE Newest[k] \in Top(m + PageSize) \ Top(m)
    <3>1. k \in 1..n /\ k <= e /\ ~(k <= m)
      BY <1>3, <1>5
    <3>2. Newest[k] \in remote /\ Rank(remote, Newest[k]) = k
      BY <1>2, <3>1
    <3> QED
      BY <1>3, <3>1, <3>2 DEF Top
  <2>2. ASSUME NEW a \in Top(m + PageSize) \ Top(m) PROVE a \in {Newest[k] : k \in (m + 1)..b}
    <3>1. a \in remote /\ Rank(remote, a) <= e /\ ~(Rank(remote, a) <= m)
      BY <1>3 DEF Top
    <3>2. Rank(remote, a) \in 1..n /\ Newest[Rank(remote, a)] = a
      BY <1>0, <3>1, AtItsRank
    <3>3. Rank(remote, a) \in (m + 1)..b
      BY <1>3, <1>5, <3>1, <3>2
    <3> QED
      BY <3>2, <3>3
  <2> QED
    BY <2>1, <2>2
<1>9. Len(Page(p)) = IF m + PageSize <= n THEN PageSize ELSE IF m < n THEN n - m ELSE 0
  BY <1>1, <1>3, <1>5, <1>7
<1> QED
  BY <1>0, <1>3, <1>7, <1>8, <1>9

\* As long as none of them was deleted, the artifacts of the list are the newest.
Newer(q) ==
  ToSet(q) \subseteq remote =>
    /\ \A y \in ToSet(q), z \in remote : y <= z => z \in ToSet(q)
    /\ Cardinality(ToSet(q)) = Len(q)

LEMMA NewerIsTop ==
  ASSUME Numbered, NEW q \in Seq(Nat), Newer(q), ToSet(q) \subseteq remote
  PROVE  Len(q) <= Cardinality(remote) /\ ToSet(q) = Top(Len(q))
<1>0. PICK T : T = ToSet(q)
  OBVIOUS
<1>1. PICK l \in Nat : T = ToSet(q) /\ l = Len(q)
  BY <1>0
<1>2. /\ T \in SUBSET remote /\ IsFiniteSet(T) /\ Cardinality(T) = l
      /\ l <= Cardinality(remote) /\ \A y \in T, z \in remote : y <= z => z \in T
  <2>1. T \in SUBSET remote
    BY <1>1
  <2>2. IsFiniteSet(T) /\ Cardinality(T) <= Cardinality(remote)
    BY <2>1, FS_Subset DEF Numbered
  <2> QED
    BY <1>1, <2>1, <2>2 DEF Newer
<1>3. \A a \in remote : a \in Nat /\ Rank(remote, a) \in Nat
  <2>1. \A a \in remote : Rank(remote, a) \in 1..Cardinality(remote)
    BY Ranks DEF Numbered
  <2> QED
    BY <2>1 DEF Numbered
<1>4. ASSUME NEW a \in T PROVE a \in Top(l)
  <2> DEFINE F == {b \in remote : b >= a}
  <2>1. a \in remote /\ a \in Nat
    BY <1>2, <1>3
  <2>2. F \in SUBSET T
    <3>1. ASSUME NEW b \in remote, b >= a PROVE b \in T
      <4>1. a <= b
        BY <1>3, <2>1, <3>1
      <4> QED
        BY <1>2, <4>1
    <3> QED
      BY <3>1
  <2>3. Cardinality(F) <= l
    <3> HIDE DEF F
    <3> QED
      BY <1>2, <2>2, FS_Subset
  <2> QED
    BY <2>1, <2>3 DEF Top, Rank
<1>5. ASSUME NEW a \in remote, a \notin T PROVE a \notin Top(l)
  <2> DEFINE F == {b \in remote : b >= a}
  <2>1. T \cup {a} \in SUBSET F
    <3>1. ASSUME NEW b \in T PROVE b \in F
      <4>1. b \in remote /\ b \in Nat /\ a \in Nat
        BY <1>2, <1>3
      <4>2. ~(b <= a)
        BY <1>2, <1>5
      <4> QED
        BY <4>1, <4>2
    <3>2. a >= a
      BY <1>3
    <3> QED
      BY <3>1, <3>2
  <2>2. IsFiniteSet(F)
    <3>1. F \in SUBSET remote
      OBVIOUS
    <3> QED
      BY <3>1, FS_Subset DEF Numbered
  <2>3. Cardinality(T \cup {a}) = l + 1
    BY <1>2, <1>5, FS_AddElement
  <2>4. l + 1 <= Cardinality(F)
    <3> HIDE DEF F
    <3> QED
      BY <2>1, <2>2, <2>3, FS_Subset
  <2>5. Cardinality(F) = Rank(remote, a) /\ Rank(remote, a) \in Nat
    BY <1>3 DEF Rank
  <2>6. ~(Rank(remote, a) <= l)
    <3> HIDE DEF F
    <3> QED
      BY <2>4, <2>5
  <2> QED
    BY <2>6 DEF Top
<1>6. T = Top(l)
  BY <1>2, <1>4, <1>5 DEF Top
<1> QED
  BY <1>1, <1>2, <1>6

LEMMA TopIsNewer ==
  ASSUME Numbered, NEW j \in Nat
  PROVE  /\ \A y \in Top(j), z \in remote : y <= z => z \in Top(j)
         /\ \A i \in Nat : i <= j => Top(i) \subseteq Top(j)
         /\ Cardinality(remote) <= j => Top(j) = remote
<1>1. /\ Cardinality(remote) \in Nat
      /\ \A a \in remote : a \in Nat /\ Rank(remote, a) \in 1..Cardinality(remote)
      /\ \A a, c \in remote : a < c => Rank(remote, c) < Rank(remote, a)
  BY Ranks DEF Numbered
<1>2. ASSUME NEW y \in Top(j), NEW z \in remote, y <= z PROVE z \in Top(j)
  <2>1. y \in remote /\ Rank(remote, y) <= j
    BY DEF Top
  <2>2. y = z \/ y < z
    BY <1>1, <1>2, <2>1
  <2>3. Rank(remote, z) <= j
    BY <1>1, <2>1, <2>2
  <2> QED
    BY <2>3 DEF Top
<1>3. ASSUME NEW i \in Nat, i <= j, NEW a \in Top(i) PROVE a \in Top(j)
  BY <1>1, <1>3 DEF Top
<1>4. ASSUME Cardinality(remote) <= j, NEW a \in remote PROVE a \in Top(j)
  BY <1>1, <1>4 DEF Top
<1>5. Top(j) \subseteq remote
  BY DEF Top
<1> QED
  BY <1>2, <1>3, <1>4, <1>5

LEMMA JoinedFacts ==
  ASSUME NEW S, NEW p \in Seq(S), NEW q \in Seq(S)
  PROVE  /\ p \o q \in Seq(S) /\ Len(p \o q) = Len(p) + Len(q)
         /\ ToSet(p \o q) = ToSet(p) \cup ToSet(q)
<1>1. PICK m \in Nat, n \in Nat : m = Len(p) /\ n = Len(q)
  OBVIOUS
<1>2. p \o q \in Seq(S) /\ Len(p \o q) = m + n
  BY <1>1
<1>3. /\ \A i \in 1..m : (p \o q)[i] = p[i]
      /\ \A i \in 1..n : (p \o q)[m + i] = q[i]
  BY <1>1
<1>4. DOMAIN p = 1..m /\ DOMAIN q = 1..n /\ DOMAIN (p \o q) = 1..(m + n)
  BY <1>1, <1>2
<1>5. /\ \A i \in 1..m : i \in 1..(m + n)
      /\ \A i \in 1..n : m + i \in 1..(m + n)
      /\ \A i \in 1..(m + n) : i \in 1..m \/ (i - m \in 1..n /\ m + (i - m) = i)
  OBVIOUS
<1>6. ToSet(p \o q) = {(p \o q)[i] : i \in 1..(m + n)}
  BY <1>4 DEF ToSet
<1>7. ToSet(p) = {p[i] : i \in 1..m} /\ ToSet(q) = {q[i] : i \in 1..n}
  BY <1>4 DEF ToSet
<1>8. ASSUME NEW i \in 1..(m + n) PROVE (p \o q)[i] \in ToSet(p) \cup ToSet(q)
  BY <1>3, <1>5, <1>7
<1>9. \A i \in 1..m : p[i] \in ToSet(p \o q)
  BY <1>3, <1>5, <1>6
<1>10. \A i \in 1..n : q[i] \in ToSet(p \o q)
  BY <1>3, <1>5, <1>6
<1>11. ToSet(p \o q) = ToSet(p) \cup ToSet(q)
  BY <1>6, <1>7, <1>8, <1>9, <1>10
<1> QED
  BY <1>1, <1>2, <1>11

\* With another page the list still has the newest; the last page makes it complete.
LEMMA NextPage ==
  ASSUME Numbered, NEW p \in Nat \ {0}, NEW got \in Seq(Nat), Newer(got),
         Len(got) = (p - 1) * PageSize, NEW all, all = got \o Page(p)
  PROVE  /\ all \in Seq(Nat) /\ ToSet(all) = ToSet(got) \cup ToSet(Page(p))
         /\ Len(all) = Len(got) + Len(Page(p)) /\ Page(p) \in Seq(remote)
         /\ Newer(all)
         /\ ToSet(all) \subseteq remote =>
              \/ ToSet(all) = remote
              \/ /\ Len(Page(p)) = PageSize /\ Len(all) < Cardinality(remote)
<1>1. PICK m \in Nat : m = Len(got) /\ m = (p - 1) * PageSize
  OBVIOUS
<1>2. PICK n \in Nat : n = Cardinality(remote)
  BY NewestFacts
<1>3. PICK l \in Nat : l = Len(Page(p)) /\ Page(p) \in Seq(remote)
  BY PageFacts
<1>4. /\ l = IF m + PageSize <= n THEN PageSize ELSE IF m < n THEN n - m ELSE 0
      /\ ToSet(Page(p)) = Top(m + PageSize) \ Top(m)
  BY <1>1, <1>2, <1>3, PageFacts
<1>5. Page(p) \in Seq(Nat)
  <2>1. remote \subseteq Nat
    BY DEF Numbered
  <2>2. \A T, U : T \subseteq U => \A f \in Seq(T) : f \in Seq(U)
    OBVIOUS
  <2> QED
    BY <1>3, <2>1, <2>2
<1>6. all \in Seq(Nat) /\ ToSet(all) = ToSet(got) \cup ToSet(Page(p)) /\ Len(all) = m + l
  <2>1. got \o Page(p) \in Seq(Nat) /\ Len(got \o Page(p)) = Len(got) + Len(Page(p))
        /\ ToSet(got \o Page(p)) = ToSet(got) \cup ToSet(Page(p))
    BY <1>5, JoinedFacts
  <2> QED
    BY <1>1, <1>3, <2>1
<1>7. ASSUME ToSet(all) \subseteq remote
      PROVE  /\ Newer(all)
             /\ ToSet(all) = remote \/ (l = PageSize /\ Len(all) < n)
  <2>1. PageSize \in Nat /\ PageSize # 0
    BY SyncAssumption
  <2>2. m <= n /\ ToSet(got) = Top(m)
    <3>1. ToSet(got) \subseteq remote
      BY <1>6, <1>7
    <3> QED
      BY <1>1, <1>2, <3>1, NewerIsTop
  <2>3. PICK j \in Nat : j = m + PageSize
    BY <2>1
  <2>4. Top(m) \subseteq Top(j)
    <3>1. m <= j
      BY <2>1, <2>3
    <3> QED
      BY <3>1, TopIsNewer
  <2>5. ToSet(all) = Top(j)
    BY <1>4, <1>6, <2>2, <2>3, <2>4
  <2>6. \A y \in Top(j), z \in remote : y <= z => z \in Top(j)
    BY TopIsNewer
  <2>7. CASE j <= n
    <3>1. l = PageSize /\ Len(all) = j
      BY <1>4, <1>6, <2>3, <2>7
    <3>2. Cardinality(Top(j)) = j
      BY <1>2, <2>7, TopFacts
    <3>3. Newer(all)
      BY <2>5, <2>6, <3>1, <3>2 DEF Newer
    <3>4. CASE j = n
      BY <1>2, <2>5, <3>3, <3>4, TopIsNewer
    <3>5. CASE j < n
      BY <3>1, <3>3, <3>5
    <3> QED
      BY <2>7, <3>4, <3>5
  <2>8. CASE n < j
    <3>1. Len(all) = n
      <4>1. l = IF m < n THEN n - m ELSE 0
        BY <1>4, <2>3, <2>8
      <4> QED
        BY <1>6, <2>2, <4>1
    <3>2. Top(j) = remote
      BY <1>2, <2>8, TopIsNewer
    <3> QED
      BY <1>2, <2>5, <2>6, <3>1, <3>2 DEF Newer
  <2> QED
    BY <2>7, <2>8
<1>8. Newer(all)
  BY <1>7 DEF Newer
<1> QED
  BY <1>1, <1>2, <1>3, <1>6, <1>7, <1>8

-----------------------------------------------------------------------------
(***************************************************************************)
(* What a list is while the artifacts change.                              *)
(***************************************************************************)
\* The ids that artifacts have been given.
Given == 1..made

\* What a set has beyond a list is newer than the whole list.
Older(L, S) == \A z \in S \ L, y \in L : y < z

\* A list that the run once had: what is added to it is newer, and who lists the
\* artifacts now began after that, or saw it.
Fresh(L) ==
  /\ L \subseteq Given /\ Older(L, remote)
  /\ \A r \in Slot : Follows(r) => L \in req[r].seen \/ \A S \in req[r].seen : Older(L, S)

\* The artifacts when the first page was read: its newest is in the list.
Began(R, got, total) ==
  /\ R \subseteq Given /\ remote \subseteq R /\ ToSet(got) \subseteq R
  /\ total = Cardinality(R)
  /\ \E y \in ToSet(got) : \A z \in R : z <= y

ListFields == {"pc", "page", "total", "got", "seen", "rerun"}
ListRecord(r) == At(r, "list") => DOMAIN req[r] = ListFields

Paged(r) ==
  Follows(r) =>
    /\ completed /\ remote \in req[r].seen
    /\ req[r].page \in Nat \ {0} /\ req[r].got \in Seq(Nat)
    /\ ToSet(req[r].got) \subseteq Given
    /\ Len(req[r].got) = (req[r].page - 1) * PageSize
    /\ req[r].page # 1 => \E R \in req[r].seen : Began(R, req[r].got, req[r].total)
    /\ Newer(req[r].got)

\* A list was the run's at one moment, or one of its artifacts is gone for good.
Held(L, todo, seen) ==
  /\ ToSet(todo) \subseteq Given
  /\ \/ L \in seen /\ Fresh(L)
     \/ \E a \in ToSet(todo) : a \notin remote

Decided(r) ==
  At(r, "fetch") /\ ~req[r].rerun =>
    Held(ToSet(req[r].list), req[r].todo, req[r].seen)

Recorded == steady /\ manifest \notin {None, Torn} => Fresh(ToSet(manifest))

PagesInv ==
  /\ made \in Nat /\ remote \subseteq Given
  /\ \A r \in Slot : ListRecord(r) /\ Paged(r) /\ Decided(r)
  /\ Recorded


-----------------------------------------------------------------------------
(***************************************************************************)
(* The steps again: a fresh list stays fresh, one who waits has what it had. *)
(***************************************************************************)
\* New artifacts have new ids, and who lists sees the changes.
Onward ==
  /\ made' \in Nat /\ made <= made' /\ remote' \subseteq 1..made'
  /\ \A a \in remote' \ remote : made < a
  /\ \A r \in Slot : Follows(r)' =>
       \/ /\ Follows(r) /\ req[r].seen \subseteq req'[r].seen
          /\ req'[r].seen \subseteq req[r].seen \cup {remote'}
       \/ req'[r].seen = {remote'}

LEMMA FreshStays ==
  ASSUME PagesInv, Onward, NEW L, Fresh(L)
  PROVE  Fresh(L)'
<1>1. made \in Nat /\ made' \in Nat /\ made <= made' /\ L \subseteq 1..made
  BY DEF PagesInv, Onward, Fresh, Given
<1>2. L \subseteq 1..made'
  BY <1>1
<1>3. \A z \in remote' \ L, y \in L : y < z
  <2> SUFFICES ASSUME NEW z \in remote' \ L, NEW y \in L PROVE y < z
    OBVIOUS
  <2>1. CASE z \in remote
    BY <2>1 DEF Fresh, Older
  <2>2. CASE z \notin remote
    <3>1. made < z /\ z \in 1..made' /\ y \in 1..made
      BY <1>1, <2>2 DEF Onward
    <3> QED
      BY <1>1, <3>1
  <2> QED
    BY <2>1, <2>2
<1>4. Older(L, remote')
  BY <1>3 DEF Older
<1>5. ASSUME NEW r \in Slot, Follows(r)'
      PROVE  L \in req'[r].seen \/ \A S \in req'[r].seen : Older(L, S)
  <2>1. CASE /\ Follows(r) /\ req[r].seen \subseteq req'[r].seen
             /\ req'[r].seen \subseteq req[r].seen \cup {remote'}
    <3>1. L \in req[r].seen \/ \A S \in req[r].seen : Older(L, S)
      BY <2>1 DEF Fresh
    <3> QED
      BY <1>4, <2>1, <3>1
  <2>2. CASE req'[r].seen = {remote'}
    BY <1>4, <2>2
  <2> QED
    BY <1>5, <2>1, <2>2 DEF Onward
<1>6. (L \subseteq Given)' /\ Older(L, remote)'
  BY <1>2, <1>4 DEF Given, Older
<1>7. (\A r \in Slot : Follows(r) => L \in req[r].seen \/ \A S \in req[r].seen : Older(L, S))'
  BY <1>5 DEF Older
<1> QED
  BY <1>6, <1>7 DEF Fresh

LEMMA HeldStays ==
  ASSUME PagesInv, Onward, NEW L, NEW todo, NEW seen, Held(L, todo, seen)
  PROVE  Held(L, todo, seen)'
<1>1. made \in Nat /\ made' \in Nat /\ made <= made' /\ ToSet(todo) \subseteq 1..made
  BY DEF PagesInv, Onward, Held, Given
<1>2. (ToSet(todo) \subseteq Given)'
  BY <1>1 DEF Given
<1>3. CASE L \in seen /\ Fresh(L)
  BY <1>2, <1>3, FreshStays DEF Held
<1>4. CASE \E a \in ToSet(todo) : a \notin remote
  <2>1. PICK a \in ToSet(todo) : a \notin remote
    BY <1>4
  <2>2. a \in 1..made /\ ~(made < a)
    BY <1>1, <2>1
  <2>3. a \notin remote'
    BY <2>1, <2>2 DEF Onward
  <2> QED
    BY <1>2, <2>3 DEF Held
<1> QED
  BY <1>3, <1>4 DEF Held

LEMMA RecordedStays ==
  ASSUME PagesInv, Onward, steady' => steady, manifest' \in {manifest, None, Torn}
  PROVE  Recorded'
<1> SUFFICES ASSUME steady', manifest' \notin {None, Torn} PROVE Fresh(ToSet(manifest))'
  BY DEF Recorded
<1>1. PICK L : L = ToSet(manifest)
  OBVIOUS
<1>2. manifest' = manifest /\ Fresh(L)
  BY <1>1 DEF PagesInv, Recorded
<1>3. Fresh(L)' /\ ToSet(manifest)' = L
  BY <1>1, <1>2, FreshStays
<1> QED
  BY <1>3

LEMMA DecidedStays ==
  ASSUME PagesInv, Onward, NEW r \in Slot, At(r, "fetch")' => req'[r] = req[r]
  PROVE  Decided(r)'
<1> SUFFICES ASSUME At(r, "fetch")', ~req'[r].rerun
             PROVE  Held(ToSet(req[r].list), req[r].todo, req[r].seen)'
  BY DEF Decided
<1>1. PICK L, todo, seen : L = ToSet(req[r].list) /\ todo = req[r].todo /\ seen = req[r].seen
  OBVIOUS
<1>2. req'[r] = req[r] /\ Held(L, todo, seen)
  BY <1>1 DEF PagesInv, Decided, At
<1>3. Held(L, todo, seen)'
  BY <1>2, HeldStays
<1> QED
  BY <1>1, <1>2, <1>3

\* When nothing happens at GitHub, who lists and does not move keeps what it has.
LEMMA PagedStays ==
  ASSUME PagesInv, UNCHANGED github, NEW r \in Slot, At(r, "list")' => req'[r] = req[r]
  PROVE  ListRecord(r)' /\ Paged(r)'
<1>1. UNCHANGED <<completed, remote, made>>
  BY DEF github
<1>2. CASE req'[r] = req[r]
  BY <1>1, <1>2 DEF PagesInv, ListRecord, Paged, Follows, At, Began, Newer, Given
<1>3. CASE ~At(r, "list")'
  BY <1>3 DEF ListRecord, Paged, Follows
<1> QED
  BY <1>2, <1>3

LEMMA OnwardWithoutGitHub ==
  ASSUME PagesInv, UNCHANGED github,
         \A r \in Slot : Follows(r)' => \/ Follows(r) /\ req'[r].seen = req[r].seen
                                       \/ req'[r].seen = {remote}
  PROVE  Onward
<1>1. UNCHANGED <<completed, remote, made>>
  BY DEF github
<1>2. made <= made /\ made \in Nat /\ remote \subseteq 1..made
  BY DEF PagesInv, Given
<1>3. ASSUME NEW r \in Slot, Follows(r)'
      PROVE  \/ /\ Follows(r) /\ req[r].seen \subseteq req'[r].seen
                /\ req'[r].seen \subseteq req[r].seen \cup {remote'}
             \/ req'[r].seen = {remote'}
  BY <1>1, <1>3
<1> QED
  BY <1>1, <1>2, <1>3 DEF Onward

\* A step in which nobody begins to list or to download.
LEMMA QuietPages ==
  ASSUME PagesInv, UNCHANGED github, steady' => steady, manifest' \in {manifest, None, Torn},
         \A r \in Slot : req'[r] = req[r] \/ (~At(r, "list")' /\ ~At(r, "fetch")')
  PROVE  PagesInv'
<1>1. Onward
  <2>1. \A r \in Slot : Follows(r)' => Follows(r) /\ req'[r].seen = req[r].seen
    BY DEF Follows, At
  <2> QED
    BY <2>1, OnwardWithoutGitHub
<1>2. \A r \in Slot : ListRecord(r)' /\ Paged(r)' /\ Decided(r)'
  BY <1>1, PagedStays, DecidedStays
<1>3. Recorded'
  BY <1>1, RecordedStays
<1>4. (made \in Nat /\ remote \subseteq Given)'
  BY <1>1 DEF Onward, Given
<1> QED
  BY <1>2, <1>3, <1>4 DEF PagesInv

LEMMA PagesNumbered ==
  ASSUME PagesInv
  PROVE  /\ Numbered
         /\ \A R \in SUBSET Given : R \in SUBSET Nat /\ IsFiniteSet(R) /\ Cardinality(R) \in Nat
<1>1. made \in Nat /\ remote \in SUBSET Given
  BY DEF PagesInv
<1>2. IsFiniteSet(1..made)
  BY <1>1, FS_Interval
<1>3. ASSUME NEW R \in SUBSET Given
      PROVE  R \in SUBSET Nat /\ IsFiniteSet(R) /\ Cardinality(R) \in Nat
  <2>1. R \in SUBSET (1..made) /\ R \in SUBSET Nat
    BY <1>1 DEF Given
  <2>2. IsFiniteSet(R)
    BY <1>2, <2>1, FS_Subset
  <2> QED
    BY <2>1, <2>2, FS_CardinalityType
<1> QED
  BY <1>1, <1>3 DEF Numbered

LEMMA ReadRunPages ==
  ASSUME SyncInv, PagesInv, NEW r \in Slot, ReadRun(r)
  PROVE  PagesInv'
<1>1. UNCHANGED <<github, disk, told, history>>
  BY DEF ReadRun
<1>2. UNCHANGED <<completed, remote, made, manifest, steady>>
  BY <1>1 DEF github, disk, history
<1>3. CASE Ends(r)
  <2>1. DOMAIN req' = Slot /\ req'[r] = Idle /\ \A s \in Slot \ {r} : req'[s] = req[s]
    BY <1>3, Goings DEF SyncInv, Ends
  <2>2. \A s \in Slot : req'[s] = req[s] \/ (~At(s, "list")' /\ ~At(s, "fetch")')
    BY <2>1 DEF At, Idle
  <2> QED
    BY <1>1, <1>2, <2>2, QuietPages
<1>4. CASE /\ completed
           /\ Goes(r, [pc |-> "list", page |-> 1, total |-> 0, got |-> <<>>,
                       seen |-> {remote}, rerun |-> FALSE])
  <2>1. /\ req'[r] = [pc |-> "list", page |-> 1, total |-> 0, got |-> <<>>,
                      seen |-> {remote}, rerun |-> FALSE]
        /\ \A s \in Slot \ {r} : req'[s] = req[s]
    BY <1>4, Goings DEF SyncInv
  <2>2. /\ req'[r].pc = "list" /\ req'[r].page = 1 /\ req'[r].got = <<>>
        /\ req'[r].seen = {remote} /\ req'[r].rerun = FALSE /\ req'[r].total = 0
    BY <2>1
  <2>3. Onward
    <3>1. \A s \in Slot : Follows(s)' => \/ Follows(s) /\ req'[s].seen = req[s].seen
                                         \/ req'[s].seen = {remote}
      BY <2>1, <2>2 DEF Follows, At
    <3> QED
      BY <1>1, <3>1, OnwardWithoutGitHub
  <2>4. \A s \in Slot : Decided(s)'
    <3>1. \A s \in Slot : At(s, "fetch")' => req'[s] = req[s]
      BY <2>1, <2>2 DEF At
    <3> QED
      BY <2>3, <3>1, DecidedStays
  <2>5. \A s \in Slot \ {r} : ListRecord(s)' /\ Paged(s)'
    BY <1>1, <2>1, PagedStays
  <2>6. ListRecord(r)'
    <3>1. DOMAIN req'[r] = ListFields
      BY <2>1 DEF ListFields
    <3> QED
      BY <2>2, <3>1 DEF ListRecord
  <2>7. Paged(r)'
    <3>1. <<>> \in Seq(Nat) /\ Len(<<>>) = 0 /\ ToSet(<<>>) = {} /\ Cardinality({}) = 0
      BY EmptyList, FS_EmptySet
    <3>2. (1 - 1) * PageSize = 0
      BY SyncAssumption
    <3>3. Newer(req[r].got)'
      BY <2>2, <3>1 DEF Newer
    <3>4. /\ completed' /\ remote' \in req'[r].seen
          /\ req'[r].page \in Nat \ {0} /\ req'[r].page = 1 /\ req'[r].got \in Seq(Nat)
          /\ ToSet(req'[r].got) \subseteq Given'
          /\ Len(req'[r].got) = (req'[r].page - 1) * PageSize
      BY <1>2, <1>4, <2>2, <3>1, <3>2
    <3> QED
      BY <3>3, <3>4 DEF Paged
  <2>8. Recorded'
    BY <1>2, <2>3, RecordedStays
  <2>9. (made \in Nat /\ remote \subseteq Given)'
    BY <1>2 DEF PagesInv, Given
  <2> QED
    BY <2>4, <2>5, <2>6, <2>7, <2>8, <2>9 DEF PagesInv
<1> QED
  BY <1>3, <1>4 DEF ReadRun

\* Who lists, when something changes at GitHub.
LEMMA Witnessed ==
  ASSUME PagesInv, Witness, NEW r \in Slot
  PROVE  /\ Follows(r) =>
              /\ At(r, "list")' /\ DOMAIN req'[r] = ListFields
              /\ req'[r].seen = req[r].seen \cup {remote'}
              /\ req'[r].rerun = ~completed'
              /\ req'[r].page = req[r].page /\ req'[r].got = req[r].got
              /\ req'[r].total = req[r].total
         /\ ~Follows(r) => req'[r] = req[r]
<1>1. CASE Follows(r)
  <2>1. PICK v, w : v = req[r].seen \cup {remote'} /\ w = (~completed')
    OBVIOUS
  <2>2. req'[r] = [req[r] EXCEPT !.seen = v, !.rerun = w]
    BY <1>1, <2>1 DEF Witness
  <2>3. DOMAIN req[r] = ListFields
    BY <1>1 DEF PagesInv, ListRecord, Follows
  <2>4. /\ DOMAIN req'[r] = ListFields /\ req'[r].pc = req[r].pc
        /\ req'[r].seen = v /\ req'[r].rerun = w
        /\ req'[r].page = req[r].page /\ req'[r].got = req[r].got
        /\ req'[r].total = req[r].total
    BY <2>2, <2>3 DEF ListFields
  <2> QED
    BY <1>1, <2>1, <2>4 DEF Follows, At
<1>2. CASE ~Follows(r)
  BY <1>2 DEF Witness
<1> QED
  BY <1>1, <1>2

LEMMA NewerAfterDeletion ==
  ASSUME NEW q, Newer(q), remote' \subseteq remote
  PROVE  Newer(q)'
  BY DEF Newer

LEMMA GitHubPages ==
  ASSUME PagesInv, Rerun \/ Upload \/ Delete
  PROVE  PagesInv'
<1>1. Witness /\ UNCHANGED <<manifest, steady>>
  BY DEF Rerun, Upload, Delete, disk, history
<1>2. /\ made \in Nat /\ made' \in Nat /\ made <= made' /\ remote' \subseteq 1..made'
      /\ \A a \in remote' \ remote : made < a
  <2>1. made \in Nat /\ remote \subseteq 1..made
    BY DEF PagesInv, Given
  <2>2. CASE made' = made /\ remote' \subseteq remote
    BY <2>1, <2>2
  <2>3. CASE made' = made + 1 /\ remote' = remote \cup {made'}
    BY <2>1, <2>3
  <2> QED
    BY <2>2, <2>3 DEF Rerun, Upload, Delete
<1>3. ASSUME NEW r \in Slot
      PROVE  \/ /\ Follows(r) /\ At(r, "list")' /\ DOMAIN req'[r] = ListFields
                /\ req'[r].seen = req[r].seen \cup {remote'}
                /\ req'[r].rerun = ~completed'
                /\ req'[r].page = req[r].page /\ req'[r].got = req[r].got
                /\ req'[r].total = req[r].total
             \/ ~Follows(r) /\ req'[r] = req[r]
  BY <1>1, Witnessed
<1>4. ASSUME NEW r \in Slot, Follows(r)'
      PROVE  /\ Follows(r) /\ completed /\ completed' /\ made' = made /\ remote' \subseteq remote
             /\ req'[r].seen = req[r].seen \cup {remote'}
             /\ req'[r].page = req[r].page /\ req'[r].got = req[r].got
             /\ req'[r].total = req[r].total
  <2>1. /\ Follows(r) /\ completed'
        /\ req'[r].seen = req[r].seen \cup {remote'}
        /\ req'[r].page = req[r].page /\ req'[r].got = req[r].got
        /\ req'[r].total = req[r].total
    BY <1>3, <1>4 DEF Follows, At
  <2>2. completed
    BY <2>1 DEF PagesInv, Paged
  <2>3. Delete
    BY <2>1, <2>2 DEF Rerun, Upload
  <2> QED
    BY <2>1, <2>2, <2>3 DEF Delete
<1>5. Onward
  <2>1. \A r \in Slot : Follows(r)' =>
          /\ Follows(r) /\ req[r].seen \subseteq req'[r].seen
          /\ req'[r].seen \subseteq req[r].seen \cup {remote'}
    BY <1>4
  <2> QED
    BY <1>2, <2>1 DEF Onward
<1>6. \A r \in Slot : ListRecord(r)'
  BY <1>3 DEF PagesInv, ListRecord, At
<1>7. ASSUME NEW r \in Slot PROVE Paged(r)'
  <2> SUFFICES ASSUME Follows(r)' PROVE Paged(r)'
    BY DEF Paged
  <2>1. /\ Follows(r) /\ completed' /\ made' = made /\ remote' \subseteq remote
        /\ req'[r].seen = req[r].seen \cup {remote'}
        /\ req'[r].page = req[r].page /\ req'[r].got = req[r].got
        /\ req'[r].total = req[r].total
    BY <1>4
  <2>2. /\ req[r].page \in Nat \ {0} /\ req[r].got \in Seq(Nat)
        /\ ToSet(req[r].got) \subseteq Given
        /\ Len(req[r].got) = (req[r].page - 1) * PageSize
        /\ req[r].page # 1 => \E R \in req[r].seen : Began(R, req[r].got, req[r].total)
        /\ Newer(req[r].got)
    BY <2>1 DEF PagesInv, Paged
  <2>3. Newer(req[r].got)'
    <3>1. PICK q : q = req[r].got /\ Newer(q)
      BY <2>2
    <3>2. Newer(q)' /\ req'[r].got = q
      BY <2>1, <3>1, NewerAfterDeletion
    <3> QED
      BY <3>2
  <2>4. ASSUME req'[r].page # 1 PROVE (\E R \in req[r].seen : Began(R, req[r].got, req[r].total))'
    <3>1. PICK R \in req[r].seen : Began(R, req[r].got, req[r].total)
      BY <2>1, <2>2, <2>4
    <3>2. Began(R, req[r].got, req[r].total)'
      BY <2>1, <3>1 DEF Began, Given
    <3> QED
      BY <2>1, <3>2
  <2>5. /\ completed' /\ remote' \in req'[r].seen
        /\ req'[r].page \in Nat \ {0} /\ req'[r].got \in Seq(Nat)
        /\ ToSet(req'[r].got) \subseteq Given'
        /\ Len(req'[r].got) = (req'[r].page - 1) * PageSize
    BY <2>1, <2>2 DEF Given
  <2> QED
    BY <2>3, <2>4, <2>5 DEF Paged
<1>8. \A r \in Slot : Decided(r)'
  <2>1. \A r \in Slot : At(r, "fetch")' => req'[r] = req[r]
    BY <1>3 DEF At
  <2> QED
    BY <1>5, <2>1, DecidedStays
<1>9. Recorded'
  BY <1>1, <1>5, RecordedStays
<1>10. (made \in Nat /\ remote \subseteq Given)'
  BY <1>2 DEF Given
<1> QED
  BY <1>6, <1>7, <1>8, <1>9, <1>10 DEF PagesInv

\* A page more, for one who lists while the run goes on.
LEMMA PageMore ==
  ASSUME PagesInv, NEW r \in Slot, Follows(r), NEW got, NEW total,
         got = req[r].got \o Page(req[r].page),
         total = IF req[r].page = 1 THEN Len(Newest) ELSE req[r].total
  PROVE  /\ got \in Seq(Nat) /\ ToSet(got) \subseteq Given /\ Newer(got)
         /\ LastPage(Page(req[r].page), got, total) =>
              ToSet(got) = remote \/ ~(ToSet(got) \subseteq remote)
         /\ ~LastPage(Page(req[r].page), got, total) =>
              /\ Len(got) = ((req[r].page + 1) - 1) * PageSize
              /\ \E R \in req[r].seen : Began(R, got, total)
         /\ req[r].page = 1 => ToSet(got) \subseteq remote
         /\ req[r].page # 1 => \E R \in req[r].seen : Began(R, got, total)
<1>1. PICK p \in Nat \ {0} : p = req[r].page
  BY DEF PagesInv, Paged
<1>2. PICK q \in Seq(Nat) : q = req[r].got
  BY DEF PagesInv, Paged
<1>3. PICK items : items = Page(p)
  OBVIOUS
<1>4. /\ remote \in req[r].seen /\ ToSet(q) \subseteq Given /\ Len(q) = (p - 1) * PageSize
      /\ Newer(q) /\ remote \in SUBSET Given
      /\ p # 1 => \E R \in req[r].seen : Began(R, q, req[r].total)
  BY <1>1, <1>2 DEF PagesInv, Paged
<1>5. PICK n \in Nat : n = Cardinality(remote) /\ Numbered /\ Len(Newest) = n
  BY <1>4, PagesNumbered, NewestFacts
<1>6. /\ got \in Seq(Nat) /\ ToSet(got) = ToSet(q) \cup ToSet(items)
      /\ Len(got) = Len(q) + Len(items) /\ items \in Seq(remote) /\ Newer(got)
      /\ ToSet(got) \subseteq remote =>
           ToSet(got) = remote \/ (Len(items) = PageSize /\ Len(got) < n)
  <2>1. PICK all : all = q \o Page(p)
    OBVIOUS
  <2>2. Newer(q) /\ Len(q) = (p - 1) * PageSize
    BY <1>4
  <2>3. /\ all \in Seq(Nat) /\ ToSet(all) = ToSet(q) \cup ToSet(Page(p))
        /\ Len(all) = Len(q) + Len(Page(p)) /\ Page(p) \in Seq(remote) /\ Newer(all)
        /\ ToSet(all) \subseteq remote =>
             ToSet(all) = remote \/ (Len(Page(p)) = PageSize /\ Len(all) < Cardinality(remote))
    BY <1>5, <2>1, <2>2, NextPage
  <2>4. all = got
    BY <1>1, <1>2, <2>1
  <2> QED
    BY <1>3, <1>5, <2>3, <2>4
<1>7. ToSet(items) \subseteq remote
  BY <1>6 DEF ToSet
<1>8. ToSet(got) \subseteq Given
  BY <1>4, <1>6, <1>7
<1>9. ASSUME p # 1 PROVE \E R \in req[r].seen : Began(R, got, total)
  <2>1. PICK R \in req[r].seen : Began(R, q, req[r].total)
    BY <1>4, <1>9
  <2>2. Began(R, got, total)
    BY <1>1, <1>6, <1>7, <1>9, <2>1 DEF Began
  <2> QED
    BY <2>2
<1>10. ASSUME p = 1 PROVE q = <<>> /\ ToSet(got) = ToSet(items) /\ total = n
  <2>1. (1 - 1) * PageSize = 0
    BY SyncAssumption
  <2>2. Len(q) = 0
    BY <1>4, <1>10, <2>1
  <2>3. q = <<>>
    BY <2>2
  <2> QED
    BY <1>1, <1>5, <1>6, <1>10, <2>3, EmptyList
<1>11. ASSUME p = 1, items # <<>> PROVE Began(remote, got, total)
  <2>1. ToSet(items) # {}
    <3>1. IsList(items)
      BY <1>6, SequencesAreLists
    <3> QED
      BY <1>11, <3>1, FirstAndOthers
  <2>2. PICK x \in ToSet(got) : x \in remote
    BY <1>7, <1>10, <1>11, <2>1
  <2>3. PICK y \in remote : \A z \in remote : z <= y
    BY <1>5, <2>2, Extremes DEF Numbered
  <2>4. y \in ToSet(got)
    BY <1>6, <1>7, <1>10, <1>11, <2>2, <2>3 DEF Newer
  <2> QED
    BY <1>4, <1>5, <1>7, <1>10, <1>11, <2>3, <2>4 DEF Began
<1>12. total \in Nat /\ n <= total
  <2>1. CASE p = 1
    BY <1>5, <1>10, <2>1
  <2>2. CASE p # 1
    <3>1. PICK R \in req[r].seen : Began(R, got, total)
      BY <1>9, <2>2
    <3>2. R \in SUBSET Given /\ remote \in SUBSET R /\ total = Cardinality(R)
      BY <3>1 DEF Began
    <3>3. IsFiniteSet(R) /\ Cardinality(R) \in Nat
      BY <3>2, PagesNumbered
    <3> QED
      BY <1>5, <3>2, <3>3, FS_Subset
  <2> QED
    BY <2>1, <2>2
<1>13. Len(got) \in Nat /\ Len(items) \in Nat /\ PageSize \in Nat /\ PageSize # 0
  BY <1>6, SyncAssumption
<1>14. ASSUME LastPage(items, got, total), ToSet(got) \subseteq remote PROVE ToSet(got) = remote
  <2>1. items = <<>> \/ Len(got) >= total \/ Len(items) < PageSize
    BY <1>14 DEF LastPage
  <2>2. ~(Len(items) = PageSize /\ Len(got) < n)
    <3>1. CASE items = <<>>
      <4>1. Len(items) = 0
        BY <3>1
      <4> QED
        BY <1>13, <4>1
    <3>2. CASE Len(got) >= total
      <4>1. \A l, t, m \in Nat : l >= t /\ m <= t => ~(l < m)
        OBVIOUS
      <4> QED
        BY <1>12, <1>13, <3>2, <4>1
    <3>3. CASE Len(items) < PageSize
      <4>1. \A l, t \in Nat : l < t => l # t
        OBVIOUS
      <4> QED
        BY <1>13, <3>3, <4>1
    <3> QED
      BY <2>1, <3>1, <3>2, <3>3
  <2> QED
    BY <1>6, <1>14, <2>2
<1>15. ASSUME ~LastPage(items, got, total)
       PROVE  /\ Len(got) = ((p + 1) - 1) * PageSize
              /\ \E R \in req[r].seen : Began(R, got, total)
  <2>1. items # <<>> /\ ~(Len(items) < PageSize)
    BY <1>15 DEF LastPage
  <2>2. Len(items) <= PageSize
    <3>1. PICK m : m = (p - 1) * PageSize
      OBVIOUS
    <3>2. m \in Nat /\ Len(items) = IF m + PageSize <= n THEN PageSize
                                    ELSE IF m < n THEN n - m ELSE 0
      BY <1>3, <1>5, <3>1, PageFacts
    <3> HIDE <3>1
    <3> QED
      BY <1>13, <3>2
  <2>3. Len(items) = PageSize
    BY <1>13, <2>1, <2>2
  <2>4. Len(got) = (p - 1) * PageSize + PageSize
    BY <1>4, <1>6, <2>3
  <2>5. ((p + 1) - 1) * PageSize = (p - 1) * PageSize + PageSize
    BY <1>13
  <2> QED
    BY <1>4, <1>9, <1>11, <2>1, <2>4, <2>5
<1> QED
  BY <1>1, <1>3, <1>6, <1>7, <1>8, <1>9, <1>10, <1>14, <1>15

LEMMA FreshNow ==
  ASSUME PagesInv
  PROVE  Fresh(remote)
<1>1. Older(remote, remote)
  BY DEF Older
<1>2. \A r \in Slot : Follows(r) => remote \in req[r].seen
  BY DEF PagesInv, Paged
<1> QED
  BY <1>1, <1>2 DEF Fresh, PagesInv

\* One request moves on, nothing happens at GitHub.
LEMMA OneMoves ==
  ASSUME PagesInv, UNCHANGED github, NEW r \in Slot,
         \A s \in Slot \ {r} : req'[s] = req[s],
         ListRecord(r)', Paged(r)', Onward => Decided(r)', Onward => Recorded',
         Follows(r)' => Follows(r) /\ req'[r].seen = req[r].seen
  PROVE  PagesInv'
<1>1. \A s \in Slot : Follows(s)' => Follows(s) /\ req'[s].seen = req[s].seen
  BY DEF Follows, At
<1>2. Onward
  BY <1>1, OnwardWithoutGitHub
<1>3. \A s \in Slot : ListRecord(s)' /\ Paged(s)' /\ Decided(s)'
  BY <1>2, PagedStays, DecidedStays
<1>4. (made \in Nat /\ remote \subseteq Given)'
  BY <1>2 DEF Onward, Given
<1> QED
  BY <1>2, <1>3, <1>4 DEF PagesInv

\* The list of one who has read the last page.
Listed(r, list) ==
  Follows(r) => /\ ToSet(list) \subseteq Given
                /\ ToSet(list) = remote \/ ~(ToSet(list) \subseteq remote)

LEMMA DecidePages ==
  ASSUME SyncInv, PagesInv, NEW r \in Slot, NEW list, At(r, "list"), Listed(r, list),
         Decide(r, list), UNCHANGED github
  PROVE  PagesInv'
<1>1. CASE UNCHANGED <<manifest, steady>> /\ Ends(r)
  <2>1. DOMAIN req' = Slot /\ req'[r] = Idle /\ \A s \in Slot \ {r} : req'[s] = req[s]
    BY <1>1, Goings DEF SyncInv, Ends
  <2>2. \A s \in Slot : req'[s] = req[s] \/ (~At(s, "list")' /\ ~At(s, "fetch")')
    BY <2>1 DEF At, Idle
  <2> QED
    BY <1>1, <2>2, QuietPages
<1>2. CASE manifest' \in {manifest, None, Torn} /\ steady' = steady /\ Interrupted(r)
  <2>1. \A s \in Slot : req'[s] = req[s] \/ req'[s] = Idle
    BY <1>2, Endings DEF SyncInv
  <2>2. \A s \in Slot : req'[s] = req[s] \/ (~At(s, "list")' /\ ~At(s, "fetch")')
    BY <2>1 DEF At, Idle
  <2> QED
    BY <1>2, <2>2, QuietPages
<1>3. CASE ThenManifest(r, list, list, None)
  <2>1. CASE list = <<>>
    <3>1. manifest' = list /\ steady' = ~req[r].rerun /\ Goes(r, Idle)
      BY <1>3, <2>1 DEF ThenManifest, Records, Answers, Ends
    <3>2. req'[r] = Idle /\ \A s \in Slot \ {r} : req'[s] = req[s]
      BY <3>1, Goings DEF SyncInv
    <3>3. ~At(r, "list")' /\ ~At(r, "fetch")'
      BY <3>2 DEF At, Idle
    <3>4. ASSUME Onward PROVE Recorded'
      <4> SUFFICES ASSUME steady' PROVE Fresh(ToSet(manifest))'
        BY DEF Recorded
      <4>1. Follows(r)
        BY <3>1 DEF Follows
      <4>2. ToSet(list) = remote
        BY <2>1, <4>1, EmptyList DEF Listed
      <4>3. PICK L : L = remote /\ Fresh(L)
        BY FreshNow
      <4>4. Fresh(L)'
        BY <3>4, <4>3, FreshStays
      <4>5. ToSet(manifest)' = L
        BY <3>1, <4>2, <4>3
      <4> QED
        BY <4>4, <4>5
    <3>5. ListRecord(r)' /\ Paged(r)' /\ Decided(r)'
      BY <3>3 DEF ListRecord, Paged, Follows, Decided
    <3> QED
      BY <3>2, <3>3, <3>4, <3>5, OneMoves DEF Follows
  <2>2. CASE list # <<>>
    <3>1. /\ manifest' = None /\ steady' = steady
          /\ Goes(r, [pc |-> "fetch", list |-> list, todo |-> list,
                      seen |-> req[r].seen, rerun |-> req[r].rerun])
      BY <1>3, <2>2 DEF ThenManifest, Fetches
    <3>2. /\ req'[r] = [pc |-> "fetch", list |-> list, todo |-> list,
                        seen |-> req[r].seen, rerun |-> req[r].rerun]
          /\ \A s \in Slot \ {r} : req'[s] = req[s]
      BY <3>1, Goings DEF SyncInv
    <3>3. /\ req'[r].pc = "fetch" /\ req'[r].list = list /\ req'[r].todo = list
          /\ req'[r].seen = req[r].seen /\ req'[r].rerun = req[r].rerun
      BY <3>2
    <3>4. ASSUME Onward PROVE Decided(r)'
      <4> SUFFICES ASSUME ~req'[r].rerun
                   PROVE  Held(ToSet(req[r].list), req[r].todo, req[r].seen)'
        BY DEF Decided
      <4>1. Follows(r)
        BY <3>3 DEF Follows
      <4>2. PICK L, seen : L = ToSet(list) /\ seen = req[r].seen
        OBVIOUS
      <4>3. Held(L, list, seen)
        <5>1. CASE L = remote
          <6>1. remote \in req[r].seen
            BY <4>1 DEF PagesInv, Paged
          <6> QED
            BY <4>1, <4>2, <5>1, <6>1, FreshNow DEF Held, Listed
        <5>2. CASE ~(L \subseteq remote)
          BY <4>1, <4>2, <5>2 DEF Held, Listed
        <5> QED
          BY <4>1, <4>2, <5>1, <5>2 DEF Listed
      <4>4. Held(L, list, seen)'
        BY <3>4, <4>3, HeldStays
      <4> QED
        BY <3>3, <4>2, <4>4
    <3>5. ASSUME Onward PROVE Recorded'
      BY <3>1, <3>5, RecordedStays
    <3>6. ~At(r, "list")' /\ ListRecord(r)' /\ Paged(r)'
      BY <3>3 DEF At, ListRecord, Paged, Follows
    <3> QED
      BY <3>2, <3>4, <3>5, <3>6, OneMoves DEF Follows
  <2> QED
    BY <2>1, <2>2
<1>4. \/ UNCHANGED <<manifest, steady>> /\ Ends(r)
      \/ manifest' \in {manifest, None, Torn} /\ steady' = steady /\ Interrupted(r)
      \/ ThenManifest(r, list, list, None)
  BY DEF Decide, Answers, Continues, history
<1> QED
  BY <1>1, <1>2, <1>3, <1>4

\* What reading a page does.
LEMMA PageRead ==
  ASSUME NEW r \in Slot, ReadPage(r)
  PROVE  \E got, total :
           /\ At(r, "list") /\ UNCHANGED github
           /\ got = req[r].got \o Page(req[r].page)
           /\ total = IF req[r].page = 1 THEN Len(Newest) ELSE req[r].total
           /\ IF LastPage(Page(req[r].page), got, total)
              THEN Decide(r, Sorted(got))
              ELSE /\ Goes(r, [req[r] EXCEPT !.page = @ + 1, !.total = total, !.got = got])
                   /\ UNCHANGED <<disk, told, history>>
BY DEF ReadPage

LEMMA LastIsListed ==
  ASSUME PagesInv, NEW r \in Slot, NEW got, NEW total,
         got = req[r].got \o Page(req[r].page),
         total = IF req[r].page = 1 THEN Len(Newest) ELSE req[r].total,
         LastPage(Page(req[r].page), got, total)
  PROVE  Listed(r, Sorted(got))
<1> SUFFICES ASSUME Follows(r)
             PROVE  /\ ToSet(Sorted(got)) \subseteq Given
                    /\ ToSet(Sorted(got)) = remote \/ ~(ToSet(Sorted(got)) \subseteq remote)
  BY DEF Listed
<1>1. /\ got \in Seq(Nat) /\ ToSet(got) \subseteq Given
      /\ ToSet(got) = remote \/ ~(ToSet(got) \subseteq remote)
  BY PageMore
<1>2. ToSet(Sorted(got)) = ToSet(got)
  BY <1>1, SortedSet
<1> QED
  BY <1>1, <1>2

LEMMA ReadPagePages ==
  ASSUME SyncInv, PagesInv, NEW r \in Slot, ReadPage(r)
  PROVE  PagesInv'
<1>1. PICK got, total :
        /\ At(r, "list") /\ UNCHANGED github
        /\ got = req[r].got \o Page(req[r].page)
        /\ total = IF req[r].page = 1 THEN Len(Newest) ELSE req[r].total
        /\ IF LastPage(Page(req[r].page), got, total)
           THEN Decide(r, Sorted(got))
           ELSE /\ Goes(r, [req[r] EXCEPT !.page = @ + 1, !.total = total, !.got = got])
                /\ UNCHANGED <<disk, told, history>>
  BY PageRead
<1>2. CASE LastPage(Page(req[r].page), got, total)
  <2>1. Listed(r, Sorted(got))
    BY <1>1, <1>2, LastIsListed
  <2> QED
    BY <1>1, <1>2, <2>1, DecidePages
<1>3. CASE ~LastPage(Page(req[r].page), got, total)
  <2>1. /\ Goes(r, [req[r] EXCEPT !.page = @ + 1, !.total = total, !.got = got])
        /\ UNCHANGED <<completed, remote, made, manifest, steady>>
    BY <1>1, <1>3 DEF github, disk, history
  <2>2. PICK next : next = req[r].page + 1
    OBVIOUS
  <2>3. /\ req'[r] = [req[r] EXCEPT !.page = next, !.total = total, !.got = got]
        /\ \A s \in Slot \ {r} : req'[s] = req[s]
    BY <2>1, <2>2, Goings DEF SyncInv
  <2>4. DOMAIN req[r] = ListFields /\ req[r].pc = "list"
    BY <1>1 DEF PagesInv, ListRecord, At
  <2>5. /\ DOMAIN req'[r] = ListFields /\ req'[r].pc = "list"
        /\ req'[r].page = next /\ req'[r].total = total /\ req'[r].got = got
        /\ req'[r].seen = req[r].seen /\ req'[r].rerun = req[r].rerun
    BY <2>3, <2>4 DEF ListFields
  <2>6. ListRecord(r)' /\ ~At(r, "fetch")'
    BY <2>4, <2>5 DEF ListRecord, At
  <2>7. Follows(r)' => Follows(r)
    BY <1>1, <2>5 DEF Follows
  <2>8. Paged(r)'
    <3> SUFFICES ASSUME Follows(r)' PROVE Paged(r)'
      BY DEF Paged
    <3>1. /\ completed /\ remote \in req[r].seen /\ req[r].page \in Nat \ {0}
      BY <2>7 DEF PagesInv, Paged
    <3>2. /\ got \in Seq(Nat) /\ ToSet(got) \subseteq Given /\ Newer(got)
          /\ Len(got) = (next - 1) * PageSize
          /\ \E R \in req[r].seen : Began(R, got, total)
      BY <1>1, <1>3, <2>2, <2>7, PageMore
    <3>3. next \in Nat \ {0}
      BY <2>2, <3>1
    <3>4. Newer(req[r].got)'
      BY <2>1, <2>5, <3>2 DEF Newer
    <3>5. (\E R \in req[r].seen : Began(R, req[r].got, req[r].total))'
      <4>1. PICK R \in req[r].seen : Began(R, got, total)
        BY <3>2
      <4>2. Began(R, req[r].got, req[r].total)'
        BY <2>1, <2>5, <4>1 DEF Began, Given
      <4> QED
        BY <2>5, <4>2
    <3>6. /\ completed' /\ remote' \in req'[r].seen
          /\ req'[r].page \in Nat \ {0} /\ req'[r].got \in Seq(Nat)
          /\ ToSet(req'[r].got) \subseteq Given'
          /\ Len(req'[r].got) = (req'[r].page - 1) * PageSize
      BY <2>1, <2>5, <3>1, <3>2, <3>3 DEF Given
    <3> QED
      BY <3>4, <3>5, <3>6 DEF Paged
  <2>9. Decided(r)'
    BY <2>6 DEF Decided
  <2>10. Onward => Recorded'
    BY <2>1, RecordedStays
  <2> QED
    BY <1>1, <2>3, <2>5, <2>6, <2>7, <2>8, <2>9, <2>10, OneMoves
<1> QED
  BY <1>2, <1>3

\* When the first artifact to download is still there ...
LEMMA HeldOn ==
  ASSUME NEW L, NEW todo, NEW seen, IsList(todo), todo # <<>>, Head(todo) \in remote,
         Held(L, todo, seen)
  PROVE  /\ Held(L, Tail(todo), seen)
         /\ Tail(todo) = <<>> => L \in seen /\ Fresh(L)
<1>1. /\ ToSet(Tail(todo)) \subseteq ToSet(todo)
      /\ ToSet(todo) \subseteq {Head(todo)} \cup ToSet(Tail(todo))
  BY FirstAndOthers
<1>2. Held(L, Tail(todo), seen)
  BY <1>1 DEF Held
<1>3. Tail(todo) = <<>> => ToSet(Tail(todo)) = {}
  BY EmptyList
<1> QED
  BY <1>2, <1>3 DEF Held

LEMMA ExtractPages ==
  ASSUME SyncInv, PagesInv, NEW r \in Slot, Extract(r)
  PROVE  PagesInv'
<1>1. PICK list, todo, seen, rerun :
        list = req[r].list /\ todo = req[r].todo /\ seen = req[r].seen /\ rerun = req[r].rerun
  OBVIOUS
<1>2. /\ At(r, "fetch") /\ Head(todo) \in remote /\ UNCHANGED github
      /\ ThenManifest(r, list, Tail(todo), manifest)
  BY <1>1 DEF Extract, Continues, github
<1>3. IsList(todo) /\ todo # <<>>
  BY <1>1, <1>2 DEF SyncInv, Under
<1>4. ~rerun => /\ Held(ToSet(list), Tail(todo), seen)
                /\ Tail(todo) = <<>> => Fresh(ToSet(list))
  <2> SUFFICES ASSUME ~rerun
               PROVE  /\ Held(ToSet(list), Tail(todo), seen)
                      /\ Tail(todo) = <<>> => Fresh(ToSet(list))
    OBVIOUS
  <2>1. Held(ToSet(list), todo, seen)
    BY <1>1, <1>2 DEF PagesInv, Decided
  <2> QED
    BY <1>2, <1>3, <2>1, HeldOn
<1>5. CASE Tail(todo) = <<>>
  <2>1. manifest' = list /\ steady' = ~rerun /\ Goes(r, Idle)
    BY <1>1, <1>2, <1>5 DEF ThenManifest, Records, Answers, Ends
  <2>2. req'[r] = Idle /\ \A s \in Slot \ {r} : req'[s] = req[s]
    BY <2>1, Goings DEF SyncInv
  <2>3. ~At(r, "list")' /\ ~At(r, "fetch")'
    BY <2>2 DEF At, Idle
  <2>4. ListRecord(r)' /\ Paged(r)' /\ Decided(r)'
    BY <2>3 DEF ListRecord, Paged, Follows, Decided
  <2>5. ASSUME Onward PROVE Recorded'
    <3> SUFFICES ASSUME steady' PROVE Fresh(ToSet(manifest))'
      BY DEF Recorded
    <3>1. PICK L : L = ToSet(list) /\ Fresh(L)
      BY <1>4, <1>5, <2>1
    <3>2. Fresh(L)' /\ ToSet(manifest)' = L
      BY <2>1, <2>5, <3>1, FreshStays
    <3> QED
      BY <3>2
  <2> QED
    BY <1>2, <2>2, <2>3, <2>4, <2>5, OneMoves DEF Follows
<1>6. CASE Tail(todo) # <<>>
  <2>1. /\ manifest' = manifest /\ steady' = steady
        /\ Goes(r, [pc |-> "fetch", list |-> list, todo |-> Tail(todo),
                    seen |-> seen, rerun |-> rerun])
    BY <1>1, <1>2, <1>6 DEF ThenManifest, Fetches
  <2>2. /\ req'[r] = [pc |-> "fetch", list |-> list, todo |-> Tail(todo),
                      seen |-> seen, rerun |-> rerun]
        /\ \A s \in Slot \ {r} : req'[s] = req[s]
    BY <2>1, Goings DEF SyncInv
  <2>3. /\ req'[r].pc = "fetch" /\ req'[r].list = list /\ req'[r].todo = Tail(todo)
        /\ req'[r].seen = seen /\ req'[r].rerun = rerun
    BY <2>2
  <2>4. ~At(r, "list")' /\ ListRecord(r)' /\ Paged(r)'
    BY <2>3 DEF At, ListRecord, Paged, Follows
  <2>5. ASSUME Onward PROVE Decided(r)'
    <3> SUFFICES ASSUME ~rerun
                 PROVE  Held(ToSet(req[r].list), req[r].todo, req[r].seen)'
      BY <2>3 DEF Decided
    <3>1. PICK L, left : L = ToSet(list) /\ left = Tail(todo) /\ Held(L, left, seen)
      BY <1>4
    <3>2. Held(L, left, seen)'
      BY <2>5, <3>1, HeldStays
    <3> QED
      BY <2>3, <3>1, <3>2
  <2>6. Onward => Recorded'
    BY <2>1, RecordedStays
  <2> QED
    BY <1>2, <2>2, <2>4, <2>5, <2>6, OneMoves DEF Follows
<1> QED
  BY <1>5, <1>6

LEMMA OtherPages ==
  ASSUME SyncInv, PagesInv, NEW r \in Slot,
         Arrive(r) \/ ExtractStops(r) \/ CallFails(r) \/ CommandRemoves \/ UNCHANGED vars
  PROVE  PagesInv'
<1>1. UNCHANGED github /\ steady' = steady /\ manifest' \in {manifest, None, Torn}
  BY DEF Arrive, ExtractStops, CallFails, CommandRemoves, vars, disk, history
<1>2. \A s \in Slot : req'[s] = req[s] \/ (~At(s, "list")' /\ ~At(s, "fetch")')
  <2>1. CASE Arrive(r)
    <3>1. /\ req'[r] = [pc |-> "status"] /\ \A s \in Slot \ {r} : req'[s] = req[s]
      BY <2>1, Goings DEF Arrive, SyncInv
    <3> QED
      BY <3>1 DEF At
  <2>2. CASE Interrupted(r)
    <3>1. \A s \in Slot : req'[s] = req[s] \/ req'[s] = Idle
      BY <2>2, Endings DEF SyncInv
    <3> QED
      BY <3>1 DEF At, Idle
  <2>3. CASE UNCHANGED req
    BY <2>3
  <2> QED
    BY <2>1, <2>2, <2>3 DEF ExtractStops, CallFails, CommandRemoves, vars
<1> QED
  BY <1>1, <1>2, QuietPages

LEMMA PagesInit == Init => PagesInv
<1> SUFFICES ASSUME Init PROVE PagesInv
  OBVIOUS
<1>1. remote = {} /\ made = 0 /\ manifest = None
  BY DEF Init
<1>2. \A r \in Slot : ~At(r, "list") /\ ~At(r, "fetch")
  BY DEF Init, At, Idle
<1> QED
  BY <1>1, <1>2 DEF PagesInv, ListRecord, Paged, Follows, Decided, Recorded, Given

LEMMA PagesNext == SyncInv /\ PagesInv /\ [Next]_vars => PagesInv'
<1> SUFFICES ASSUME SyncInv, PagesInv, [Next]_vars PROVE PagesInv'
  OBVIOUS
<1>1. CASE UNCHANGED vars
  <2>1. UNCHANGED <<req, github, manifest, steady>>
    BY <1>1 DEF vars, disk, history
  <2> QED
    BY <2>1, QuietPages
<1>2. CASE CommandRemoves
  <2>1. UNCHANGED <<req, github, manifest, steady>>
    BY <1>2 DEF CommandRemoves, github
  <2> QED
    BY <2>1, QuietPages
<1> QED
  BY <1>1, <1>2, OtherPages, ReadRunPages, ReadPagePages, ExtractPages, GitHubPages DEF Next

-----------------------------------------------------------------------------
\* Who lists has the newest artifacts as long as none of them was deleted, and
\* a manifest that was listed undisturbed is older than everything since.
THEOREM PagesInductive == Spec => []PagesInv
  BY SyncInit, SyncNext, PagesInit, PagesNext, PTL DEF Spec

\* What was listed undisturbed and found in the manifest, is what the run had.
LEMMA CurrentIsSeen ==
  ASSUME PagesInv, NEW r \in Slot, Follows(r), NEW got, NEW total,
         got = req[r].got \o Page(req[r].page),
         total = IF req[r].page = 1 THEN Len(Newest) ELSE req[r].total,
         LastPage(Page(req[r].page), got, total), Fresh(ToSet(got))
  PROVE  ToSet(got) \in req[r].seen
<1>1. PICK L : L = ToSet(got)
  OBVIOUS
<1>2. remote \in req[r].seen
  BY DEF PagesInv, Paged
<1>3. L = remote \/ ~(L \subseteq remote)
  BY <1>1, PageMore
<1>4. CASE ~(L \subseteq remote)
  <2>1. req[r].page # 1
    BY <1>1, <1>4, PageMore
  <2>2. PICK R \in req[r].seen : Began(R, got, total)
    BY <2>1, PageMore
  <2>3. L \subseteq R /\ R \subseteq Given /\ \E y \in L : \A z \in R : z <= y
    BY <1>1, <2>2 DEF Began
  <2>4. PICK y \in L : \A z \in R : z <= y
    BY <2>3
  <2>5. CASE Older(L, R)
    <3>1. ASSUME NEW z \in R \ L PROVE FALSE
      <4>1. y < z /\ z <= y
        BY <2>4, <2>5, <3>1 DEF Older
      <4>2. y \in Nat /\ z \in Nat
        BY <2>3, <2>4 DEF Given
      <4> QED
        BY <4>1, <4>2
    <3>2. L = R
      BY <2>3, <3>1
    <3> QED
      BY <1>1, <2>2, <3>2
  <2>6. L \in req[r].seen \/ \A S \in req[r].seen : Older(L, S)
    BY <1>1 DEF Fresh
  <2> QED
    BY <1>1, <2>2, <2>5, <2>6
<1> QED
  BY <1>1, <1>2, <1>3, <1>4

LEMMA SnapshotStep ==
  ASSUME SyncInv, PagesInv, [Next]_vars, NEW r \in Slot, Responds(r), ~req[r].rerun, steady'
  PROVE  ToSet(told'[r]) \in req[r].seen
<1>1. told' # told /\ DOMAIN told = Slot /\ told'[r] # None /\ told[r] # told'[r]
  BY DEF Responds, SyncInv, Types
<1>2. PICK s \in Slot : ReadPage(s) \/ Extract(s) \/ Arrive(s)
  BY <1>1 DEF Next, vars, ReadRun, ExtractStops, CallFails, Rerun, Upload, Delete,
              CommandRemoves
<1>3. CASE Arrive(s)
  BY <1>1, <1>3 DEF Arrive
<1>4. CASE Extract(s)
  <2>1. PICK list, todo : list = req[s].list /\ todo = req[s].todo
    OBVIOUS
  <2>2. /\ At(s, "fetch") /\ Head(todo) \in remote
        /\ ThenManifest(s, list, Tail(todo), manifest)
    BY <1>4, <2>1 DEF Extract, Continues
  <2>3. Tail(todo) = <<>> /\ told' = [told EXCEPT ![s] = list]
    BY <1>1, <2>2 DEF ThenManifest, Answers, Fetches
  <2>4. s = r /\ told'[r] = list
    BY <1>1, <2>3
  <2>5. IsList(todo) /\ todo # <<>> /\ Held(ToSet(list), todo, req[r].seen)
    BY <2>1, <2>2, <2>4 DEF SyncInv, Under, PagesInv, Decided
  <2> QED
    BY <2>2, <2>3, <2>4, <2>5, HeldOn
<1>5. CASE ReadPage(s)
  <2>1. PICK got, total :
          /\ At(s, "list") /\ UNCHANGED github
          /\ got = req[s].got \o Page(req[s].page)
          /\ total = IF req[s].page = 1 THEN Len(Newest) ELSE req[s].total
          /\ IF LastPage(Page(req[s].page), got, total)
             THEN Decide(s, Sorted(got))
             ELSE /\ Goes(s, [req[s] EXCEPT !.page = @ + 1, !.total = total, !.got = got])
                  /\ UNCHANGED <<disk, told, history>>
    BY <1>5, PageRead
  <2>2. PICK list : list = Sorted(got)
    OBVIOUS
  <2>3. LastPage(Page(req[s].page), got, total) /\ Decide(s, list)
    BY <1>1, <2>1, <2>2
  <2>4. told' = [told EXCEPT ![s] = list]
    BY <1>1, <2>3 DEF Decide, Continues, ThenManifest, Answers, Fetches
  <2>5. s = r /\ told'[r] = list /\ Follows(r)
    BY <1>1, <2>1, <2>4 DEF Follows
  <2>6. /\ ToSet(list) = ToSet(got)
        /\ ToSet(got) = remote \/ ~(ToSet(got) \subseteq remote)
    <3>1. got \in Seq(Nat) /\ (ToSet(got) = remote \/ ~(ToSet(got) \subseteq remote))
      BY <2>1, <2>3, <2>5, PageMore
    <3> QED
      BY <2>2, <3>1, SortedSet
  <2>7. CASE ~Unreadable /\ Current(list) /\ UNCHANGED history
    <3>1. steady /\ manifest = list /\ list # Torn /\ list # None
      BY <1>1, <2>5, <2>7 DEF Current, Unreadable, history
    <3>2. Fresh(ToSet(got))
      BY <2>6, <3>1 DEF PagesInv, Recorded
    <3>3. ToSet(got) \in req[r].seen
      BY <2>1, <2>3, <2>5, <3>2, CurrentIsSeen
    <3> QED
      BY <2>5, <2>6, <3>3
  <2>8. CASE ThenManifest(s, list, list, None)
    <3>1. list = <<>>
      BY <1>1, <2>8 DEF ThenManifest, Fetches
    <3>2. ToSet(got) = {}
      BY <2>6, <3>1, EmptyList
    <3>3. ToSet(got) = remote /\ remote \in req[r].seen
      BY <2>5, <2>6, <3>2 DEF PagesInv, Paged
    <3> QED
      BY <2>5, <2>6, <3>3
  <2> QED
    BY <1>1, <2>3, <2>7, <2>8 DEF Decide, Continues
<1> QED
  BY <1>2, <1>3, <1>4, <1>5

\* The artifacts a response names are those the run had at one moment while they
\* were listed (_list_all_run_artifacts, _manifest_is_current).
THEOREM ResponsesAreSnapshots == Spec => ResponseIsASnapshot
<1>1. SyncInv /\ PagesInv /\ [Next]_vars =>
        [\A r \in Slot : Responds(r) /\ ~req[r].rerun /\ steady' =>
           ToSet(told'[r]) \in req[r].seen]_vars
  BY SnapshotStep
<1> QED
  BY <1>1, SyncInductive, PagesInductive, PTL DEF Spec, ResponseIsASnapshot
=============================================================================
