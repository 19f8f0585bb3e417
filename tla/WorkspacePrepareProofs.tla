----------------------- MODULE WorkspacePrepareProofs -----------------------
(***************************************************************************)
(* Theorems about WorkspacePrepare for any number of workspaces, keys and  *)
(* requests.                                                               *)
(***************************************************************************)
EXTENDS WorkspacePrepare, FiniteSetTheorems, TLAPS

\* While a key is being served nothing is stored for it.
Unanswered == \A r \in Slot : Serving(r) => Saved(KeyOf(r)) = {}

\* Whatever was answered is what is stored, once for each key.
Stored ==
  /\ answers \subseteq saved
  /\ \A s, t \in saved : s.ask.key = t.ask.key => s = t

\* A branch that is known to exist is stored for its key.
BranchStored == \A b \in refs : b.known => SavedBranch(b.key) # {}

\* Clones are fresh, and go to directories of their own; what is old exists.
Apart ==
  /\ \A w \in old : dir[w] # "absent"
  /\ \A r \in Slot : At(r, "clone") =>
       /\ req[r].workspace \notin old
       /\ \A s \in Slot : At(s, "clone") /\ req[s].workspace = req[r].workspace => s = r

IInv == /\ TypeOK
        /\ Unanswered
        /\ Stored
        /\ BranchStored
        /\ OneBranchPerKey
        /\ Apart
        /\ VisibleIsWhole
-----------------------------------------------------------------------------
\* What the place of a request says about the rest of it.
LEMMA RequestShape ==
  ASSUME TypeOK, NEW r \in Slot
  PROVE  /\ req[r] # Idle => req[r].ask \in Ask /\ KeyOf(r) \in Key
         /\ At(r, "idle") <=> req[r] = Idle
         /\ At(r, "make") => req[r].branch \in Name
         /\ At(r, "clone") => req[r].branch \in Name /\ req[r].workspace \in Workspace
         /\ req[r].pc \in {"idle", "lock", "branch", "make", "clone"}
<1>1. req[r] \in Request
  BY DEF TypeOK
<1> QED
  BY <1>1 DEF Request, Idle, At, KeyOf, Ask

\* Nothing is there in the initial state.
LEMMA InitInv == Init => IInv
<1> SUFFICES ASSUME Init PROVE IInv
  OBVIOUS
<1>1. \A r \in Slot : req[r] = Idle
  BY DEF Init
<1>2. \A r \in Slot : ~Serving(r) /\ ~At(r, "clone")
  BY <1>1 DEF Serving, At, Idle
<1>3. IsFiniteSet({})
  BY FS_EmptySet
<1>4. TypeOK
  BY <1>2, <1>3 DEF Init, TypeOK, Content, Request
<1> QED
  BY <1>2, <1>4 DEF Init, IInv, Unanswered, Stored, BranchStored, OneBranchPerKey,
     Apart, VisibleIsWhole
-----------------------------------------------------------------------------
\* What the requests that are served after a step have to do with those before.
Continues ==
  /\ req' \in [Slot -> Request]
  /\ lock' \in [Key -> Slot \cup {Nothing}]
  /\ \A s \in Slot : Serving(s)' =>
       Serving(s) /\ req'[s].ask = req[s].ask /\ lock'[KeyOf(s)] = s

\* A request that ends leaves the others as they are.
LEMMA EndsContinues ==
  ASSUME TypeOK, NEW r \in Slot, Serving(r), Ends(r)
  PROVE  /\ Continues
         /\ \A s \in Slot : Serving(s)' => s # r /\ req'[s] = req[s]
         /\ ~At(r, "clone")'
<1>1. req' \in [Slot -> Request] /\ lock' \in [Key -> Slot \cup {Nothing}]
  BY DEF TypeOK, Ends, Request
<1>2. req' = [s \in Slot |-> IF s = r THEN Idle ELSE req[s]]
  BY DEF TypeOK, Ends
<1>3. ~Serving(r)' /\ ~At(r, "clone")'
  BY <1>2 DEF Serving, At, Idle
<1>4. ASSUME NEW s \in Slot, Serving(s)'
      PROVE  /\ s # r /\ req'[s] = req[s] /\ Serving(s)
             /\ lock'[KeyOf(s)] = s
  <2>1. s # r /\ req'[s] = req[s] /\ Serving(s)
    BY <1>2, <1>3, <1>4 DEF Serving, At
  <2>2. KeyOf(s) \in Key /\ lock[KeyOf(s)] = s /\ lock[KeyOf(r)] = r
    BY <2>1, RequestShape DEF TypeOK, Serving
  <2> QED
    BY <2>1, <2>2 DEF Ends, TypeOK
<1> QED
  BY <1>1, <1>3, <1>4 DEF Continues

\* So does one that goes on to its next await.
LEMMA GoesContinues ==
  ASSUME TypeOK, NEW r \in Slot, Serving(r),
         NEW next \in Request, next.ask = req[r].ask, Goes(r, next)
  PROVE  /\ Continues
         /\ req'[r] = next
         /\ \A s \in Slot : s # r => req'[s] = req[s]
<1>1. req' = [s \in Slot |-> IF s = r THEN next ELSE req[s]] /\ lock' = lock
  BY DEF TypeOK, Goes
<1>2. req' \in [Slot -> Request]
  BY <1>1 DEF TypeOK
<1>3. ASSUME NEW s \in Slot, Serving(s)'
      PROVE  Serving(s) /\ req'[s].ask = req[s].ask /\ lock'[KeyOf(s)] = s
  <2>1. Serving(s) /\ req'[s].ask = req[s].ask
    BY <1>1, <1>3 DEF Serving, At
  <2> QED
    BY <2>1, <1>1 DEF TypeOK
<1> QED
  BY <1>1, <1>2, <1>3 DEF Continues, TypeOK
-----------------------------------------------------------------------------
\* What a step keeps that leaves the stored responses and the branches alone.
LEMMA StoreKept ==
  ASSUME IInv, Continues, UNCHANGED <<refs, store, answers>>
  PROVE  /\ Unanswered' /\ Stored' /\ BranchStored' /\ OneBranchPerKey'
         /\ \A s \in Slot : Serving(s)' => lock'[KeyOf(s)'] = s
<1>1. \A k : Saved(k)' = Saved(k) /\ SavedBranch(k)' = SavedBranch(k)
  BY DEF Saved, SavedBranch, store
<1>2. \A s \in Slot : Serving(s)' => Serving(s) /\ KeyOf(s)' = KeyOf(s)
  BY DEF Continues, KeyOf
<1>3. Unanswered'
  <2> SUFFICES ASSUME NEW s \in Slot, Serving(s)' PROVE Saved(KeyOf(s))' = {}
    BY DEF Unanswered
  <2>1. Serving(s) /\ KeyOf(s)' = KeyOf(s)
    BY <1>2
  <2>2. Saved(KeyOf(s)) = {}
    BY <2>1 DEF IInv, Unanswered
  <2> QED
    BY <2>1, <2>2 DEF Saved, store
<1>4. Stored'
  BY DEF IInv, Stored, store
<1>5. BranchStored' /\ OneBranchPerKey'
  BY <1>1 DEF IInv, BranchStored, OneBranchPerKey
<1> QED
  BY <1>2, <1>3, <1>4, <1>5 DEF Continues

\* What it keeps besides if it leaves the directories alone and clones nothing new.
LEMMA DirectoriesKept ==
  ASSUME IInv, UNCHANGED <<dir, pruned>>,
         \A w \in old' : dir[w] # "absent",
         \A s \in Slot : At(s, "clone")' =>
           At(s, "clone") /\ req'[s] = req[s] /\ req[s].workspace \notin old'
  PROVE  /\ Apart' /\ VisibleIsWhole'
         /\ \A s \in Slot : At(s, "clone")' => dir'[req'[s].workspace] = "partial"
<1>1. Apart'
  BY DEF IInv, Apart
<1> QED
  BY <1>1 DEF IInv, TypeOK, VisibleIsWhole

\* A request comes in; nobody serves it yet.
LEMMA ArriveInv ==
  ASSUME IInv, NEW r \in Slot, Arrive(r)
  PROVE  IInv'
<1>1. PICK ask \in Ask : req' = [req EXCEPT ![r] = [pc |-> "lock", ask |-> ask]]
  BY DEF Arrive
<1>2. TypeOK
  BY DEF IInv
<1>3. req' \in [Slot -> Request]
  BY <1>1, <1>2 DEF TypeOK, Request
<1>4. \A s \in Slot : Serving(s)' \/ At(s, "clone")' => s # r /\ req'[s] = req[s]
  BY <1>1, <1>2 DEF TypeOK, Serving, At
<1>5. Continues
  BY <1>2, <1>3, <1>4 DEF Arrive, Continues, TypeOK, Serving, At
<1>6. /\ Unanswered' /\ Stored' /\ BranchStored' /\ OneBranchPerKey'
      /\ \A s \in Slot : Serving(s)' => lock'[KeyOf(s)'] = s
  BY <1>5, StoreKept DEF Arrive, history
<1>7. /\ Apart' /\ VisibleIsWhole'
      /\ \A s \in Slot : At(s, "clone")' => dir'[req'[s].workspace] = "partial"
  <2>1. \A s \in Slot : At(s, "clone")' => At(s, "clone") /\ req'[s] = req[s]
    BY <1>4 DEF At
  <2> QED
    BY <2>1, <1>2, DirectoriesKept DEF Arrive, history, IInv, Apart, TypeOK
<1>8. TypeOK'
  BY <1>2, <1>3, <1>6, <1>7 DEF TypeOK, Arrive, store, history
<1> QED
  BY <1>6, <1>7, <1>8 DEF IInv
-----------------------------------------------------------------------------
\* A request enters its critical section, or is answered with what is stored.
LEMMA EnterInv ==
  ASSUME IInv, NEW r \in Slot, Enter(r)
  PROVE  IInv'
<1> DEFINE ask == req[r].ask
<1>1. /\ TypeOK /\ Unanswered /\ Stored
      /\ At(r, "lock") /\ ask \in Ask /\ ask.key \in Key /\ ask.mode \in Mode
      /\ KeyOf(r) = ask.key /\ lock[ask.key] = Nothing /\ ~Serving(r)
  BY RequestShape DEF IInv, Enter, At, Idle, Ask, KeyOf, KeyIsFree, Serving
<1>2. \A s \in Slot : Serving(s) => KeyOf(s) # ask.key
  BY <1>1, NothingIsNew DEF TypeOK
<1>3. CASE Saved(ask.key) = {}
  <2> DEFINE next == [pc |-> FirstStep(ask), ask |-> ask, branch |-> Nothing]
  <2>1. /\ req' = [req EXCEPT ![r] = next]
        /\ lock' = [lock EXCEPT ![ask.key] = r]
        /\ UNCHANGED answers
    BY <1>1, <1>3 DEF Enter
  <2>2. next \in Request /\ next.pc \in {"make", "branch"} /\ next.ask = ask
    BY <1>1 DEF FirstStep, Request, Name
  <2>3. req' = [s \in Slot |-> IF s = r THEN next ELSE req[s]]
    BY <1>1, <2>1 DEF TypeOK
  <2>4. req' \in [Slot -> Request] /\ lock' \in [Key -> Slot \cup {Nothing}]
    BY <1>1, <2>1, <2>2, <2>3 DEF TypeOK
  <2>5. \A s \in Slot : s # r /\ Serving(s)' => Serving(s) /\ KeyOf(s)' = KeyOf(s)
    BY <2>3 DEF Serving, At, KeyOf
  <2>6. KeyOf(r)' = ask.key
    BY <2>2, <2>3 DEF KeyOf
  <2>7. \A s \in Slot : Serving(s)' => lock'[KeyOf(s)'] = s
    <3> SUFFICES ASSUME NEW s \in Slot, Serving(s)' PROVE lock'[KeyOf(s)'] = s
      OBVIOUS
    <3>1. CASE s = r
      BY <3>1, <1>1, <2>1, <2>6 DEF TypeOK
    <3>2. CASE s # r
      <4>1. Serving(s) /\ KeyOf(s)' = KeyOf(s) /\ KeyOf(s) # ask.key /\ KeyOf(s) \in Key
        BY <3>2, <2>5, <1>1, <1>2, RequestShape DEF Serving
      <4> QED
        BY <4>1, <1>1, <2>1 DEF TypeOK
    <3> QED
      BY <3>1, <3>2
  <2>8. Unanswered'
    <3> SUFFICES ASSUME NEW s \in Slot, Serving(s)' PROVE Saved(KeyOf(s))' = {}
      BY DEF Unanswered
    <3>1. Saved(KeyOf(s)') = {}
      BY <1>1, <1>3, <2>5, <2>6 DEF Unanswered
    <3> QED
      BY <3>1 DEF Saved, Enter, store
  <2>9. Stored' /\ BranchStored' /\ OneBranchPerKey'
    BY <2>1 DEF Enter, store, IInv, Stored, BranchStored, OneBranchPerKey, SavedBranch
  <2>10. /\ Apart' /\ VisibleIsWhole'
         /\ \A s \in Slot : At(s, "clone")' => dir'[req'[s].workspace] = "partial"
    <3>1. \A s \in Slot : At(s, "clone")' => At(s, "clone") /\ req'[s] = req[s]
      BY <2>2, <2>3 DEF At
    <3> QED
      BY <3>1, <1>1, DirectoriesKept DEF Enter, IInv, Apart, TypeOK
  <2>11. TypeOK'
    BY <1>1, <2>1, <2>4, <2>7, <2>10 DEF TypeOK, Enter, store
  <2> QED
    BY <2>8, <2>9, <2>10, <2>11 DEF IInv
<1>4. CASE Saved(ask.key) # {}
  <2>1. /\ req' = [req EXCEPT ![r] = Idle] /\ UNCHANGED lock
        /\ answers' = answers \cup {s \in Saved(ask.key) : s.ask = ask}
    BY <1>1, <1>4 DEF Enter
  <2>2. req' = [s \in Slot |-> IF s = r THEN Idle ELSE req[s]]
    BY <1>1, <2>1 DEF TypeOK
  <2>3. req' \in [Slot -> Request]
    BY <1>1, <2>2 DEF TypeOK, Request
  <2>4. \A s \in Slot : Serving(s)' =>
          Serving(s) /\ req'[s] = req[s] /\ KeyOf(s)' = KeyOf(s)
    BY <2>2 DEF Serving, At, Idle, KeyOf
  <2>5. Unanswered'
    <3> SUFFICES ASSUME NEW s \in Slot, Serving(s)' PROVE Saved(KeyOf(s))' = {}
      BY DEF Unanswered
    <3>1. Saved(KeyOf(s)') = {}
      BY <1>1, <2>4 DEF Unanswered
    <3> QED
      BY <3>1 DEF Saved, Enter, store
  <2>6. Stored' /\ answers' \subseteq saved
    BY <1>1, <2>1 DEF Enter, store, Stored, Saved
  <2>7. BranchStored' /\ OneBranchPerKey'
    BY DEF Enter, store, IInv, BranchStored, OneBranchPerKey, SavedBranch
  <2>8. /\ Apart' /\ VisibleIsWhole'
        /\ \A s \in Slot : At(s, "clone")' => dir'[req'[s].workspace] = "partial"
    <3>1. \A s \in Slot : At(s, "clone")' => At(s, "clone") /\ req'[s] = req[s]
      BY <2>2 DEF At, Idle
    <3> QED
      BY <3>1, <1>1, DirectoriesKept DEF Enter, IInv, Apart, TypeOK
  <2>9. TypeOK'
    BY <1>1, <2>1, <2>3, <2>4, <2>6, <2>8 DEF TypeOK, Enter, store
  <2> QED
    BY <2>5, <2>6, <2>7, <2>8, <2>9 DEF IInv
<1> QED
  BY <1>3, <1>4

\* A request gives up; the directory that it made may be gone.
LEMMA FailsInv ==
  ASSUME IInv, NEW r \in Slot, Fails(r)
  PROVE  IInv'
<1>1. TypeOK /\ Serving(r) /\ Ends(r)
  BY RequestShape DEF IInv, Fails, Serving
<1>2. /\ Continues
      /\ \A s \in Slot : Serving(s)' => s # r /\ req'[s] = req[s]
      /\ ~At(r, "clone")'
  BY <1>1, EndsContinues
<1>3. /\ Unanswered' /\ Stored' /\ BranchStored' /\ OneBranchPerKey'
      /\ \A s \in Slot : Serving(s)' => lock'[KeyOf(s)'] = s
  BY <1>2, StoreKept DEF Fails, history
<1>4. \A s \in Slot : At(s, "clone")' => s # r /\ At(s, "clone") /\ req'[s] = req[s]
  BY <1>2 DEF Serving, At
<1>5. CASE dir' = dir
  <2>1. /\ Apart' /\ VisibleIsWhole'
        /\ \A s \in Slot : At(s, "clone")' => dir'[req'[s].workspace] = "partial"
    BY <1>1, <1>4, <1>5, DirectoriesKept DEF Fails, history, IInv, Apart, TypeOK
  <2>2. TypeOK'
    BY <1>1, <1>2, <1>3, <1>5, <2>1 DEF TypeOK, Fails, store, history, Continues
  <2> QED
    BY <1>3, <2>1, <2>2 DEF IInv
<1>6. CASE dir' # dir
  <2>1. At(r, "clone") /\ req[r].workspace \in Workspace
    BY <1>1, <1>6, RequestShape DEF Fails
  <2>2. dir' = [dir EXCEPT ![req[r].workspace] = "absent"]
    <3>1. PICK c \in {"absent", dir[req[r].workspace]} :
             dir' = [dir EXCEPT ![req[r].workspace] = c]
      BY <2>1 DEF Fails
    <3>2. c # dir[req[r].workspace]
      BY <3>1, <1>1, <1>6, <2>1 DEF TypeOK
    <3> QED
      BY <3>1, <3>2
  <2>3. \A s \in Slot : At(s, "clone")' => dir'[req'[s].workspace] = "partial"
    <3> SUFFICES ASSUME NEW s \in Slot, At(s, "clone")'
                 PROVE  dir'[req'[s].workspace] = "partial"
      OBVIOUS
    <3>1. s # r /\ At(s, "clone") /\ req'[s] = req[s]
      BY <1>4
    <3>2. req[s].workspace # req[r].workspace /\ req[s].workspace \in Workspace
      BY <1>1, <2>1, <3>1, RequestShape DEF IInv, Apart
    <3> QED
      BY <3>1, <3>2, <2>2, <1>1 DEF TypeOK
  <2>4. Apart'
    BY <1>1, <1>4, <2>1, <2>2 DEF IInv, Apart, Fails, TypeOK
  <2>5. VisibleIsWhole'
    BY <1>1, <2>1, <2>2 DEF IInv, VisibleIsWhole, TypeOK, Fails, history
  <2>6. dir' \in [Workspace -> Content]
    BY <1>1, <2>1, <2>2 DEF TypeOK, Content
  <2>7. TypeOK'
    BY <1>1, <1>2, <1>3, <2>3, <2>6 DEF TypeOK, Fails, store, history, Continues
  <2> QED
    BY <1>3, <2>4, <2>5, <2>7 DEF IInv
<1> QED
  BY <1>5, <1>6
-----------------------------------------------------------------------------
\* The clone that a request finishes is complete, and is nobody else's.
LEMMA CloneFinished ==
  ASSUME IInv, NEW r \in Slot, At(r, "clone"), Ends(r), UNCHANGED <<old, pruned>>,
         dir' = [dir EXCEPT ![req[r].workspace] = "ready"]
  PROVE  /\ dir' \in [Workspace -> Content] /\ Apart' /\ VisibleIsWhole'
         /\ \A s \in Slot : At(s, "clone")' => dir'[req'[s].workspace] = "partial"
<1>1. TypeOK /\ Serving(r) /\ req[r].workspace \in Workspace
  BY RequestShape DEF IInv, Serving, At
<1>2. \A s \in Slot : At(s, "clone")' => s # r /\ At(s, "clone") /\ req'[s] = req[s]
  BY <1>1, EndsContinues DEF Serving, At
<1>3. dir' \in [Workspace -> Content]
  BY <1>1 DEF TypeOK, Content
<1>4. ASSUME NEW s \in Slot, At(s, "clone")'
      PROVE  dir'[req'[s].workspace] = "partial"
  <2>1. s # r /\ At(s, "clone") /\ req'[s] = req[s]
    BY <1>2, <1>4
  <2>2. req[s].workspace # req[r].workspace /\ req[s].workspace \in Workspace
    BY <1>1, <2>1, RequestShape DEF IInv, Apart
  <2> QED
    BY <2>1, <2>2, <1>1 DEF TypeOK
<1>5. Apart'
  BY <1>1, <1>2 DEF IInv, Apart, TypeOK
<1>6. VisibleIsWhole'
  BY <1>1 DEF IInv, VisibleIsWhole, TypeOK
<1> QED
  BY <1>3, <1>4, <1>5, <1>6

\* The response is lost.
LEMMA FinishUnrecordedInv ==
  ASSUME IInv, NEW r \in Slot, FinishUnrecorded(r)
  PROVE  IInv'
<1>1. TypeOK /\ Serving(r) /\ Ends(r)
  BY DEF IInv, FinishUnrecorded, Serving, At
<1>2. Continues
  BY <1>1, EndsContinues
<1>3. /\ Unanswered' /\ Stored' /\ BranchStored' /\ OneBranchPerKey'
      /\ \A s \in Slot : Serving(s)' => lock'[KeyOf(s)'] = s
  BY <1>2, StoreKept DEF FinishUnrecorded, history
<1>4. /\ dir' \in [Workspace -> Content] /\ Apart' /\ VisibleIsWhole'
      /\ \A s \in Slot : At(s, "clone")' => dir'[req'[s].workspace] = "partial"
  BY <1>1, CloneFinished DEF FinishUnrecorded, history
<1>5. TypeOK'
  BY <1>1, <1>2, <1>3, <1>4 DEF TypeOK, FinishUnrecorded, store, history, Continues
<1> QED
  BY <1>3, <1>4, <1>5 DEF IInv

\* The response is stored, while the key is still locked, and sent.
LEMMA FinishInv ==
  ASSUME IInv, NEW r \in Slot, Finish(r)
  PROVE  IInv'
<1>1. /\ TypeOK /\ Unanswered /\ Stored /\ Serving(r) /\ Ends(r)
      /\ KeyOf(r) \in Key /\ lock[KeyOf(r)] = r /\ Saved(KeyOf(r)) = {}
  BY RequestShape DEF IInv, Finish, Serving, At, TypeOK, Unanswered
<1>2. /\ Continues
      /\ \A s \in Slot : Serving(s)' => s # r /\ req'[s] = req[s]
  BY <1>1, EndsContinues
<1>3. Response(r) \in Answer /\ Response(r).ask.key = KeyOf(r)
  BY <1>1, RequestShape DEF Finish, Response, Answer, KeyOf, Serving, At
<1>4. /\ saved' = saved \cup {Response(r)}
      /\ answers' = answers \cup {Response(r)}
  BY <1>1 DEF Finish
<1>5. Unanswered'
  <2> SUFFICES ASSUME NEW s \in Slot, Serving(s)' PROVE Saved(KeyOf(s))' = {}
    BY DEF Unanswered
  <2>1. s # r /\ Serving(s) /\ KeyOf(s)' = KeyOf(s)
    BY <1>2 DEF Continues, KeyOf
  <2>2. KeyOf(s) # KeyOf(r) /\ Saved(KeyOf(s)) = {}
    BY <1>1, <2>1 DEF TypeOK, Unanswered
  <2> QED
    BY <1>3, <1>4, <2>1, <2>2 DEF Saved
<1>6. Stored'
  <2>1. \A s \in saved : s.ask.key # KeyOf(r)
    BY <1>1 DEF Saved
  <2> QED
    BY <1>1, <1>3, <1>4, <2>1 DEF Stored
<1>7. BranchStored' /\ OneBranchPerKey'
  BY DEF Finish, IInv, BranchStored, OneBranchPerKey, SavedBranch
<1>8. \A s \in Slot : Serving(s)' => lock'[KeyOf(s)'] = s
  BY <1>2 DEF Continues, KeyOf
<1>9. /\ dir' \in [Workspace -> Content] /\ Apart' /\ VisibleIsWhole'
      /\ \A s \in Slot : At(s, "clone")' => dir'[req'[s].workspace] = "partial"
  BY <1>1, CloneFinished DEF Finish
<1>10. TypeOK'
  BY <1>1, <1>2, <1>3, <1>4, <1>8, <1>9 DEF TypeOK, Finish, Continues
<1> QED
  BY <1>5, <1>6, <1>7, <1>9, <1>10 DEF IInv
-----------------------------------------------------------------------------
\* A branch is created only for a key that has none stored, and stored if it is
\* known to exist.
LEMMA BranchInv ==
  ASSUME IInv, NEW r \in Slot, Branch(r)
  PROVE  IInv'
<1> DEFINE name == NameOf(r)
           stored == SavedBranch(KeyOf(r))
           mode == req[r].ask.mode
           Has(b) == Goes(r, [pc |-> "make", ask |-> req[r].ask, branch |-> b])
           new == [key |-> KeyOf(r), mode |-> mode, branch |-> name]
           Saves == branchSaved' = branchSaved \cup {new}
<1>1. /\ TypeOK /\ Unanswered /\ Stored /\ BranchStored /\ OneBranchPerKey
      /\ At(r, "branch") /\ Serving(r)
      /\ req[r].ask \in Ask /\ KeyOf(r) \in Key /\ mode \in Mode
  BY RequestShape DEF IInv, Branch, Serving, At, Idle, Ask, KeyOf
<1>2. name \in Name
  BY <1>1, FS_CardinalityType DEF NameOf, Name, TypeOK
<1>3. \/ /\ \E b \in Name : Has(b) \/ Ends(r)
         /\ UNCHANGED <<refs, branchSaved>>
      \/ /\ stored = {} /\ refs' = refs \cup {Ref(r, name, TRUE)}
         /\ Saves /\ Has(name)
      \/ /\ Has(name) \/ Ends(r)
         /\ Saves \/ UNCHANGED branchSaved
         /\ UNCHANGED refs
      \/ /\ refs' = refs \cup {Ref(r, name, FALSE)}
         /\ Ends(r) /\ UNCHANGED branchSaved
  <2>1. \A s \in stored : s.branch \in Name
    BY <1>1 DEF SavedBranch, TypeOK
  <2> QED
    BY <2>1 DEF Branch
<1>4. (\E b \in Name : Has(b)) \/ Ends(r)
  BY <1>2, <1>3
<1>5. /\ Continues
      /\ \A s \in Slot : At(s, "clone")' => At(s, "clone") /\ req'[s] = req[s]
  <2>1. CASE Ends(r)
    BY <2>1, <1>1, EndsContinues DEF Serving, At
  <2>2. ASSUME NEW b \in Name, Has(b)
        PROVE  /\ Continues
               /\ \A s \in Slot : At(s, "clone")' => At(s, "clone") /\ req'[s] = req[s]
    <3> DEFINE next == [pc |-> "make", ask |-> req[r].ask, branch |-> b]
    <3>1. next \in Request /\ next.ask = req[r].ask /\ next.pc = "make"
      BY <1>1, <2>2 DEF Request
    <3>2. /\ Continues /\ req'[r] = next
          /\ \A s \in Slot : s # r => req'[s] = req[s]
      BY <1>1, <2>2, <3>1, GoesContinues
    <3> QED
      BY <3>1, <3>2 DEF At
  <2> QED
    BY <1>4, <2>1, <2>2
<1>6. /\ Unanswered' /\ Stored'
      /\ \A s \in Slot : Serving(s)' => lock'[KeyOf(s)'] = s
  <2>1. \A s \in Slot : Serving(s)' => Serving(s) /\ KeyOf(s)' = KeyOf(s)
    BY <1>5 DEF Continues, KeyOf
  <2>2. UNCHANGED <<saved, answers>>
    BY DEF Branch, history
  <2>3. ASSUME NEW s \in Slot, Serving(s)' PROVE Saved(KeyOf(s))' = {}
    BY <1>1, <2>1, <2>2, <2>3 DEF Unanswered, Saved
  <2> QED
    BY <1>1, <1>5, <2>1, <2>2, <2>3 DEF Unanswered, Stored, Continues
<1>7. /\ Apart' /\ VisibleIsWhole'
      /\ \A s \in Slot : At(s, "clone")' => dir'[req'[s].workspace] = "partial"
  BY <1>1, <1>5, DirectoriesKept DEF Branch, history, IInv, Apart, TypeOK
<1>8. /\ branchSaved \subseteq branchSaved'
      /\ branchSaved' \subseteq [key: Key, mode: Mode, branch: Name]
  <2>1. new \in [key: Key, mode: Mode, branch: Name]
    BY <1>1, <1>2
  <2> QED
    BY <1>1, <1>3, <2>1 DEF TypeOK
<1>9. /\ refs' \subseteq [name: Name, key: Key, known: BOOLEAN] /\ IsFiniteSet(refs')
      /\ BranchStored' /\ OneBranchPerKey'
  <2>1. \A b \in refs : b.known => SavedBranch(b.key)' # {}
    BY <1>1, <1>8 DEF BranchStored, SavedBranch
  <2>2. CASE UNCHANGED refs
    BY <2>1, <2>2, <1>1 DEF TypeOK, BranchStored, OneBranchPerKey
  <2>3. ASSUME NEW known \in BOOLEAN, refs' = refs \cup {Ref(r, name, known)},
               known => stored = {} /\ Saves
        PROVE  /\ refs' \subseteq [name: Name, key: Key, known: BOOLEAN]
               /\ IsFiniteSet(refs')
               /\ BranchStored' /\ OneBranchPerKey'
    <3> DEFINE ref == Ref(r, name, known)
    <3>1. /\ ref \in [name: Name, key: Key, known: BOOLEAN]
          /\ ref.key = KeyOf(r) /\ ref.known = known
      BY <1>1, <1>2 DEF Ref
    <3>2. IsFiniteSet(refs')
      BY <2>3, <1>1, FS_AddElement DEF TypeOK
    <3>3. known => new \in branchSaved' /\ new.key = KeyOf(r)
      BY <2>3
    <3>4. BranchStored'
      <4> SUFFICES ASSUME NEW b \in refs', b.known
                   PROVE  \E s \in branchSaved' : s.key = b.key
        BY DEF BranchStored, SavedBranch
      <4>1. CASE b \in refs
        BY <4>1, <2>1 DEF SavedBranch
      <4>2. CASE b = ref
        BY <4>2, <3>1, <3>3
      <4> QED
        BY <2>3, <4>1, <4>2
    <3>5. \A b \in refs : b.known /\ known => b.key # KeyOf(r)
      BY <1>1, <2>3 DEF BranchStored
    <3>6. OneBranchPerKey'
      BY <1>1, <2>3, <3>1, <3>5 DEF OneBranchPerKey
    <3> QED
      BY <1>1, <2>3, <3>1, <3>2, <3>4, <3>6 DEF TypeOK
  <2> QED
    BY <1>3, <2>2, <2>3
<1>10. TypeOK'
  BY <1>1, <1>5, <1>6, <1>7, <1>8, <1>9 DEF TypeOK, Branch, history, Continues
<1> QED
  BY <1>6, <1>7, <1>9, <1>10 DEF IInv
-----------------------------------------------------------------------------
\* A prune touches what is old and idle, and no clone; the new directory has
\* no metadata.
LEMMA MakeInv ==
  ASSUME IInv, NEW r \in Slot, Make(r)
  PROVE  IInv'
<1>1. /\ TypeOK /\ VisibleIsWhole /\ Apart
      /\ At(r, "make") /\ Serving(r) /\ req[r].ask \in Ask /\ req[r].branch \in Name
      /\ KeyOf(r) \in Key
  BY RequestShape DEF IInv, Make, Serving, At, Idle
<1>2. PICK left \in [Expired -> Content], fresh \in SUBSET Expired, new \in Unused :
        LET gone == {w \in Expired : left[w] = "absent"}
        IN /\ \A w \in Expired \ gone : left[w] \in Remains(w)
           /\ dir' = [w \in Workspace |-> IF w = new THEN Made
                                           ELSE IF w \in Expired THEN left[w] ELSE dir[w]]
           /\ old' = old \ (gone \cup fresh)
           /\ pruned' = (pruned \cup Expired) \ {new}
           /\ madeFor' = [madeFor EXCEPT ![new] = KeyOf(r)]
           /\ Goes(r, [pc |-> "clone", ask |-> req[r].ask,
                       branch |-> req[r].branch, workspace |-> new])
  BY DEF Make
<1> DEFINE next == [pc |-> "clone", ask |-> req[r].ask,
                    branch |-> req[r].branch, workspace |-> new]
<1>3. /\ new \in Workspace /\ dir[new] = "absent"
      /\ Expired \subseteq old /\ Expired \subseteq Workspace
  BY <1>1 DEF Unused, Expired, TypeOK
<1>4. next \in Request /\ next.ask = req[r].ask /\ next.workspace = new
  BY <1>1, <1>3 DEF Request
<1>5. /\ Continues /\ req'[r] = next
      /\ \A s \in Slot : s # r => req'[s] = req[s]
  BY <1>1, <1>2, <1>4, GoesContinues
<1>6. /\ Unanswered' /\ Stored' /\ BranchStored' /\ OneBranchPerKey'
      /\ \A s \in Slot : Serving(s)' => lock'[KeyOf(s)'] = s
  BY <1>5, StoreKept DEF Make
<1>7. \A s \in Slot : s # r /\ At(s, "clone")' =>
        /\ At(s, "clone") /\ req'[s] = req[s] /\ req[s].workspace \in Workspace
        /\ dir[req[s].workspace] = "partial"
        /\ req[s].workspace \notin old /\ req[s].workspace # new
  BY <1>1, <1>3, <1>5, RequestShape DEF At, Apart, TypeOK
<1>8. \A s \in Slot : At(s, "clone")' => dir'[req'[s].workspace] = "partial"
  BY <1>2, <1>3, <1>4, <1>5, <1>7 DEF Made
<1>9. Apart'
  <2>1. old' \subseteq old /\ new \notin old'
    BY <1>1, <1>2, <1>3 DEF Apart
  <2>2. \A w \in old' : dir'[w] # "absent"
    BY <1>1, <1>2, <1>3, <2>1 DEF Apart, TypeOK
  <2> QED
    BY <2>1, <2>2, <1>1, <1>4, <1>5, <1>7 DEF Apart
<1>10. VisibleIsWhole'
  BY <1>1, <1>2, <1>3 DEF VisibleIsWhole, Made
<1>11. dir' \in [Workspace -> Content]
  BY <1>1, <1>2, <1>3 DEF TypeOK, Made, Content
<1>12. /\ old' \subseteq Workspace /\ pruned' \subseteq Workspace
       /\ madeFor' \in [Workspace -> Key \cup {Nothing}]
  BY <1>1, <1>2, <1>3 DEF TypeOK
<1>13. TypeOK'
  BY <1>1, <1>5, <1>6, <1>8, <1>11, <1>12 DEF TypeOK, Make, store, Continues
<1> QED
  BY <1>6, <1>9, <1>10, <1>13 DEF IInv
-----------------------------------------------------------------------------
\* The users of the workspaces, and time, do not touch the service.
LEMMA EnvironmentInv ==
  ASSUME IInv, NEW w \in Workspace, Use(w) \/ Settle(w) \/ Ages(w)
  PROVE  IInv'
<1>1. TypeOK /\ UNCHANGED <<dir, refs, req, lock, store, calls, history>>
  BY DEF IInv, Use, Settle, Ages
<1>2. Continues
  BY <1>1 DEF Continues, TypeOK, Serving, At, KeyOf
<1>3. /\ Unanswered' /\ Stored' /\ BranchStored' /\ OneBranchPerKey'
      /\ \A s \in Slot : Serving(s)' => lock'[KeyOf(s)'] = s
  BY <1>1, <1>2, StoreKept DEF history
<1>4. /\ old' \subseteq Workspace /\ running' \subseteq Workspace
      /\ \A v \in old' : dir[v] # "absent"
      /\ \A s \in Slot : At(s, "clone") => req[s].workspace \notin old'
  BY <1>1 DEF Use, Settle, Ages, TypeOK, IInv, Apart
<1>5. /\ Apart' /\ VisibleIsWhole'
      /\ \A s \in Slot : At(s, "clone")' => dir'[req'[s].workspace] = "partial"
  BY <1>1, <1>4, DirectoriesKept DEF history, At
<1>6. TypeOK'
  BY <1>1, <1>3, <1>4, <1>5 DEF TypeOK, store, history
<1> QED
  BY <1>3, <1>5, <1>6 DEF IInv

\* Nobody is served by a process that died, and nothing was promised.
LEMMA CrashInv ==
  ASSUME IInv, Crash
  PROVE  IInv'
<1>1. TypeOK
  BY DEF IInv
<1>2. \A s \in Slot : ~Serving(s)' /\ ~At(s, "clone")'
  BY DEF Crash, Serving, At, Idle
<1>3. Continues
  BY <1>2 DEF Continues, Crash, Request
<1>4. /\ Unanswered' /\ Stored' /\ BranchStored' /\ OneBranchPerKey'
      /\ \A s \in Slot : Serving(s)' => lock'[KeyOf(s)'] = s
  BY <1>3, StoreKept DEF Crash, history
<1>5. /\ Apart' /\ VisibleIsWhole'
      /\ \A s \in Slot : At(s, "clone")' => dir'[req'[s].workspace] = "partial"
  BY <1>2, DirectoriesKept DEF Crash, history, IInv, Apart
<1>6. TypeOK'
  BY <1>1, <1>3, <1>4, <1>5 DEF TypeOK, Crash, store, history, Continues
<1> QED
  BY <1>4, <1>5, <1>6 DEF IInv

\* Nor does a step of somebody else change anything.
LEMMA StutterInv ==
  ASSUME IInv, UNCHANGED vars
  PROVE  IInv'
BY DEF vars, store, history, IInv, TypeOK, Unanswered, Stored, BranchStored,
   OneBranchPerKey, Apart, VisibleIsWhole, Serving, At, KeyOf, Saved, SavedBranch
-----------------------------------------------------------------------------
\* The inductive invariant: what is stored, locked, created and cloned agree
\* with each other in every reachable state.
THEOREM PrepareInductive == Spec => []IInv
<1>1. ASSUME IInv, [Next]_vars PROVE IInv'
  <2>1. ASSUME NEW r \in Slot,
               \/ Arrive(r) \/ Enter(r) \/ Branch(r) \/ Make(r)
               \/ Finish(r) \/ FinishUnrecorded(r) \/ Fails(r)
        PROVE  IInv'
    BY <1>1, <2>1, ArriveInv, EnterInv, BranchInv, MakeInv, FinishInv,
       FinishUnrecordedInv, FailsInv
  <2>2. ASSUME NEW w \in Workspace, Use(w) \/ Settle(w) \/ Ages(w)
        PROVE  IInv'
    BY <1>1, <2>2, EnvironmentInv
  <2> QED
    BY <1>1, <2>1, <2>2, CrashInv, StutterInv DEF Next
<1> QED
  BY <1>1, InitInv, PTL DEF Spec

\* Every variable keeps its type, and whoever is served holds the lock of its key.
THEOREM PrepareTypeCorrect == Spec => []TypeOK
<1>1. IInv => TypeOK
  BY DEF IInv
<1> QED
  BY <1>1, PrepareInductive, PTL

\* All responses of prepare to one key are the same, because what is answered is
\* what is stored, and it is stored once, under the lock.
THEOREM OneAnswerPerKey == Spec => []AnswersAgree
<1>1. IInv => AnswersAgree
  BY DEF IInv, Stored, AnswersAgree
<1> QED
  BY <1>1, PrepareInductive, PTL

\* create_work_branch stores what it created before the lock of the key is
\* released, so a retry finds it.
THEOREM BranchCreatedOnce == Spec => []OneBranchPerKey
<1>1. IInv => OneBranchPerKey
  BY DEF IInv
<1> QED
  BY <1>1, PrepareInductive, PTL

\* Metadata are written last, into a directory that no other request has.
THEOREM MetadataMeanWhole == Spec => []VisibleIsWhole
<1>1. IInv => VisibleIsWhole
  BY DEF IInv
<1> QED
  BY <1>1, PrepareInductive, PTL

\* A prune removes only workspaces that are old and idle, and neither a failing
\* nor a finishing preparation touches a workspace that is ready.
THEOREM UsedWorkspaceKept == Spec => KeptWhileUsed
<1> DEFINE Kept == \A w \in Workspace :
             dir[w] = "ready" /\ (w \in running \/ w \notin old) => dir'[w] = "ready"
<1>1. ASSUME IInv, [Next]_vars PROVE [Kept]_dir
  <2>1. TypeOK
    BY <1>1 DEF IInv
  <2>2. ASSUME NEW r \in Slot, Make(r) PROVE Kept
    BY <2>1, <2>2 DEF Make, Unused, Expired, TypeOK
  <2>3. ASSUME NEW r \in Slot, Finish(r) \/ FinishUnrecorded(r) PROVE Kept
    BY <2>1, <2>3 DEF Finish, FinishUnrecorded, TypeOK
  <2>4. ASSUME NEW r \in Slot, Fails(r) PROVE Kept
    BY <2>1, <2>4 DEF Fails, TypeOK
  <2>5. ASSUME NEW r \in Slot, Arrive(r) \/ Enter(r) \/ Branch(r) PROVE UNCHANGED dir
    BY <2>5 DEF Arrive, Enter, Branch
  <2>6. ASSUME NEW w \in Workspace, Use(w) \/ Settle(w) \/ Ages(w) PROVE UNCHANGED dir
    BY <2>6 DEF Use, Settle, Ages
  <2>7. Crash \/ UNCHANGED vars => UNCHANGED dir
    BY DEF Crash, vars
  <2> QED
    BY <1>1, <2>2, <2>3, <2>4, <2>5, <2>6, <2>7 DEF Next
<1> QED
  BY <1>1, PrepareInductive, PTL DEF Spec, KeptWhileUsed
=============================================================================
