------------------------ MODULE WorkspacePublishProofs ------------------------
(***************************************************************************)
(* Theorems about WorkspacePublish, for any tree, policy and number of     *)
(* requests: commit_and_push never rewinds the branch, builds only on what *)
(* the client has seen, reports what it published and commits once.        *)
(***************************************************************************)
EXTENDS WorkspacePublish, TLAPS

By == {Commands, Others} \cup [who: {"request"}, ask: Ask, alone: BOOLEAN]
Commits == [past: SUBSET Nat, tree: Tree, by: By]
Pushes == [commit: Nat, tip: Nat, ask: Ask, files: Files, alone: BOOLEAN, restaged: Files]

\* What the coroutine of a request may know.
Fetching == [pc: {"fetch"}, ask: Ask, alone: BOOLEAN]
Looking == [pc: {"head", "status", "add", "staged", "unstage"}, ask: Ask, alone: BOOLEAN,
            base: Nat, old: Nat]
Sending == [pc: {"unstage", "commit", "newhead", "push"}, ask: Ask, alone: BOOLEAN,
            files: Files, new: Nat, restaged: Files]
Known == {Idle} \cup Fetching \cup Looking \cup Sending

Types ==
  /\ commits \in Seq(Commits) /\ Len(commits) >= 2
  /\ remote \in 2..Len(commits) /\ head \in 2..Len(commits)
  /\ index \in Tree /\ work \in Tree
  /\ req \in [Slot -> Known]
  /\ late \subseteq Pushes /\ published \subseteq Pushes

\* Ancestry is a reflexive and transitive order that follows the order of
\* creation, and all build upon the commit that the workspace was prepared at.
Ancestry ==
  \A c \in 1..Len(commits) :
    /\ History(c) \subseteq 1..c /\ c \in History(c)
    /\ \A d \in History(c) : History(d) \subseteq History(c)
    /\ c >= 2 => {1, 2} \subseteq History(c)

\* The workspace never builds on what another clone pushed since.
Seen(c) == \A d \in History(c) : commits[d].by = Others => d \in {1, 2}

\* Who is alone is the only one.
OneAlone ==
  \A q, r \in Slot : req[q] # Idle /\ req[r] # Idle /\ req[q].alone => q = r

\* The files are those that differ from what the client expected, all allowed,
\* but for what commands have staged since.
Honest(q, tree) ==
  LET diff == Diff(TreeOf(q.ask.expected), tree)
  IN q.files \ q.restaged = diff \ q.restaged /\ diff \cap Denied \subseteq q.restaged

\* What request r knows of the branch and of the workspace; when it is alone,
\* nothing has changed since it looked.
Progress(r) ==
  LET ask == req[r].ask IN
  /\ req[r] # Idle /\ ~At(r, "fetch") => ask.expected \in 2..Len(commits)
  /\ At(r, "head") => req[r].base = ask.expected
  /\ At(r, "status") => /\ req[r].base = ask.expected
                        /\ req[r].old \in History(head)
                        /\ req[r].alone => req[r].old = head
  /\ req[r].pc \in {"add", "staged", "commit", "newhead", "push"} =>
       ask.expected \in History(head)
  /\ req[r].pc \in {"commit", "newhead", "push"} => ~ask.dry
  /\ req[r].pc \in {"add", "staged", "commit"} /\ req[r].alone => head = ask.expected
  /\ At(r, "commit") /\ req[r].alone => Honest(req[r], index)
  /\ At(r, "newhead") /\ req[r].alone => Honest(req[r], TreeOf(head))
  /\ At(r, "push") => /\ req[r].new \in History(head)
                      /\ req[r].alone => /\ req[r].new = head
                                         /\ Honest(req[r], TreeOf(head))

\* What holds of a push, whenever it lands.
Sound(p) ==
  /\ p.tip \in 2..Len(commits) /\ p.ask.expected \in 2..Len(commits)
  /\ p.commit \in History(p.tip) /\ p.ask.expected \in History(p.tip)
  /\ Seen(p.tip) /\ ~p.ask.dry
  /\ p.alone => p.commit = p.tip /\ Honest(p, TreeOf(p.tip))

\* A request that is alone commits on top of what its client expected, and the
\* workspace keeps that commit.
CommittedOnTop ==
  \A c \in 1..Len(commits) :
    commits[c].by.who = "request" /\ commits[c].by.alone =>
      commits[c].by.ask.expected < c /\ c \in History(head)

PublishInv ==
  /\ Types /\ Ancestry /\ Seen(head) /\ OneAlone
  /\ \A r \in Slot : Progress(r)
  /\ \A p \in late \cup published : Sound(p)
  /\ \A p \in published : p.commit \in History(remote)
  /\ CommittedOnTop /\ RetryCommitsOnce

-----------------------------------------------------------------------------
(***************************************************************************)
(* Facts about the commits.                                                *)
(***************************************************************************)
\* Commits are only added.
Extends == /\ Len(commits') \in Nat /\ Len(commits) <= Len(commits')
           /\ \A c \in 1..Len(commits) : commits'[c] = commits[c]

\* A commit is added on top of its parent, and ancestry stays what it was.
LEMMA Growing ==
  ASSUME Types, Ancestry, NEW parent \in 2..Len(commits), NEW tree \in Tree, NEW by \in By,
         Committed(parent, tree, by)
  PROVE  \E n \in Nat :
           /\ n = Len(commits) + 1 /\ Len(commits') = n
           /\ commits' \in Seq(Commits) /\ Extends
           /\ commits'[n].past = commits[parent].past \cup {n}
           /\ commits'[n].tree = tree /\ commits'[n].by = by
           /\ Ancestry'
<1>1. Len(commits) \in Nat /\ commits \in Seq(Commits)
  BY DEF Types
<1>2. PICK n \in Nat : n = Len(commits) + 1
  BY <1>1
<1>3. PICK new : new = [past |-> History(parent) \cup {n}, tree |-> tree, by |-> by]
  OBVIOUS
<1>4. commits' = Append(commits, new)
  BY <1>2, <1>3 DEF Committed
<1>5. new \in Commits
  <2>1. commits[parent] \in Commits
    BY <1>1
  <2> QED
    BY <1>3, <2>1 DEF Commits, History
<1>6. commits' \in Seq(Commits) /\ Len(commits') = n
  BY <1>1, <1>2, <1>4, <1>5
<1>7. (\A c \in 1..Len(commits) : commits'[c] = commits[c]) /\ commits'[n] = new
  BY <1>1, <1>2, <1>4
<1>8. Extends
  BY <1>1, <1>2, <1>6, <1>7 DEF Extends
<1>9. Ancestry'
  <2>1. ASSUME NEW c \in 1..n
        PROVE  /\ commits'[c].past \subseteq 1..c /\ c \in commits'[c].past
               /\ \A d \in commits'[c].past : commits'[d].past \subseteq commits'[c].past
               /\ c >= 2 => {1, 2} \subseteq commits'[c].past
    <3>1. CASE c \in 1..Len(commits)
      BY <1>1, <1>7, <3>1 DEF Ancestry, History
    <3>2. CASE c = n
      <4>1. commits'[c].past = commits[parent].past \cup {n}
        BY <1>3, <1>7, <3>2 DEF History
      <4>2. /\ commits[parent].past \subseteq 1..parent
            /\ \A d \in commits[parent].past : commits[d].past \subseteq commits[parent].past
            /\ {1, 2} \subseteq commits[parent].past
        BY <1>1 DEF Ancestry, History
      <4>3. \A d \in commits[parent].past : d \in 1..Len(commits)
        BY <1>1, <4>2
      <4>4. \A d \in commits'[c].past : commits'[d].past \subseteq commits'[c].past
        BY <1>7, <3>2, <4>1, <4>2, <4>3
      <4> QED
        BY <1>1, <1>2, <3>2, <4>1, <4>2, <4>3, <4>4
    <3> QED
      BY <1>1, <1>2, <3>1, <3>2
  <2> QED
    BY <1>6, <2>1 DEF Ancestry, History
<1> QED
  BY <1>2, <1>3, <1>6, <1>7, <1>8, <1>9 DEF History

\* What was there stays as it was.
LEMMA Kept ==
  ASSUME Types, Ancestry, Extends, NEW c \in 1..Len(commits)
  PROVE  /\ History(c)' = History(c) /\ TreeOf(c)' = TreeOf(c)
         /\ c \in 1..Len(commits')
         /\ Seen(c) => Seen(c)'
<1>1. Len(commits) \in Nat
  BY DEF Types
<1>2. commits'[c] = commits[c] /\ c \in 1..Len(commits')
  BY <1>1 DEF Extends
<1>3. \A d \in History(c) : d \in 1..Len(commits) /\ commits'[d] = commits[d]
  BY <1>1 DEF Ancestry, Extends
<1> QED
  BY <1>2, <1>3 DEF History, TreeOf, Seen

LEMMA SoundKept ==
  ASSUME Types, Ancestry, Extends, NEW p, Sound(p)
  PROVE  Sound(p)'
<1>1. PICK t \in 1..Len(commits), e \in 1..Len(commits) : t = p.tip /\ e = p.ask.expected
  BY DEF Sound, Types
<1>2. /\ History(t)' = History(t) /\ TreeOf(t)' = TreeOf(t) /\ Seen(t)'
      /\ TreeOf(e)' = TreeOf(e)
  BY <1>1, Kept DEF Sound
<1>3. t \in 2..Len(commits') /\ e \in 2..Len(commits')
  BY <1>1 DEF Sound, Extends, Types
<1> QED
  BY <1>1, <1>2, <1>3 DEF Sound, Honest

\* The program counter tells what a request knows.
LEMMA Shapes ==
  ASSUME Types, NEW r \in Slot
  PROVE  /\ req[r] \in Known
         /\ At(r, "fetch") => req[r] \in Fetching
         /\ req[r].pc \in {"head", "status", "add", "staged"} => req[r] \in Looking
         /\ At(r, "unstage") => req[r] \in Looking \cup Sending
         /\ req[r].pc \in {"commit", "newhead", "push"} => req[r] \in Sending
         /\ At(r, "idle") <=> req[r] = Idle
         /\ req[r] # Idle => req[r].ask \in Ask /\ req[r].alone \in BOOLEAN
  BY DEF Types, Known, Fetching, Looking, Sending, Idle, At

LEMMA SentSound ==
  ASSUME PublishInv, NEW r \in Slot, At(r, "push")
  PROVE  Sent(r) \in Pushes /\ Sound(Sent(r))
<1>1. req[r] \in Sending /\ Progress(r) /\ req[r] # Idle
  BY Shapes DEF PublishInv, At, Idle
<1>2. PICK e \in Nat : e = req[r].ask.expected /\ e \in 2..Len(commits)
  BY <1>1 DEF Progress, At, PublishInv, Types
<1>3. /\ Sent(r).commit = req[r].new /\ Sent(r).tip = head /\ Sent(r).ask = req[r].ask
      /\ Sent(r).files = req[r].files /\ Sent(r).alone = req[r].alone
      /\ Sent(r).restaged = req[r].restaged
      /\ Sent(r) \in Pushes
  BY <1>1 DEF Sent, Sending, Pushes, PublishInv, Types
<1> QED
  BY <1>1, <1>2, <1>3 DEF Sound, Progress, Honest, At, PublishInv, Types

\* What another request knows stays true, when its commits are kept and, if it
\* is alone, its workspace is untouched.
LEMMA ProgressKept ==
  ASSUME PublishInv, Extends, NEW s \in Slot,
         head' \in 1..Len(commits'), History(head) \subseteq History(head)',
         \/ /\ req'[s] = req[s]
            /\ req[s] # Idle /\ req[s].alone =>
                 head' = head /\ (At(s, "commit") => index' = index)
         \/ req[s] # Idle /\ req'[s] = [req[s] EXCEPT !.alone = FALSE]
  PROVE  Progress(s)'
<1> USE DEF PublishInv
<1>1. CASE req[s] = Idle
  <2>1. req'[s] = Idle
    BY <1>1
  <2> QED
    BY <2>1 DEF Progress, At, Idle
<1>2. CASE req[s] # Idle
  <2>1. /\ req'[s].pc = req[s].pc /\ req'[s].ask = req[s].ask
        /\ req'[s].alone => /\ req[s].alone /\ head' = head
                            /\ At(s, "commit") => index' = index
        /\ req'[s] # Idle
        /\ req[s].pc \in {"head", "status", "add", "staged"} =>
             req'[s].base = req[s].base /\ req'[s].old = req[s].old
        /\ req[s].pc \in {"commit", "newhead", "push"} =>
             /\ req'[s].files = req[s].files /\ req'[s].new = req[s].new
             /\ req'[s].restaged = req[s].restaged
    BY <1>2, Shapes DEF Known, Fetching, Looking, Sending, Idle, At
  <2>2. Progress(s)
    OBVIOUS
  <2>3. CASE At(s, "fetch") \/ At(s, "unstage") \/ At(s, "head")
    BY <1>2, <2>1, <2>2, <2>3 DEF Progress, At, Extends, Types
  <2>4. CASE req[s].pc \in {"status", "add", "staged", "commit", "newhead", "push"}
    <3>1. PICK e \in Nat : e = req[s].ask.expected /\ e \in 2..Len(commits)
      BY <1>2, <2>2, <2>4 DEF Progress, At, Types
    <3>2. TreeOf(e)' = TreeOf(e) /\ e \in 2..Len(commits')
      BY <3>1, Kept DEF Extends, Types, TreeOf
    <3>3. head' = head => TreeOf(head)' = TreeOf(head)
      BY Kept DEF Types, TreeOf
    <3> QED
      BY <1>2, <2>1, <2>2, <2>4, <3>1, <3>2, <3>3 DEF Progress, At, Honest
  <2> QED
    BY <1>2, <2>3, <2>4, Shapes DEF Known, Fetching, Looking, Sending, At
<1> QED
  BY <1>1, <1>2

-----------------------------------------------------------------------------
(***************************************************************************)
(* The kinds of steps.                                                     *)
(***************************************************************************)
\* One request moves: it stays the only one that may be alone, and the others
\* know what they knew.
LEMMA OneMoves ==
  ASSUME PublishInv, NEW r \in Slot, req[r] # Idle,
         NEW new \in Known, new # Idle => new.alone = req[r].alone,
         Goes(r, new), Extends,
         head' \in 1..Len(commits'), History(head) \subseteq History(head)'
  PROVE  /\ req' \in [Slot -> Known] /\ req'[r] = new
         /\ \A s \in Slot \ {r} : req'[s] = req[s]
         /\ OneAlone' /\ \A s \in Slot \ {r} : Progress(s)'
<1> USE DEF PublishInv
<1>1. /\ req' \in [Slot -> Known] /\ req'[r] = new
      /\ \A s \in Slot \ {r} : req'[s] = req[s]
  BY DEF Goes, Types
<1>2. OneAlone'
  BY <1>1 DEF OneAlone
<1>3. \A s \in Slot \ {r} : req[s] # Idle => ~req[s].alone
  BY DEF OneAlone
<1> QED
  BY <1>1, <1>2, <1>3, ProgressKept

\* Nothing happens to the commits and the branches.
LEMMA Quiet ==
  ASSUME PublishInv, UNCHANGED <<commits, head, remote, published>>,
         index' \in Tree, work' \in Tree, req' \in [Slot -> Known], OneAlone',
         \A r \in Slot : Progress(r)',
         \A p \in late' : p \in late \/ \E r \in Slot : At(r, "push") /\ p = Sent(r)
  PROVE  PublishInv'
<1> USE DEF PublishInv
<1>1. \A p \in late' : p \in Pushes /\ Sound(p)
  BY SentSound DEF Types
<1>2. Extends
  BY DEF Extends, Types
<1>3. \A p \in late' \cup published' : Sound(p)'
  BY <1>1, <1>2, SoundKept
<1>4. Types' /\ Ancestry' /\ Seen(head)' /\ CommittedOnTop' /\ RetryCommitsOnce'
  BY <1>1 DEF Types, Ancestry, Seen, CommittedOnTop, RetryCommitsOnce, History
<1>5. \A p \in published' : (p.commit \in History(remote))'
  BY DEF History
<1> QED
  BY <1>3, <1>4, <1>5

\* A request moves, perhaps with the index, and knows what it should.
LEMMA Moving ==
  ASSUME PublishInv, NEW r \in Slot, req[r] # Idle,
         NEW new \in Known, new # Idle => new.alone = req[r].alone, Goes(r, new),
         UNCHANGED <<commits, head, work, remote, published>>, index' \in Tree,
         req'[r] = new => Progress(r)',
         late' \in {late, late \cup {Sent(r)}}, late' # late => At(r, "push")
  PROVE  PublishInv'
<1>1. /\ Extends /\ head' \in 1..Len(commits') /\ History(head) \subseteq History(head)'
  BY DEF Extends, History, PublishInv, Types
<1>2. /\ req' \in [Slot -> Known] /\ req'[r] = new
      /\ OneAlone' /\ \A s \in Slot \ {r} : Progress(s)'
  BY <1>1, OneMoves
<1>3. \A p \in late' : p \in late \/ \E s \in Slot : At(s, "push") /\ p = Sent(s)
  OBVIOUS
<1>4. work' \in Tree
  BY DEF PublishInv, Types
<1> QED
  BY <1>2, <1>3, <1>4, Quiet

\* A request ends, without having pushed.
LEMMA Ending ==
  ASSUME PublishInv, NEW r \in Slot, req[r] # Idle, Ends(r),
         UNCHANGED <<commits, head, work, remote, published>>, index' \in Tree,
         late' \in {late, late \cup {Sent(r)}}, late' # late => At(r, "push")
  PROVE  PublishInv'
<1>1. Idle \in Known /\ Goes(r, Idle)
  BY DEF Known, Ends
<1>2. req'[r] = Idle => Progress(r)'
  BY DEF Progress, At, Idle
<1> QED
  BY <1>1, <1>2, Moving

\* What a request that ends leaves to the others.
LEMMA IdleProgress ==
  ASSUME NEW r \in Slot, req'[r] = Idle
  PROVE  Progress(r)'
  BY DEF Progress, At, Idle

\* A push lands.
LEMMA Landing ==
  ASSUME PublishInv, NEW push \in Pushes, Sound(push), Lands(push),
         UNCHANGED repo, late' \subseteq late,
         req' \in [Slot -> Known], OneAlone', \A r \in Slot : Progress(r)'
  PROVE  PublishInv'
<1> USE DEF PublishInv
<1>1. /\ remote' = push.tip /\ published' = published \cup {push}
      /\ remote \in History(push.tip) /\ push.tip \in 2..Len(commits)
      /\ UNCHANGED <<commits, head, index, work>>
  BY DEF Lands, Accepts, IsAncestor, Sound, repo
<1>2. Extends
  BY <1>1 DEF Extends, Types
<1>3. \A p \in late' \cup published' : p \in Pushes /\ Sound(p) /\ Sound(p)'
  BY <1>1, <1>2, SoundKept DEF Types
<1>4. Types' /\ Ancestry' /\ Seen(head)' /\ CommittedOnTop' /\ RetryCommitsOnce'
  BY <1>1, <1>3 DEF Types, Ancestry, Seen, CommittedOnTop, RetryCommitsOnce, History
<1>5. History(remote) \subseteq History(push.tip)
  BY <1>1 DEF Ancestry, Types
<1>6. \A p \in published' : (p.commit \in History(remote))'
  BY <1>1, <1>5 DEF History, Sound
<1> QED
  BY <1>3, <1>4, <1>6

-----------------------------------------------------------------------------
(***************************************************************************)
(* The steps of a request.                                                 *)
(***************************************************************************)
\* Types of the trees and the files.
LEMMA TreeFacts ==
  ASSUME PublishInv
  PROVE  /\ TreeOf(head) \in Tree /\ \A c \in 1..Len(commits) : TreeOf(c) \in Tree
         /\ \A s, t : Diff(s, t) \in Files
         /\ head \in History(head) /\ head \in 2..Len(commits) /\ Len(commits) \in Nat
         /\ History(head) \subseteq 1..head
         /\ index \in Tree /\ work \in Tree
<1>1. /\ head \in 2..Len(commits) /\ Len(commits) \in Nat /\ commits \in Seq(Commits)
      /\ index \in Tree /\ work \in Tree
  BY DEF PublishInv, Types
<1>2. \A c \in 1..Len(commits) : commits[c] \in Commits
  BY <1>1
<1>3. \A c \in 1..Len(commits) : TreeOf(c) \in Tree
  BY <1>2 DEF Commits, TreeOf
<1>4. head \in History(head) /\ History(head) \subseteq 1..head
  BY <1>1 DEF PublishInv, Ancestry
<1>5. \A s, t : Diff(s, t) \in Files
  BY DEF Diff, Files
<1>6. head \in 1..Len(commits)
  BY <1>1
<1> QED
  BY <1>1, <1>3, <1>4, <1>5, <1>6

\* Requests that arrive, and commands that commit, leave nobody alone.
LEMMA NobodyAlone ==
  ASSUME PublishInv, NEW new, req' = NotAlone(new), NEW s \in Slot, req[s] # Idle
  PROVE  /\ req'[s] = [req[s] EXCEPT !.alone = FALSE]
         /\ req'[s] \in Known /\ req'[s] # Idle /\ ~req'[s].alone
<1>1. req'[s] = [req[s] EXCEPT !.alone = FALSE]
  BY DEF NotAlone
<1> QED
  BY <1>1 DEF PublishInv, Types, Known, Fetching, Looking, Sending, Idle

LEMMA ArriveStep ==
  ASSUME PublishInv, NEW r \in Slot, Arrive(r)
  PROVE  PublishInv'
<1>1. PICK ask \in Ask, alone \in BOOLEAN :
        /\ alone <=> Active = {}
        /\ req' = NotAlone([s \in Slot |-> IF s = r THEN [pc |-> "fetch", ask |-> ask, alone |-> alone]
                                                    ELSE Idle])
  BY DEF Arrive
<1> DEFINE new == [s \in Slot |-> IF s = r THEN [pc |-> "fetch", ask |-> ask, alone |-> alone]
                                           ELSE Idle]
<1>2. req[r] = Idle /\ UNCHANGED <<commits, head, index, work, remote, late, published>>
  BY DEF Arrive, repo
<1>3. \A s \in Slot : req[s] = Idle => req'[s] = new[s]
  BY <1>1 DEF NotAlone
<1>4. /\ req'[r] = [pc |-> "fetch", ask |-> ask, alone |-> alone]
      /\ \A s \in Slot \ {r} : req[s] = Idle => req'[s] = Idle
  BY <1>2, <1>3
<1> HIDE DEF new
<1>5. \A s \in Slot : req[s] # Idle =>
        /\ req'[s] = [req[s] EXCEPT !.alone = FALSE]
        /\ req'[s] \in Known /\ req'[s] # Idle /\ ~req'[s].alone
  BY <1>1, NobodyAlone DEF new
<1>6. req'[r] \in Known /\ req'[r].alone = alone
  BY <1>4 DEF Known, Fetching
<1>7. req' \in [Slot -> Known]
  <2>1. \A s \in Slot : req'[s] \in Known
    BY <1>4, <1>5, <1>6 DEF Known
  <2>2. req' = [s \in Slot |-> req'[s]]
    BY <1>1 DEF NotAlone
  <2> QED
    BY <2>1, <2>2
<1>8. OneAlone'
  BY <1>1, <1>4, <1>5, <1>6 DEF OneAlone, Active
<1>9. Extends /\ head' \in 1..Len(commits') /\ History(head) \subseteq History(head)'
  BY <1>2 DEF Extends, History, PublishInv, Types
<1>10. \A s \in Slot : Progress(s)'
  <2>1. Progress(r)'
    BY <1>4 DEF Progress, At, Idle
  <2>2. ASSUME NEW s \in Slot \ {r}, req[s] = Idle PROVE Progress(s)'
    BY <1>4, <2>2, IdleProgress
  <2>3. ASSUME NEW s \in Slot, req[s] # Idle PROVE Progress(s)'
    BY <1>5, <1>9, <2>3, ProgressKept
  <2> QED
    BY <2>1, <2>2, <2>3
<1> QED
  BY <1>2, <1>7, <1>8, <1>10, Quiet, TreeFacts

LEMMA FetchStep ==
  ASSUME PublishInv, NEW r \in Slot, Fetch(r)
  PROVE  PublishInv'
<1> DEFINE new == Reading(r, "head", remote, 0)
<1>1. req[r] \in Fetching /\ req[r] # Idle
  BY Shapes DEF Fetch, PublishInv, Fetching, Idle
<1>2. UNCHANGED <<commits, head, index, work, remote, late, published>>
  BY DEF Fetch, repo
<1>3. CASE Ends(r)
  BY <1>1, <1>2, <1>3, Ending, TreeFacts
<1>4. CASE remote = req[r].ask.expected /\ Goes(r, new)
  <2>1. /\ new \in Known /\ new.alone = req[r].alone /\ new.ask = req[r].ask
        /\ new.pc = "head" /\ new.base = remote
    BY <1>1 DEF Known, Looking, Fetching, Reading, PublishInv, Types
  <2>2. new.ask.expected = remote /\ remote \in 2..Len(commits)
    BY <1>4, <2>1 DEF PublishInv, Types
  <2>3. ASSUME req'[r] = new PROVE Progress(r)'
    BY <1>2, <2>1, <2>2, <2>3 DEF Progress, At
  <2> HIDE DEF new
  <2> QED
    BY <1>1, <1>2, <1>4, <2>1, <2>3, Moving, TreeFacts
<1> QED
  BY <1>3, <1>4 DEF Fetch, HeadMoved

LEMMA ReadHeadStep ==
  ASSUME PublishInv, NEW r \in Slot, ReadHead(r)
  PROVE  PublishInv'
<1> DEFINE new == Reading(r, "status", req[r].base, head)
<1>1. req[r] \in Looking /\ req[r] # Idle /\ Progress(r) /\ At(r, "head")
  BY Shapes DEF ReadHead, At, PublishInv, Looking, Idle
<1>2. UNCHANGED <<commits, head, index, work, remote, late, published>> /\ Goes(r, new)
  BY DEF ReadHead, repo
<1>3. /\ new \in Known /\ new.alone = req[r].alone /\ new.ask = req[r].ask
      /\ new.pc = "status" /\ new.base = req[r].base /\ new.old = head
  BY <1>1 DEF Known, Looking, Reading, PublishInv, Types
<1>4. ASSUME req'[r] = new PROVE Progress(r)'
  <2>1. /\ req[r].ask.expected \in 2..Len(commits) /\ req[r].base = req[r].ask.expected
    BY <1>1 DEF Progress, At, Idle
  <2>2. head \in commits[head].past
    BY TreeFacts DEF History
  <2> QED
    BY <1>2, <1>3, <1>4, <2>1, <2>2 DEF Progress, At, History
<1> HIDE DEF new
<1> QED
  BY <1>1, <1>2, <1>3, <1>4, Moving, TreeFacts

\* The request pushes what was committed before, or goes on to add.
LEMMA ReadStatusStep ==
  ASSUME PublishInv, NEW r \in Slot, ReadStatus(r)
  PROVE  PublishInv'
<1>1. req[r] \in Looking /\ req[r] # Idle /\ Progress(r) /\ At(r, "status")
  BY Shapes DEF ReadStatus, At, PublishInv, Looking, Idle
<1>2. UNCHANGED <<commits, head, index, work, remote, late, published>>
  BY DEF ReadStatus, repo
<1>3. PICK b \in 2..Len(commits), o \in History(head) :
        /\ b = req[r].base /\ b = req[r].ask.expected /\ o = req[r].old
        /\ req[r].alone => o = head
  BY <1>1 DEF Progress, At, Idle
<1>4. CASE Ends(r)
  BY <1>1, <1>2, <1>4, Ending, TreeFacts
<1>5. CASE /\ IsAncestor(b, o) /\ Valid(Diff(TreeOf(b), TreeOf(o))) /\ ~req[r].ask.dry
           /\ Goes(r, Pushing(r, "push", Diff(TreeOf(b), TreeOf(o)), o))
  <2>1. PICK files \in Files : files = Diff(TreeOf(b), TreeOf(o))
    BY TreeFacts
  <2> DEFINE new == Pushing(r, "push", files, o)
  <2>2. o \in Nat /\ o \in History(head)
    BY TreeFacts
  <2>3. /\ new \in Known /\ new.alone = req[r].alone /\ new.ask = req[r].ask
        /\ new.pc = "push" /\ new.files = files /\ new.new = o /\ new.restaged = {}
    BY <1>1, <2>1, <2>2 DEF Known, Looking, Sending, Pushing, Files
  <2>4. b \in History(head)
    BY <1>5, <2>2, TreeFacts DEF IsAncestor, PublishInv, Ancestry
  <2>5. req[r].alone => Honest(new, TreeOf(head))
    BY <1>3, <1>5, <2>1, <2>3 DEF Honest, Valid
  <2>6. ASSUME req'[r] = new PROVE Progress(r)'
    BY <1>2, <1>3, <1>5, <2>2, <2>3, <2>4, <2>5, <2>6 DEF Progress, At, History, Honest, TreeOf
  <2>7. Goes(r, new)
    BY <1>5, <2>1
  <2> HIDE DEF new
  <2> QED
    BY <1>1, <1>2, <2>3, <2>6, <2>7, Moving, TreeFacts
<1>6. CASE MayCommit(r) /\ Goes(r, [req[r] EXCEPT !.pc = "add"])
  <2> DEFINE new == [req[r] EXCEPT !.pc = "add"]
  <2>1. /\ new \in Known /\ new.alone = req[r].alone /\ new.ask = req[r].ask
        /\ new.pc = "add"
    BY <1>1 DEF Known, Looking
  <2>2. o = b
    BY <1>3, <1>6 DEF MayCommit
  <2>3. ASSUME req'[r] = new PROVE Progress(r)'
    BY <1>2, <1>3, <2>1, <2>2, <2>3 DEF Progress, At, History
  <2>4. Goes(r, new)
    BY <1>6
  <2> HIDE DEF new
  <2> QED
    BY <1>1, <1>2, <2>1, <2>3, <2>4, Moving, TreeFacts
<1> QED
  BY <1>3, <1>4, <1>5, <1>6 DEF ReadStatus, Leftover

LEMMA AddStep ==
  ASSUME PublishInv, NEW r \in Slot, Add(r)
  PROVE  PublishInv'
<1> DEFINE new == [req[r] EXCEPT !.pc = "staged"]
<1>1. req[r] \in Looking /\ req[r] # Idle /\ Progress(r) /\ At(r, "add")
  BY Shapes DEF Add, At, PublishInv, Looking, Idle
<1>2. UNCHANGED <<commits, head, work, remote, late, published>> /\ Goes(r, new)
  BY DEF Add
<1>3. /\ new \in Known /\ new.alone = req[r].alone /\ new.ask = req[r].ask
      /\ new.pc = "staged"
  BY <1>1 DEF Known, Looking
<1>4. index' \in Tree
  BY TreeFacts DEF Add, Tree
<1>5. ASSUME req'[r] = new PROVE Progress(r)'
  BY <1>1, <1>2, <1>3, <1>5 DEF Progress, At, History, Idle
<1> HIDE DEF new
<1> QED
  BY <1>1, <1>2, <1>3, <1>4, <1>5, Moving

LEMMA ReadStagedStep ==
  ASSUME PublishInv, NEW r \in Slot, ReadStaged(r)
  PROVE  PublishInv'
<1>1. req[r] \in Looking /\ req[r] # Idle /\ Progress(r) /\ At(r, "staged")
  BY Shapes DEF ReadStaged, At, PublishInv, Looking, Idle
<1>2. UNCHANGED <<commits, head, index, work, remote, late, published>>
  BY DEF ReadStaged, repo
<1>3. CASE Ends(r)
  BY <1>1, <1>2, <1>3, Ending, TreeFacts
<1>4. CASE Goes(r, [req[r] EXCEPT !.pc = "unstage"])
  <2> DEFINE new == [req[r] EXCEPT !.pc = "unstage"]
  <2>1. /\ new \in Known /\ new.alone = req[r].alone /\ new.ask = req[r].ask
        /\ new.pc = "unstage"
    BY <1>1 DEF Known, Looking
  <2>2. ASSUME req'[r] = new PROVE Progress(r)'
    BY <1>1, <1>2, <2>1, <2>2 DEF Progress, At, Idle
  <2>3. Goes(r, new)
    BY <1>4
  <2> HIDE DEF new
  <2> QED
    BY <1>1, <1>2, <2>1, <2>2, <2>3, Moving, TreeFacts
<1>5. CASE StagedValid /\ Goes(r, Pushing(r, AfterStaging(r), Reported, 0))
  <2>1. PICK pc \in {"unstage", "commit"}, files \in Files :
          /\ pc = AfterStaging(r) /\ (pc = "commit" => ~req[r].ask.dry)
          /\ files = Diff(TreeOf(head), index)
    BY TreeFacts DEF AfterStaging
  <2> DEFINE new == Pushing(r, pc, files, 0)
  <2>2. /\ new \in Known /\ new.alone = req[r].alone /\ new.ask = req[r].ask
        /\ new.pc = pc /\ new.files = files /\ new.restaged = {}
    BY <1>1, <2>1 DEF Known, Looking, Sending, Pushing, Files
  <2>3. req[r].alone => head = req[r].ask.expected /\ Honest(new, index)
    BY <1>1, <1>5, <2>1, <2>2 DEF Progress, At, Honest, StagedValid, Valid, Staged
  <2>4. ASSUME req'[r] = new PROVE Progress(r)'
    BY <1>1, <1>2, <2>1, <2>2, <2>3, <2>4 DEF Progress, At, History, Honest, TreeOf, Idle
  <2>5. Goes(r, new)
    BY <1>5, <2>1 DEF Reported, Staged
  <2> HIDE DEF new
  <2> QED
    BY <1>1, <1>2, <2>2, <2>4, <2>5, Moving, TreeFacts
<1> QED
  BY <1>3, <1>4, <1>5 DEF ReadStaged

LEMMA ReadNewHeadStep ==
  ASSUME PublishInv, NEW r \in Slot, ReadNewHead(r)
  PROVE  PublishInv'
<1> DEFINE new == [req[r] EXCEPT !.pc = "push", !.new = head]
<1>1. req[r] \in Sending /\ req[r] # Idle /\ Progress(r) /\ At(r, "newhead")
  BY Shapes DEF ReadNewHead, At, PublishInv, Sending, Idle
<1>2. UNCHANGED <<commits, head, index, work, remote, late, published>> /\ Goes(r, new)
  BY DEF ReadNewHead, repo
<1>3. /\ new \in Known /\ new.alone = req[r].alone /\ new.ask = req[r].ask
      /\ new.pc = "push" /\ new.files = req[r].files /\ new.new = head
      /\ new.restaged = req[r].restaged
  <2>1. head \in Nat
    BY TreeFacts
  <2>2. \A h \in Nat : [req[r] EXCEPT !.pc = "push", !.new = h] \in Sending
    BY <1>1 DEF Sending
  <2>3. \A h \in Nat : /\ [req[r] EXCEPT !.pc = "push", !.new = h].alone = req[r].alone
                        /\ [req[r] EXCEPT !.pc = "push", !.new = h].ask = req[r].ask
                        /\ [req[r] EXCEPT !.pc = "push", !.new = h].pc = "push"
                        /\ [req[r] EXCEPT !.pc = "push", !.new = h].files = req[r].files
                        /\ [req[r] EXCEPT !.pc = "push", !.new = h].restaged = req[r].restaged
                        /\ [req[r] EXCEPT !.pc = "push", !.new = h].new = h
    BY <1>1 DEF Sending
  <2> QED
    BY <2>1, <2>2, <2>3 DEF Known
<1>4. ASSUME req'[r] = new PROVE Progress(r)'
  BY <1>1, <1>2, <1>3, <1>4, TreeFacts DEF Progress, At, History, Honest, TreeOf, Idle
<1> HIDE DEF new
<1> QED
  BY <1>1, <1>2, <1>3, <1>4, Moving, TreeFacts

LEMMA UnstageStep ==
  ASSUME PublishInv, NEW r \in Slot, Unstage(r)
  PROVE  PublishInv'
<1>1. req[r] # Idle /\ Ends(r) /\ UNCHANGED <<commits, head, work, remote, late, published>>
  BY DEF Unstage, At, Idle
<1>2. index' \in Tree
  BY TreeFacts DEF Unstage
<1> QED
  BY <1>1, <1>2, Ending

LEMMA GitFailsStep ==
  ASSUME PublishInv, NEW r \in Slot, GitFails(r)
  PROVE  PublishInv'
<1>1. /\ req[r] # Idle /\ Ends(r) /\ UNCHANGED <<commits, head, index, work, remote, published>>
      /\ late' = IF At(r, "push") THEN late \cup {Sent(r)} ELSE late
  BY DEF GitFails, repo
<1> QED
  BY <1>1, Ending, TreeFacts

LEMMA PushStep ==
  ASSUME PublishInv, NEW r \in Slot, Push(r)
  PROVE  PublishInv'
<1>1. /\ At(r, "push") /\ req[r] # Idle /\ Lands(Sent(r)) /\ Goes(r, Idle)
      /\ UNCHANGED <<repo, late>> /\ UNCHANGED <<commits, head, index>>
  BY DEF Push, At, Idle, Ends, repo
<1>2. /\ Extends /\ head' \in 1..Len(commits') /\ History(head) \subseteq History(head)'
  BY <1>1 DEF Extends, History, PublishInv, Types
<1>3. Idle \in Known
  BY DEF Known
<1>4. /\ req' \in [Slot -> Known] /\ req'[r] = Idle
      /\ OneAlone' /\ \A s \in Slot \ {r} : Progress(s)'
  BY <1>1, <1>2, <1>3, OneMoves
<1>5. \A s \in Slot : Progress(s)'
  BY <1>4, IdleProgress
<1>6. Sent(r) \in Pushes /\ Sound(Sent(r))
  BY <1>1, SentSound
<1> QED
  BY <1>1, <1>4, <1>5, <1>6, Landing

-----------------------------------------------------------------------------
(***************************************************************************)
(* The steps that make commits, and those of others.                       *)
(***************************************************************************)
\* A commit is added to the workspace or to the branch.
LEMMA Grown ==
  ASSUME PublishInv, NEW n \in Nat, n = Len(commits) + 1, Len(commits') = n,
         commits' \in Seq(Commits), Extends, Ancestry',
         UNCHANGED <<late, published>>, index' \in Tree, work' \in Tree,
         remote' \in {remote, n}, head' \in {head, n},
         remote' = n => commits'[n].past = commits[remote].past \cup {n},
         head' = n => /\ commits'[n].past = commits[head].past \cup {n}
                      /\ commits'[n].by # Others,
         commits'[n].by.who = "request" /\ commits'[n].by.alone =>
           head' = n /\ commits'[n].by.ask.expected = head,
         req' \in [Slot -> Known], OneAlone', \A r \in Slot : Progress(r)'
  PROVE  PublishInv'
<1> USE DEF PublishInv
<1>1. /\ Len(commits) \in Nat /\ head \in 2..Len(commits) /\ remote \in 2..Len(commits)
      /\ \A c \in 1..Len(commits) : commits'[c] = commits[c]
      /\ 1..n = 1..Len(commits) \cup {n} /\ n \notin 1..Len(commits)
  BY DEF Types, Extends
<1>2. Types'
  BY <1>1 DEF Types
<1>3. /\ commits[head].past \subseteq commits'[head'].past
      /\ commits[remote].past \subseteq commits'[remote'].past
      /\ commits[head].past \subseteq 1..head
  BY <1>1 DEF Ancestry, History
<1>4. Seen(head)'
  <2>1. \A d \in commits[head].past : commits'[d] = commits[d] /\ (commits[d].by = Others => d \in {1, 2})
    BY <1>1, <1>3 DEF Seen, History
  <2>2. commits'[head'].past = commits[head].past
          \/ (head' = n /\ commits'[head'].past = commits[head].past \cup {n})
    BY <1>1
  <2> QED
    BY <2>1, <2>2 DEF Seen, History
<1>5. \A p \in late' \cup published' : Sound(p)'
  BY SoundKept
<1>6. \A p \in published' : (p.commit \in History(remote))'
  BY <1>3 DEF History
<1>7. CommittedOnTop'
  <2>1. ASSUME NEW c \in 1..n, commits'[c].by.who = "request", commits'[c].by.alone
        PROVE  commits'[c].by.ask.expected < c /\ c \in commits'[head'].past
    <3>1. CASE c \in 1..Len(commits)
      BY <1>1, <1>3, <2>1, <3>1 DEF CommittedOnTop, History
    <3>2. CASE c = n
      <4>1. head' = n /\ commits'[n].by.ask.expected = head /\ n \in commits'[n].past
        BY <2>1, <3>2
      <4>2. head < n
        BY <1>1
      <4> QED
        BY <3>2, <4>1, <4>2
    <3> QED
      BY <1>1, <3>1, <3>2
  <2> QED
    BY <2>1 DEF CommittedOnTop, History
<1>8. RetryCommitsOnce'
  <2>1. ASSUME NEW c \in 1..Len(commits), commits'[c].by.who = "request",
               commits'[c].by.alone, commits'[c].by = commits'[n].by
        PROVE  FALSE
    <3>1. commits[c].by.ask.expected < c /\ c \in commits[head].past
      BY <1>1, <2>1 DEF CommittedOnTop, History
    <3>2. commits[c].by.ask.expected = head
      BY <1>1, <2>1
    <3>3. c \in 1..head
      BY <1>3, <3>1
    <3> QED
      BY <1>1, <3>1, <3>2, <3>3
  <2>2. ASSUME NEW c \in 1..n, NEW d \in 1..n, commits'[c].by.who = "request",
               commits'[c].by = commits'[d].by, commits'[c].by.alone
        PROVE  c = d
    <3>1. CASE c \in 1..Len(commits) /\ d \in 1..Len(commits)
      BY <1>1, <2>2, <3>1 DEF RetryCommitsOnce
    <3>2. CASE c \in 1..Len(commits) /\ d = n
      BY <2>1, <2>2, <3>2
    <3>3. CASE c = n /\ d \in 1..Len(commits)
      BY <2>1, <2>2, <3>3
    <3> QED
      BY <1>1, <3>1, <3>2, <3>3
  <2> QED
    BY <2>2 DEF RetryCommitsOnce
<1> QED
  BY <1>2, <1>4, <1>5, <1>6, <1>7, <1>8

LEMMA CommitStep ==
  ASSUME PublishInv, NEW r \in Slot, Commit(r)
  PROVE  PublishInv'
<1>1. /\ req[r] \in Sending /\ req[r] # Idle /\ Progress(r) /\ At(r, "commit")
  BY Shapes DEF Commit, At, PublishInv, Sending, Idle
<1>2. /\ Committed(head, index, Request(r)) /\ head' = Len(commits')
      /\ UNCHANGED <<index, work, remote, late, published>>
      /\ Goes(r, [req[r] EXCEPT !.pc = "newhead"])
  BY DEF Commit
<1>3. /\ Request(r) \in By /\ Request(r).who = "request"
      /\ Request(r).ask = req[r].ask /\ Request(r).alone = req[r].alone /\ Request(r) # Others
  BY <1>1 DEF By, Request, Sending, Others
<1>4. PICK n \in Nat :
        /\ n = Len(commits) + 1 /\ Len(commits') = n
        /\ commits' \in Seq(Commits) /\ Extends
        /\ commits'[n].past = commits[head].past \cup {n}
        /\ commits'[n].tree = index /\ commits'[n].by = Request(r)
        /\ Ancestry'
  BY <1>2, <1>3, Growing DEF PublishInv, Types
<1>5. /\ head' = n /\ head' \in 1..Len(commits') /\ History(head) \subseteq History(head)'
      /\ commits'[head'].past = commits[head].past \cup {n} /\ commits'[head'].tree = index
      /\ remote # n
  BY <1>2, <1>4 DEF History, PublishInv, Types
<1> DEFINE new == [req[r] EXCEPT !.pc = "newhead"]
<1>6. /\ new \in Known /\ new.alone = req[r].alone /\ new.ask = req[r].ask
      /\ new.pc = "newhead" /\ new.files = req[r].files /\ new.restaged = req[r].restaged
  BY <1>1 DEF Known, Sending
<1>7. Goes(r, new)
  BY <1>2
<1> HIDE DEF new
<1>8. /\ req' \in [Slot -> Known] /\ req'[r] = new /\ OneAlone'
      /\ \A s \in Slot \ {r} : Progress(s)'
  BY <1>1, <1>4, <1>5, <1>6, <1>7, OneMoves
<1>9. Progress(r)'
  <2>1. PICK e \in 2..Len(commits) : e = req[r].ask.expected /\ e \in commits[head].past
    BY <1>1 DEF Progress, At, Idle, History
  <2>2. e \in 2..Len(commits') /\ e \in commits'[head'].past /\ commits'[e] = commits[e]
    BY <1>4, <1>5, <2>1 DEF Extends
  <2>3. req[r].alone =>
          /\ req[r].files \ req[r].restaged = Diff(commits'[e].tree, index) \ req[r].restaged
          /\ Diff(commits'[e].tree, index) \cap Denied \subseteq req[r].restaged
    BY <1>1, <2>1, <2>2 DEF Progress, At, Honest, TreeOf
  <2>4. ~req[r].ask.dry
    BY <1>1 DEF Progress, At
  <2> QED
    BY <1>5, <1>6, <1>8, <2>1, <2>2, <2>3, <2>4 DEF Progress, At, Honest, TreeOf, History
<1>10. \A s \in Slot : Progress(s)'
  BY <1>8, <1>9
<1>11. req[r].alone => head = req[r].ask.expected
  BY <1>1 DEF Progress, At
<1> QED
  BY <1>2, <1>3, <1>4, <1>5, <1>8, <1>10, <1>11, Grown, TreeFacts

LEMMA CommandCommitsStep ==
  ASSUME PublishInv, CommandCommits
  PROVE  PublishInv'
<1>1. PICK tree \in {index, work} :
        /\ Committed(head, tree, Commands) /\ head' = Len(commits') /\ index' = tree
        /\ req' = NotAlone(req) /\ UNCHANGED <<work, remote, late, published>>
  BY DEF CommandCommits
<1>2. /\ Commands \in By /\ Commands # Others /\ Commands.who = "command"
      /\ tree \in Tree /\ head \in 2..Len(commits) /\ Types /\ Ancestry
  BY TreeFacts DEF By, Commands, Others, PublishInv
<1>3. PICK n \in Nat :
        /\ n = Len(commits) + 1 /\ Len(commits') = n
        /\ commits' \in Seq(Commits) /\ Extends
        /\ commits'[n].past = commits[head].past \cup {n} /\ commits'[n].by = Commands
        /\ Ancestry'
  BY <1>1, <1>2, Growing
<1>4. /\ head' = n /\ head' \in 1..Len(commits') /\ History(head) \subseteq History(head)'
      /\ remote # n
  BY <1>1, <1>3 DEF History, PublishInv, Types
<1>5. \A s \in Slot : req[s] # Idle =>
        /\ req'[s] = [req[s] EXCEPT !.alone = FALSE]
        /\ req'[s] \in Known /\ req'[s] # Idle /\ ~req'[s].alone
  BY <1>1, NobodyAlone
<1>6. \A s \in Slot : req[s] = Idle => req'[s] = Idle
  BY <1>1 DEF NotAlone
<1>7. req' \in [Slot -> Known]
  <2>1. \A s \in Slot : req'[s] \in Known
    BY <1>5, <1>6 DEF Known
  <2>2. req' = [s \in Slot |-> req'[s]]
    BY <1>1 DEF NotAlone
  <2> QED
    BY <2>1, <2>2
<1>8. OneAlone'
  BY <1>5, <1>6 DEF OneAlone
<1>9. \A s \in Slot : Progress(s)'
  BY <1>3, <1>4, <1>5, <1>6, ProgressKept, IdleProgress
<1> QED
  BY <1>1, <1>2, <1>3, <1>4, <1>7, <1>8, <1>9, Grown, TreeFacts

LEMMA OtherPushesStep ==
  ASSUME PublishInv, OtherPushes
  PROVE  PublishInv'
<1>1. /\ Committed(remote, TreeOf(remote), Others) /\ remote' = Len(commits')
      /\ UNCHANGED <<head, index, work, req, late, published>>
  BY DEF OtherPushes
<1>2. /\ Others \in By /\ Others.who = "other" /\ TreeOf(remote) \in Tree
      /\ remote \in 2..Len(commits)
  BY TreeFacts DEF By, Others, PublishInv, Types
<1>3. PICK n \in Nat :
        /\ n = Len(commits) + 1 /\ Len(commits') = n
        /\ commits' \in Seq(Commits) /\ Extends
        /\ commits'[n].past = commits[remote].past \cup {n} /\ commits'[n].by = Others
        /\ Ancestry'
  BY <1>1, <1>2, Growing DEF PublishInv
<1>4. /\ head' = head /\ head \in 1..Len(commits) /\ head' \in 1..Len(commits') /\ head # n
      /\ History(head) \subseteq History(head)'
  BY <1>1, <1>3 DEF History, Extends, PublishInv, Types
<1>5. \A s \in Slot : Progress(s)'
  BY <1>1, <1>3, <1>4, ProgressKept
<1>6. req' \in [Slot -> Known] /\ OneAlone'
  BY <1>1 DEF PublishInv, Types, OneAlone
<1> QED
  BY <1>1, <1>2, <1>3, <1>4, <1>5, <1>6, Grown, TreeFacts

LEMMA LandsLateStep ==
  ASSUME PublishInv, LandsLate
  PROVE  PublishInv'
<1>1. PICK push \in late : Lands(push) /\ late' = late \ {push}
  BY DEF LandsLate
<1>2. UNCHANGED <<commits, head, index, req>> /\ UNCHANGED repo
  BY DEF LandsLate, repo
<1>3. Extends /\ head' \in 1..Len(commits') /\ History(head) \subseteq History(head)'
  BY <1>2 DEF Extends, History, PublishInv, Types
<1>4. \A s \in Slot : Progress(s)'
  BY <1>2, <1>3, ProgressKept
<1>5. /\ req' \in [Slot -> Known] /\ OneAlone' /\ push \in Pushes /\ Sound(push)
  BY <1>2 DEF PublishInv, Types, OneAlone
<1> QED
  BY <1>1, <1>2, <1>4, <1>5, Landing

LEMMA CommandEditsStep ==
  ASSUME PublishInv, CommandEdits \/ UNCHANGED vars
  PROVE  PublishInv'
<1>1. UNCHANGED <<commits, head, index, remote, req, late, published>> /\ work' \in Tree
  BY TreeFacts DEF CommandEdits, vars, repo
<1>2. Extends /\ head' \in 1..Len(commits') /\ History(head) \subseteq History(head)'
  BY <1>1 DEF Extends, History, PublishInv, Types
<1>3. \A s \in Slot : Progress(s)'
  BY <1>1, <1>2, ProgressKept
<1>4. req' \in [Slot -> Known] /\ OneAlone'
  BY <1>1 DEF PublishInv, Types, OneAlone
<1> QED
  BY <1>1, <1>3, <1>4, Quiet, TreeFacts

\* A request that is about to commit takes note of what was staged.
LEMMA CommandStagesStep ==
  ASSUME PublishInv, CommandStages
  PROVE  PublishInv'
<1> USE DEF PublishInv
<1>1. /\ UNCHANGED <<commits, head, work, remote, late, published>> /\ index' \in Tree
      /\ req' = [r \in Slot |->
                   IF At(r, "commit") THEN [req[r] EXCEPT !.restaged = @ \cup Diff(index, index')]
                   ELSE req[r]]
  BY DEF CommandStages
<1>2. Extends /\ head' \in 1..Len(commits') /\ History(head) \subseteq History(head)'
  BY <1>1 DEF Extends, History, Types
<1>3. ASSUME NEW s \in Slot, At(s, "commit")
      PROVE  /\ req'[s] \in Sending /\ req'[s].pc = "commit" /\ req'[s].ask = req[s].ask
             /\ req'[s].alone = req[s].alone /\ req'[s].files = req[s].files
             /\ req'[s].restaged = req[s].restaged \cup Diff(index, index')
  <2>1. req[s] \in Sending
    BY <1>3, Shapes DEF At
  <2>2. Diff(index, index') \in Files
    BY TreeFacts
  <2> QED
    BY <1>1, <1>3, <2>1, <2>2 DEF Sending, Files, At
<1>4. \A s \in Slot : ~At(s, "commit") => req'[s] = req[s]
  BY <1>1
<1>5. req' \in [Slot -> Known]
  <2>1. \A s \in Slot : req'[s] \in Known
    BY <1>3, <1>4 DEF Types, Known
  <2> QED
    BY <1>1, <2>1
<1>6. OneAlone'
  <2>1. \A s \in Slot : req'[s] # Idle => req[s] # Idle /\ req'[s].alone = req[s].alone
    BY <1>3, <1>4 DEF At, Idle
  <2> QED
    BY <2>1 DEF OneAlone
<1>7. ASSUME NEW s \in Slot, ~At(s, "commit") PROVE Progress(s)'
  BY <1>1, <1>2, <1>4, <1>7, ProgressKept
<1>8. ASSUME NEW s \in Slot, At(s, "commit") PROVE Progress(s)'
  <2>1. Progress(s) /\ req[s] # Idle
    BY <1>8 DEF At, Idle
  <2>2. PICK e \in 2..Len(commits) : e = req[s].ask.expected /\ e \in History(head)
    BY <1>8, <2>1 DEF Progress, At
  <2>3. ASSUME req[s].alone PROVE Honest(req[s], index)'
    <3>1. Honest(req[s], index)
      BY <1>8, <2>1, <2>3 DEF Progress
    <3>2. TreeOf(e)' = TreeOf(e)
      BY <1>1 DEF TreeOf
    <3> QED
      BY <1>3, <1>8, <2>2, <3>1, <3>2 DEF Honest, Diff
  <2> QED
    BY <1>1, <1>3, <1>8, <2>1, <2>2, <2>3 DEF Progress, At, History
<1>9. \A s \in Slot : Progress(s)'
  BY <1>7, <1>8
<1>10. work' \in Tree
  BY <1>1, TreeFacts
<1> QED
  BY <1>1, <1>5, <1>6, <1>9, <1>10, Quiet

LEMMA CrashStep ==
  ASSUME PublishInv, Crash
  PROVE  PublishInv'
<1>1. /\ UNCHANGED <<commits, head, index, work, remote, published>>
      /\ late' = late \cup {Sent(r) : r \in {s \in Slot : At(s, "push")}}
      /\ req' = [r \in Slot |-> Idle]
  BY DEF Crash, repo
<1>2. \A p \in late' : p \in late \/ \E r \in Slot : At(r, "push") /\ p = Sent(r)
  BY <1>1
<1>3. req' \in [Slot -> Known] /\ OneAlone' /\ \A r \in Slot : Progress(r)'
  BY <1>1, IdleProgress DEF Known, OneAlone
<1> QED
  BY <1>1, <1>2, <1>3, Quiet, TreeFacts

LEMMA NextStep == PublishInv /\ [Next]_vars => PublishInv'
  BY ArriveStep, FetchStep, ReadHeadStep, ReadStatusStep, AddStep, ReadStagedStep, UnstageStep,
     CommitStep, ReadNewHeadStep, PushStep, GitFailsStep, LandsLateStep, OtherPushesStep,
     CommandEditsStep, CommandStagesStep, CommandCommitsStep, CrashStep DEF Next

-----------------------------------------------------------------------------
(***************************************************************************)
(* The theorems.                                                           *)
(***************************************************************************)
\* The inductive invariant: what each request knows of the branch and of the
\* workspace, what holds of every push that landed or may still land, and that
\* commits of requests that were alone are on top of what their clients saw.
THEOREM PublishInductive == Spec => []PublishInv
<1>1. Init => PublishInv
  <2> SUFFICES ASSUME Init PROVE PublishInv
    OBVIOUS
  <2>1. PICK t \in Tree : commits = << [past |-> {1}, tree |-> t, by |-> Others],
                                        [past |-> {1, 2}, tree |-> t, by |-> Others] >>
    BY DEF Init
  <2>2. /\ Len(commits) = 2 /\ commits[1].past = {1} /\ commits[2].past = {1, 2}
        /\ commits[2].tree = t /\ commits[1].by = Others /\ commits[2].by = Others
    BY <2>1
  <2>3. commits \in Seq(Commits)
    <3>1. /\ [past |-> {1}, tree |-> t, by |-> Others] \in Commits
          /\ [past |-> {1, 2}, tree |-> t, by |-> Others] \in Commits
      BY DEF Commits, By
    <3> QED
      BY <2>1, <3>1
  <2>4. 1..2 = {1, 2}
    OBVIOUS
  <2>5. Types
    BY <2>2, <2>3 DEF Init, Types, Known
  <2>6. Ancestry /\ Seen(head)
    BY <2>2, <2>4 DEF Init, Ancestry, Seen, History
  <2>7. OneAlone /\ \A r \in Slot : Progress(r)
    BY DEF Init, OneAlone, Progress, At, Idle
  <2>8. CommittedOnTop /\ RetryCommitsOnce
    BY <2>2, <2>4 DEF CommittedOnTop, RetryCommitsOnce, Others
  <2> QED
    BY <2>5, <2>6, <2>7, <2>8 DEF Init, PublishInv
<1>2. PublishInv /\ [Next]_vars => PublishInv'
  BY NextStep
<1> QED
  BY <1>1, <1>2, PTL DEF Spec

\* Every variable keeps its type, and a request knows what its step needs.
THEOREM PublishTyped == Spec => []TypeOK
<1> SUFFICES PublishInv => TypeOK
  BY PublishInductive, PTL
<1> SUFFICES ASSUME PublishInv PROVE TypeOK
  OBVIOUS
<1>1. ASSUME NEW c \in 1..Len(commits)
      PROVE  /\ commits[c].tree \in Tree
             /\ commits[c].past \subseteq 1..c /\ c \in commits[c].past
             /\ commits[c].by.who \in {"request", "command", "other"}
  <2>1. commits[c] \in Commits
    BY DEF PublishInv, Types
  <2> QED
    BY <2>1 DEF PublishInv, Ancestry, History, Commits, By, Commands, Others
<1>2. {remote, head} \subseteq 1..Len(commits) /\ {index, work} \subseteq Tree
  BY DEF PublishInv, Types
<1>3. ASSUME NEW r \in Slot, req[r] # Idle
      PROVE  /\ req[r].pc \in Step /\ req[r].ask \in Ask /\ req[r].alone \in BOOLEAN
             /\ At(r, "push") => req[r].new \in 1..Len(commits) /\ req[r].files \in Files
             /\ At(r, "commit") => req[r].files \in Files /\ ~req[r].ask.dry
  <2>1. req[r].pc \in Step /\ req[r].ask \in Ask /\ req[r].alone \in BOOLEAN
    BY <1>3 DEF PublishInv, Types, Known, Fetching, Looking, Sending, Step
  <2>2. ASSUME At(r, "push") PROVE req[r].new \in 1..Len(commits) /\ req[r].files \in Files
    <3>1. req[r] \in Sending
      BY <2>2, Shapes DEF PublishInv, At
    <3>2. req[r].new \in History(head)
      BY <2>2 DEF PublishInv, Progress
    <3> QED
      BY <3>1, <3>2, TreeFacts DEF Sending
  <2>3. ASSUME At(r, "commit") PROVE req[r].files \in Files /\ ~req[r].ask.dry
    BY <2>3, Shapes DEF PublishInv, Progress, At, Sending
  <2> QED
    BY <2>1, <2>2, <2>3
<1> QED
  BY <1>1, <1>2, <1>3 DEF TypeOK

\* The branch is never rewound: what it led to, it still leads to.
THEOREM NeverRewound == Spec => RemoteOnlyGrows
<1>1. PublishInv /\ [Next]_vars => [(remote \in History(remote)')]_remote
  <2> SUFFICES ASSUME PublishInv, [Next]_vars, remote' # remote
               PROVE  remote \in History(remote)'
    OBVIOUS
  <2>1. ASSUME NEW push, Lands(push), UNCHANGED commits PROVE remote \in History(remote)'
    BY <2>1 DEF Lands, Accepts, IsAncestor, History
  <2>2. CASE OtherPushes
    <3>1. /\ Committed(remote, TreeOf(remote), Others) /\ remote' = Len(commits')
          /\ Others \in By /\ TreeOf(remote) \in Tree /\ remote \in 2..Len(commits)
          /\ remote \in commits[remote].past
      BY <2>2, TreeFacts DEF OtherPushes, By, PublishInv, Types, Ancestry, History
    <3>2. \E n \in Nat : Len(commits') = n /\ commits'[n].past = commits[remote].past \cup {n}
      BY <3>1, Growing DEF PublishInv
    <3> QED
      BY <3>1, <3>2 DEF History
  <2>3. CASE LandsLate
    BY <2>1, <2>3 DEF LandsLate, repo
  <2>4. ASSUME NEW r \in Slot, Push(r) PROVE remote \in History(remote)'
    BY <2>1, <2>4 DEF Push, repo
  <2> QED
    BY <2>2, <2>3, <2>4 DEF Next, vars, Arrive, Fetch, ReadHead, ReadStatus, Add, ReadStaged,
         Unstage, Commit, ReadNewHead, GitFails, CommandEdits, CommandStages, CommandCommits, Crash
<1> QED
  BY <1>1, PublishInductive, PTL DEF Spec, RemoteOnlyGrows

\* What is published contains the head that its client expected, builds on no
\* commit of others that the client has not seen, and stays in the branch.
THEOREM BuiltOnExpectedHead == Spec => []ExpectedHeadRespected
<1> SUFFICES PublishInv => ExpectedHeadRespected
  BY PublishInductive, PTL
<1> SUFFICES ASSUME PublishInv, NEW p \in published
             PROVE  /\ IsAncestor(p.ask.expected, p.tip)
                    /\ \A c \in History(p.tip) \ History(p.ask.expected) : commits[c].by # Others
                    /\ IsAncestor(p.commit, remote)
  BY DEF ExpectedHeadRespected
<1>1. Sound(p) /\ p.commit \in History(remote)
  BY DEF PublishInv
<1>2. {1, 2} \subseteq History(p.ask.expected)
  BY <1>1 DEF Sound, PublishInv, Ancestry, Types
<1> QED
  BY <1>1, <1>2 DEF Sound, Seen, IsAncestor

\* A response to a request that was alone names exactly what was published, all
\* of it allowed, except for paths that a command staged between the check and
\* the commit; a dry run publishes nothing.
THEOREM ReportedTruly == Spec => []PublishedAsReported
<1> SUFFICES PublishInv => PublishedAsReported
  BY PublishInductive, PTL
<1>1. ASSUME PublishInv, NEW p \in published PROVE Sound(p)
  BY <1>1 DEF PublishInv
<1> QED
  BY <1>1 DEF Sound, Honest, PublishedAsReported, ReportIsTheDiff, DeniedNeverPublished,
              DryRunsPublishNothing

\* A request that is alone is committed once, however often it is repeated.
THEOREM CommittedOnce == Spec => []RetryCommitsOnce
<1>1. PublishInv => RetryCommitsOnce
  BY DEF PublishInv
<1> QED
  BY <1>1, PublishInductive, PTL
=============================================================================
