---------------------------- MODULE GitHubCalls ----------------------------
(***************************************************************************)
(* The calls that change something at GitHub and are not workspaces:       *)
(* starting workflow runs, deleting caches (services/ci.py) and merging    *)
(* the pull request (services/pulls.py).  Requests are not serialised.     *)
(* Between two awaits of one, others run, caches are evicted and the pull  *)
(* request changes; calls fail, are answered late or after the gateway     *)
(* gave them up.                                                           *)
(***************************************************************************)
EXTENDS Naturals, FiniteSets

CONSTANTS Slot, Key,
          Nothing,       \* no idempotency key; no sha
          Cache,         \* the caches that a key selects
          Reviewed,      \* those with the metadata that a client expects
          MaxDelete,     \* max_delete of the requests
          MaxCalls,      \* bound: requests
          MaxHead        \* bound: commits pushed to the pull request

ASSUME CallsAssumption == /\ IsFiniteSet(Cache) /\ Reviewed \subseteq Cache
                          /\ MaxDelete \in Nat /\ MaxCalls \in Nat /\ MaxHead \in Nat
ASSUME NothingIsNew == Nothing \notin Key \cup Cache \cup Nat

VARIABLES
  caches,     \* the caches at GitHub
  pull, head, \* state and head of the pull request
  req,        \* what the coroutine of each request knows
  late,       \* changes asked for, whose request was given up
  saved,      \* the stored responses
  calls,      \* requests so far
  asked,      \* history: what each request asked for
  repeats,    \* history: requests whose key had been answered before
  started,    \* history: workflow runs that each request started
  deleted,    \* history: caches that each request deleted
  merges,     \* history: the head that was merged and the one expected
  answers     \* history: the responses

github == <<caches, pull, head, started, deleted, merges>>
log == <<asked, repeats, answers>>
vars == <<github, req, late, saved, calls, log>>

Id == 1..MaxCalls
Head == 0..MaxHead
Keys == Key \cup {Nothing}

\* dispatch and rerun; the modes stand for different inputs
Start == [op: {"start"}, key: Keys, mode: {"plain", "debug"}]
\* by id, or all that the key and ref of the request select, with or without
\* confirm=true and expected metadata; an empty expected_ref is a case of its
\* own.  A dry run looks at neither.
Delete == {a \in [op: {"delete"}, key: Keys, cache: Cache \cup {Nothing}, dry: BOOLEAN,
                   confirm: BOOLEAN, expects: {"nothing", "metadata", "empty ref"}] :
             a.dry => ~a.confirm /\ a.expects = "nothing"}
Merge == [op: {"merge"}, key: {Nothing}, expected: Head]
Ask == Start \cup Delete \cup Merge

ById(ask) == ask.op = "delete" /\ ask.cache # Nothing
Selects(ask) == ask.op = "delete" /\ ask.cache = Nothing

Idle == [pc |-> "idle"]
At(r, pc) == req[r].pc = pc

Init ==
  /\ caches \in SUBSET Cache
  /\ pull \in {"open", "draft", "closed"} /\ head = 0
  /\ req = [r \in Slot |-> Idle] /\ late = {} /\ saved = {} /\ calls = 0
  /\ asked = [i \in {} |-> Idle] /\ repeats = {}
  /\ started = [i \in Id |-> 0] /\ deleted = [i \in Id |-> {}]
  /\ merges = {} /\ answers = {}

Goes(r, next) == req' = [req EXCEPT ![r] = next]
Ends(r) == Goes(r, Idle)

(***************************************************************************)
(* The idempotency store: a row for each operation and key.                *)
(***************************************************************************)
SameRow(a, b) == a.key # Nothing /\ a.op = b.op /\ a.key = b.key
StoredIgnored(ask) == {}
Stored(ask) == {s \in saved : SameRow(s.ask, ask)}

\* a row keeps the payload that it was inserted with
Saves(ask, response) ==
  saved' = IF ask.key = Nothing THEN saved
           ELSE IF Stored(ask) = {} THEN saved \cup {[ask |-> ask, response |-> response]}
           ELSE (saved \ Stored(ask))
                  \cup {[s EXCEPT !.response = response] : s \in Stored(ask)}

\* what was done, and by which request
Response(r, done) == [by |-> req[r].id, done |-> done]

Answers(r, done) ==
  /\ Saves(req[r].ask, Response(r, done))
  /\ answers' = answers \cup {[ask |-> req[r].ask, response |-> Response(r, done)]}
  /\ Ends(r)

(***************************************************************************)
(* Requests.                                                               *)
(***************************************************************************)
Arrive(r) ==
  /\ req[r] = Idle /\ calls < MaxCalls /\ calls' = calls + 1
  /\ \E ask \in Ask :
       /\ Goes(r, [pc |-> "lookup", id |-> calls', ask |-> ask])
       /\ asked' = [i \in 1..calls' |-> IF i = calls' THEN ask ELSE asked[i]]
       /\ repeats' = IF \E a \in answers : SameRow(a.ask, ask)
                     THEN repeats \cup {calls'} ELSE repeats
  /\ UNCHANGED <<github, late, saved, answers>>

Reads(r) == Goes(r, [pc |-> "read", id |-> req[r].id, ask |-> req[r].ask])
Posts(r, todo, done) ==
  Goes(r, [pc |-> "post", id |-> req[r].id, ask |-> req[r].ask,
           todo |-> todo, done |-> done])

\* _assert_cache_delete_confirmed: expected metadata stand for a confirmation
\* where they can be compared, and an empty ref is expected metadata here
Confirmed(ask) == ask.confirm \/ (ask.expects # "nothing" /\ ~ById(ask))

\* replayed, refused for another payload, or new; no await so far.  A merge has
\* no key and finds nothing stored.
Lookup(r) ==
  /\ At(r, "lookup")
  /\ LET ask == req[r].ask  stored == Stored(ask)
     IN \/ /\ stored # {}
           /\ answers' = answers \cup {s \in stored : s.ask = ask}
           /\ Ends(r) /\ UNCHANGED saved
        \/ /\ stored = {} /\ ~ById(ask)
           /\ Reads(r) /\ UNCHANGED <<saved, answers>>
        \/ /\ stored = {} /\ ById(ask)
           /\ IF ask.dry THEN Answers(r, {})
              ELSE /\ IF Confirmed(ask) THEN Posts(r, {ask.cache}, {}) ELSE Ends(r)
                   /\ UNCHANGED <<saved, answers>>
  /\ UNCHANGED <<github, late, calls, asked, repeats>>

\* a workflow, or run, that exists
ReadToStart(r) ==
  /\ At(r, "read") /\ req[r].ask.op = "start"
  /\ Posts(r, {Nothing}, {})
  /\ UNCHANGED <<github, late, saved, calls, log>>

\* _assert_selected_caches_match_expected; an empty ref is not compared here
MatchIgnored(ask, selected) == TRUE
MatchExpected(ask, selected) == ask.expects = "metadata" => selected \subseteq Reviewed

\* _match_caches_for_delete and what delete_cache makes of it
ReadToDelete(r) ==
  /\ At(r, "read") /\ Selects(req[r].ask)
  /\ LET ask == req[r].ask
         allowed == /\ Cardinality(caches) <= MaxDelete /\ Confirmed(ask)
                    /\ MatchExpected(ask, caches)
         nothing == caches = {} \/ (ask.dry /\ Cardinality(caches) <= MaxDelete)
     IN \/ nothing /\ Answers(r, {})
        \/ ~nothing /\ allowed /\ Posts(r, caches, {}) /\ UNCHANGED <<saved, answers>>
        \/ ~nothing /\ ~allowed /\ Ends(r) /\ UNCHANGED <<saved, answers>>
  /\ UNCHANGED <<github, late, calls, asked, repeats>>

ReadToMerge(r) ==
  /\ At(r, "read") /\ req[r].ask.op = "merge"
  /\ IF pull = "open" /\ head = req[r].ask.expected
     THEN Posts(r, {Nothing}, {}) ELSE Ends(r)
  /\ UNCHANGED <<github, late, saved, calls, log>>

(***************************************************************************)
(* What GitHub does with a change that it is asked for.                    *)
(***************************************************************************)
ShaOmitted(ask) == Nothing
ShaSent(ask) == ask.expected

Change(r, x) == [id |-> req[r].id, ask |-> req[r].ask, target |-> x]

Refused(c) ==
  \/ c.ask.op = "delete" /\ c.target \notin caches
  \/ c.ask.op = "merge" /\ ~(pull = "open" /\ ShaSent(c.ask) \in {Nothing, head})

Happens(c) ==
  /\ caches' = IF c.ask.op = "delete" THEN caches \ {c.target} ELSE caches
  /\ deleted' = IF c.ask.op = "delete"
                THEN [deleted EXCEPT ![c.id] = @ \cup {c.target}] ELSE deleted
  /\ started' = IF c.ask.op = "start" THEN [started EXCEPT ![c.id] = @ + 1] ELSE started
  /\ pull' = IF c.ask.op = "merge" THEN "merged" ELSE pull
  /\ merges' = IF c.ask.op = "merge"
               THEN merges \cup {[expected |-> c.ask.expected, merged |-> head]} ELSE merges
  /\ UNCHANGED head

Lands(c) == IF Refused(c) THEN UNCHANGED github ELSE Happens(c)

\* the call reaches GitHub, which decides
Post(r) ==
  /\ At(r, "post")
  /\ \E x \in req[r].todo :
       LET c == Change(r, x)
       IN /\ Lands(c)
          /\ Goes(r, [pc |-> "reply", id |-> req[r].id, ask |-> req[r].ask,
                      todo |-> req[r].todo \ {x}, done |-> req[r].done, now |-> x,
                      ok |-> ~Refused(c)])
  /\ UNCHANGED <<late, saved, calls, log>>

\* what a refused call means: 404 is an answer when one cache was asked for
GoneMeansDeleted(r) == req[r].done \cup {req[r].now}
GoneMeansNothing(r) == req[r].done

Reply(r) ==
  /\ At(r, "reply")
  /\ LET ask == req[r].ask  done == req[r].done \cup {req[r].now}
     IN \/ /\ req[r].ok /\ req[r].todo # {}
           /\ Posts(r, req[r].todo, done) /\ UNCHANGED <<saved, answers>>
        \/ /\ req[r].ok /\ req[r].todo = {}
           /\ Answers(r, done)
        \/ /\ ~req[r].ok /\ ById(ask)
           /\ Answers(r, GoneMeansNothing(r))
        \/ /\ ~req[r].ok /\ ~ById(ask)
           /\ Ends(r) /\ UNCHANGED <<saved, answers>>
  /\ UNCHANGED <<github, late, calls, asked, repeats>>

(***************************************************************************)
(* Failures, time, and the others.                                         *)
(***************************************************************************)
\* how often _request sends what is not a GET
AttemptsForAll == 2
Attempts == 1

\* the call times out, or its answer is lost; it may still arrive
Lost(r) ==
  /\ At(r, "post") \/ At(r, "reply")
  /\ late' \in {late} \cup {late \cup {Change(r, x)} :
                              x \in IF At(r, "post") THEN req[r].todo ELSE {}}
  /\ IF At(r, "reply") /\ Attempts > 1
     THEN Posts(r, req[r].todo \cup {req[r].now}, req[r].done) ELSE Ends(r)
  /\ UNCHANGED <<github, saved, calls, log>>

Arrives(c) ==
  /\ late' = late \ {c} /\ Lands(c)
  /\ UNCHANGED <<req, saved, calls, log>>

\* a read, the audit record or the store fails, GitHub refuses for a reason of
\* its own, or the policy, a conflict or too many caches to list forbid it
Fails(r) ==
  /\ req[r] # Idle /\ Ends(r)
  /\ UNCHANGED <<github, late, saved, calls, log>>

\* the store survives the gateway
Crash ==
  /\ req' = [r \in Slot |-> Idle]
  /\ UNCHANGED <<github, late, saved, calls, log>>

Evict(c) ==
  /\ c \in caches /\ caches' = caches \ {c}
  /\ UNCHANGED <<pull, head, started, deleted, merges, req, late, saved, calls, log>>

OthersChangePull ==
  /\ pull # "merged"
  /\ \/ pull' \in {"open", "draft", "closed"} \ {pull} /\ UNCHANGED head
     \/ head < MaxHead /\ head' = head + 1 /\ UNCHANGED pull
  /\ UNCHANGED <<caches, started, deleted, merges, req, late, saved, calls, log>>

Next ==
  \/ \E r \in Slot : \/ Arrive(r) \/ Lookup(r)
                     \/ ReadToStart(r) \/ ReadToDelete(r) \/ ReadToMerge(r)
                     \/ Post(r) \/ Reply(r) \/ Lost(r) \/ Fails(r)
  \/ \E c \in late : Arrives(c)
  \/ \E c \in Cache : Evict(c)
  \/ OthersChangePull \/ Crash

Spec == Init /\ [][Next]_vars

(***************************************************************************)
(* What must hold.                                                         *)
(***************************************************************************)
\* Every variable keeps its type, and the store has one row for each key.
TypeOK ==
  /\ caches \subseteq Cache /\ head \in Head
  /\ pull \in {"open", "draft", "closed", "merged"}
  /\ calls \in 0..MaxCalls /\ asked \in [1..calls -> Ask] /\ repeats \subseteq 1..calls
  /\ started \in [Id -> Nat] /\ deleted \in [Id -> SUBSET Cache]
  /\ \A r \in Slot : req[r] # Idle => req[r].id \in 1..calls /\ req[r].ask = asked[req[r].id]
  /\ \A s, t \in saved : SameRow(s.ask, t.ask) => s = t

\* A request starts at most one run, although its answer is lost, and none if
\* its key had been answered before it came, whatever ran in between; nor does
\* it then delete anything.
CarriedOutOnce ==
  \A i \in 1..calls : /\ started[i] <= 1
                      /\ i \in repeats => started[i] = 0 /\ deleted[i] = {}

\* No request deletes a cache that it was not asked to, or more than the client
\* allowed, or without a confirmation or expected metadata; and where a key
\* selects the caches, none whose metadata differ from those expected, also when
\* the client confirmed as well.  By id nothing is compared, and an
\* empty expected_ref takes the place of a confirmation and is not compared
\* (UnconfirmedIsReviewed).
DeletesAsAsked ==
  \A i \in 1..calls : deleted[i] # {} =>
    LET ask == asked[i]
    IN /\ ~ask.dry
       /\ ById(ask) => ask.confirm /\ deleted[i] = {ask.cache}
       /\ Selects(ask) => /\ ask.confirm \/ ask.expects # "nothing"
                          /\ Cardinality(deleted[i]) <= MaxDelete
                          /\ ask.expects = "metadata" => deleted[i] \subseteq Reviewed

\* A response, also a replayed one, says what was really done at GitHub, by a
\* request with the same key: run started, and exactly which caches deleted.
ResponseIsTrue ==
  \A a \in answers :
    LET i == a.response.by
    IN /\ asked[i] = a.ask \/ SameRow(asked[i], a.ask)
       /\ a.ask.op = "start" => started[i] = 1
       /\ a.ask.op = "delete" => a.response.done = deleted[i]

\* Whatever is pushed while a merge is on its way, only the head that the client
\* reviewed is merged.
MergesOnlyExpected == \A m \in merges : m.merged = m.expected

(***************************************************************************)
(* Stronger, and not so.                                                   *)
(***************************************************************************)
\* ci.py 488: a deletion that is not confirmed deletes caches with the expected
\* metadata only.
UnconfirmedIsReviewed ==
  \A i \in 1..calls : deleted[i] # {} /\ ~asked[i].confirm => deleted[i] \subseteq Reviewed
=============================================================================
