-------------------------- MODULE GitHubCallsProofs --------------------------
(***************************************************************************)
(* Theorems about GitHubCalls, for any caches, keys, limits and number of  *)
(* requests: each is carried out at most once, deletes only what its       *)
(* client agreed to, and is answered with what was done.                   *)
(***************************************************************************)
EXTENDS GitHubCalls, FiniteSetTheorems, TLAPS

Target == Cache \cup {Nothing}
Responses == [by: Id, done: SUBSET Target]
Rows == [ask: Ask, response: Responses]

\* What the coroutine of a request may know.
Looking == [pc: {"lookup", "read"}, id: Id, ask: Ask]
Posting == [pc: {"post"}, id: Id, ask: Ask, todo: SUBSET Target, done: SUBSET Target]
Replying == [pc: {"reply"}, id: Id, ask: Ask, todo: SUBSET Target, done: SUBSET Target,
             now: Target, ok: BOOLEAN]
Known == {Idle} \cup Looking \cup Posting \cup Replying

Types ==
  /\ caches \subseteq Cache /\ head \in Head
  /\ pull \in {"open", "draft", "closed", "merged"}
  /\ calls \in 0..MaxCalls /\ asked \in [1..calls -> Ask] /\ repeats \subseteq 1..calls
  /\ started \in [Id -> Nat] /\ deleted \in [Id -> SUBSET Cache]
  /\ req \in [Slot -> Known]
  /\ late \subseteq [id: Id, ask: Ask, target: Target]
  /\ saved \subseteq Rows /\ answers \subseteq Rows

\* The store has one row for each operation and key.
OneRow == \A s, t \in saved : SameRow(s.ask, t.ask) => s = t

\* A request is in one place: with one coroutine, or as one change that may
\* still arrive.
OnePlace ==
  /\ \A r \in Slot : req[r] # Idle => req[r].id \in 1..calls /\ req[r].ask = asked[req[r].id]
  /\ \A c \in late : c.id \in 1..calls /\ c.ask = asked[c.id]
  /\ \A q, r \in Slot : req[q] # Idle /\ req[r] # Idle /\ req[q].id = req[r].id => q = r
  /\ \A c, d \in late : c.id = d.id => c = d
  /\ \A c \in late, r \in Slot : req[r] # Idle => req[r].id # c.id

\* The caches that a client agreed to lose.
Agreed(ask, gone) ==
  /\ ~ask.dry /\ gone \subseteq Cache
  /\ ById(ask) => ask.confirm /\ gone \subseteq {ask.cache}
  /\ Selects(ask) => /\ ask.confirm \/ ask.expects # "nothing"
                     /\ IsFiniteSet(gone) /\ Cardinality(gone) <= MaxDelete
                     /\ ask.expects = "metadata" => gone \subseteq Reviewed

\* What request i has done at GitHub.
Untouched(i) == started[i] = 0 /\ deleted[i] = {}

\* A request knows what it has done and only has left what was agreed.
Flight(r) ==
  /\ At(r, "lookup") \/ At(r, "read") => Untouched(req[r].id)
  /\ req[r] # Idle /\ ~At(r, "lookup") => req[r].id \notin repeats
  /\ At(r, "post") =>
       CASE req[r].ask.op = "start" -> started[req[r].id] = 0 /\ req[r].todo = {Nothing}
         [] req[r].ask.op = "delete" ->
              /\ deleted[req[r].id] = req[r].done
              /\ Agreed(req[r].ask, req[r].todo \cup req[r].done)
         [] OTHER -> TRUE
  /\ At(r, "reply") =>
       CASE req[r].ask.op = "start" ->
              started[req[r].id] = 1 /\ req[r].todo = {} /\ req[r].ok
         [] req[r].ask.op = "delete" ->
              /\ deleted[req[r].id] = IF req[r].ok THEN req[r].done \cup {req[r].now}
                                                   ELSE req[r].done
              /\ Agreed(req[r].ask, req[r].todo \cup req[r].done \cup {req[r].now})
         [] OTHER -> TRUE

\* So does a change that may still arrive.
Pending(c) ==
  /\ c.id \notin repeats
  /\ c.ask.op = "start" => started[c.id] = 0
  /\ c.ask.op = "delete" => Agreed(c.ask, deleted[c.id] \cup {c.target})

\* What is recorded of the requests so far, and those to come.
Ledger ==
  /\ \A i \in 1..calls : started[i] <= 1 /\ (deleted[i] # {} => Agreed(asked[i], deleted[i]))
  /\ \A i \in Id : i > calls => Untouched(i)

\* A key that was answered stays in the store, and its repetitions do nothing.
Repeated ==
  /\ \A a \in answers : a.ask.key # Nothing => Stored(a.ask) # {}
  /\ \A i \in repeats : Untouched(i) /\ Stored(asked[i]) # {}

\* Nothing is left to do for request i.
Over(i) == /\ \A r \in Slot : req[r] # Idle => req[r].id # i
           /\ \A c \in late : c.id # i

\* A row, of the store or answered, says what a request has done that is over.
Truthful(s) ==
  /\ s.response.by \in 1..calls
  /\ asked[s.response.by] = s.ask \/ SameRow(asked[s.response.by], s.ask)
  /\ s.ask.op = "start" => started[s.response.by] = 1
  /\ s.ask.op = "delete" => s.response.done = deleted[s.response.by]

RowsTrue == \A s \in saved \cup answers : Truthful(s) /\ Over(s.response.by)

CallsInv ==
  /\ Types /\ OneRow /\ OnePlace /\ Ledger /\ Repeated /\ RowsTrue /\ MergesOnlyExpected
  /\ \A r \in Slot : Flight(r)
  /\ \A c \in late : Pending(c)

-----------------------------------------------------------------------------
(***************************************************************************)
(* Facts about the definitions.                                            *)
(***************************************************************************)
\* The program counter tells what a request knows.
LEMMA Shapes ==
  ASSUME Types, NEW r \in Slot
  PROVE  /\ req[r] \in Known
         /\ At(r, "lookup") \/ At(r, "read") => req[r] \in Looking
         /\ At(r, "post") => req[r] \in Posting
         /\ At(r, "reply") => req[r] \in Replying
         /\ At(r, "idle") <=> req[r] = Idle
         /\ req[r] # Idle => req[r].id \in Id /\ req[r].ask \in Ask
         /\ At(r, "idle") \/ At(r, "lookup") \/ At(r, "read") \/ At(r, "post") \/ At(r, "reply")
  BY DEF Types, Known, Looking, Posting, Replying, Idle, At

\* To share a row is symmetric and transitive.
LEMMA SameRowFacts ==
  ASSUME NEW a, NEW b, NEW c
  PROVE  /\ SameRow(a, b) => SameRow(b, a)
         /\ SameRow(a, b) /\ SameRow(b, c) => SameRow(a, c)
  BY DEF SameRow

\* Who agreed to lose some caches agreed to lose fewer.
LEMMA AgreedFewer ==
  ASSUME NEW ask, NEW all, NEW some, Agreed(ask, all), some \subseteq all
  PROVE  Agreed(ask, some)
<1>1. ASSUME Selects(ask)
      PROVE  IsFiniteSet(some) /\ Cardinality(some) <= MaxDelete
  <2>1. IsFiniteSet(all) /\ Cardinality(all) <= MaxDelete
    BY <1>1 DEF Agreed
  <2>2. IsFiniteSet(some) /\ Cardinality(some) <= Cardinality(all)
    BY <2>1, FS_Subset
  <2>3. Cardinality(some) \in Nat /\ Cardinality(all) \in Nat
    BY <2>1, <2>2, FS_CardinalityType
  <2> QED
    BY <2>1, <2>2, <2>3, CallsAssumption
<1> QED
  BY <1>1 DEF Agreed

\* What a request knows and has done stays true while nothing of it changes.
LEMMA FlightKept ==
  ASSUME NEW s \in Slot, Flight(s), req'[s] = req[s],
         started'[req[s].id] = started[req[s].id],
         deleted'[req[s].id] = deleted[req[s].id],
         req[s] # Idle => (req[s].id \in repeats' => req[s].id \in repeats)
  PROVE  Flight(s)'
  BY DEF Flight, At, Untouched

LEMMA PendingKept ==
  ASSUME NEW c, Pending(c),
         started'[c.id] = started[c.id], deleted'[c.id] = deleted[c.id],
         c.id \in repeats' => c.id \in repeats
  PROVE  Pending(c)'
  BY DEF Pending

LEMMA TruthKept ==
  ASSUME NEW s, Truthful(s), 1..calls \subseteq 1..calls',
         asked'[s.response.by] = asked[s.response.by],
         started'[s.response.by] = started[s.response.by],
         deleted'[s.response.by] = deleted[s.response.by]
  PROVE  Truthful(s)'
  BY DEF Truthful

\* An idle coroutine knows nothing.
LEMMA IdleFlight ==
  ASSUME NEW s \in Slot, req[s] = Idle
  PROVE  Flight(s)
  BY DEF Flight, Idle, At

-----------------------------------------------------------------------------
(***************************************************************************)
(* The kinds of steps.                                                     *)
(***************************************************************************)
\* Some requests end; one of them may leave a change behind.
LEMMA Stopping ==
  ASSUME CallsInv,
         caches' \subseteq Cache, head' \in Head,
         pull' \in {"open", "draft", "closed", "merged"},
         UNCHANGED <<started, deleted, merges, saved, calls, log>>,
         req' \in [Slot -> Known], \A s \in Slot : req'[s] \in {req[s], Idle},
         \A c \in late' : c \notin late =>
           \E r \in Slot : /\ At(r, "post") /\ req'[r] = Idle
                           /\ \E x \in req[r].todo : c = Change(r, x),
         \A c, d \in late' : c \notin late /\ d \notin late => c = d
  PROVE  CallsInv'
<1> USE DEF CallsInv
<1>a. \A c \in late' : c \notin late =>
        \E r \in Slot : /\ req[r] # Idle /\ req'[r] = Idle /\ req[r] \in Posting
                        /\ c.id = req[r].id /\ c.ask = req[r].ask
                        /\ c.target \in req[r].todo
                        /\ c = [id |-> c.id, ask |-> c.ask, target |-> c.target]
                        /\ At(r, "post")
  BY Shapes DEF Change, At, Idle
<1>1. Types'
  <2>1. late' \subseteq [id: Id, ask: Ask, target: Target]
    BY <1>a DEF Types, Posting
  <2> QED
    BY <2>1 DEF Types, log
<1>2. OnePlace'
  <2>1. \A c \in late' : c.id \in 1..calls /\ c.ask = asked[c.id]
    BY <1>a DEF OnePlace
  <2>2. \A c, d \in late' : c.id = d.id => c = d
    BY <1>a DEF OnePlace
  <2>3. \A c \in late', r \in Slot : req'[r] # Idle => req'[r].id # c.id
    BY <1>a DEF OnePlace
  <2> QED
    BY <2>1, <2>2, <2>3 DEF OnePlace, log
<1>3. \A r \in Slot : Flight(r)'
  <2>1. ASSUME NEW r \in Slot, req'[r] = Idle PROVE Flight(r)'
    BY <2>1 DEF Flight, Idle, At
  <2>2. ASSUME NEW r \in Slot, req'[r] = req[r] PROVE Flight(r)'
    BY <2>2, FlightKept DEF log
  <2> QED
    BY <2>1, <2>2
<1>4. \A c \in late' : Pending(c)'
  <2>1. ASSUME NEW c \in late', c \in late PROVE Pending(c)'
    BY <2>1, PendingKept DEF log
  <2>2. ASSUME NEW c \in late', c \notin late PROVE Pending(c)'
    <3>1. PICK r \in Slot : /\ req[r] # Idle /\ At(r, "post")
                            /\ c.id = req[r].id /\ c.ask = req[r].ask
                            /\ c.target \in req[r].todo
      BY <2>2, <1>a
    <3>2. Flight(r)
      OBVIOUS
    <3>3. c.id \notin repeats /\ (c.ask.op = "start" => started[c.id] = 0)
      BY <3>1, <3>2 DEF Flight, At
    <3>4. ASSUME c.ask.op = "delete" PROVE Agreed(c.ask, deleted[c.id] \cup {c.target})
      <4>1. /\ deleted[c.id] = req[r].done
            /\ Agreed(c.ask, req[r].todo \cup req[r].done)
        BY <3>1, <3>2, <3>4 DEF Flight, At
      <4>2. deleted[c.id] \cup {c.target} \subseteq req[r].todo \cup req[r].done
        BY <3>1, <4>1
      <4> QED
        BY <4>1, <4>2, AgreedFewer
    <3> QED
      BY <3>3, <3>4 DEF Pending, log
  <2> QED
    BY <2>1, <2>2
<1>5. RowsTrue'
  <2>1. \A s \in saved \cup answers : Truthful(s)'
    BY TruthKept DEF RowsTrue, log
  <2>2. \A s \in saved \cup answers : Over(s.response.by)'
    BY <1>a DEF RowsTrue, Over
  <2> QED
    BY <2>1, <2>2 DEF RowsTrue, log
<1>6. OneRow' /\ Ledger' /\ Repeated' /\ MergesOnlyExpected'
  BY DEF OneRow, Ledger, Repeated, MergesOnlyExpected, Untouched, Stored, log
<1> QED
  BY <1>1, <1>2, <1>3, <1>4, <1>5, <1>6

\* A request goes on, and nothing else changes.
LEMMA Moving ==
  ASSUME CallsInv, NEW r \in Slot, req[r] # Idle,
         NEW new \in Known, new # Idle, new.id = req[r].id, new.ask = req[r].ask,
         req' = [req EXCEPT ![r] = new], Flight(r)',
         UNCHANGED <<github, late, saved, calls, log>>
  PROVE  CallsInv'
<1> USE DEF CallsInv
<1>a. req'[r] = new /\ \A s \in Slot \ {r} : req'[s] = req[s]
  BY DEF Types
<1>1. Types'
  BY DEF Types, github, log
<1>2. OnePlace'
  BY <1>a DEF OnePlace, log
<1>3. \A s \in Slot : Flight(s)'
  BY <1>a, FlightKept DEF github, log
<1>4. \A c \in late' : Pending(c)'
  BY PendingKept DEF github, log
<1>5. RowsTrue'
  <2>1. \A s \in saved \cup answers : Truthful(s)'
    BY TruthKept DEF RowsTrue, github, log
  <2>2. \A s \in saved \cup answers : Over(s.response.by)'
    BY <1>a DEF RowsTrue, Over
  <2> QED
    BY <2>1, <2>2 DEF RowsTrue, log
<1>6. OneRow' /\ Ledger' /\ Repeated' /\ MergesOnlyExpected'
  BY DEF OneRow, Ledger, Repeated, MergesOnlyExpected, Untouched, Stored, github, log
<1> QED
  BY <1>1, <1>2, <1>3, <1>4, <1>5, <1>6

\* Saving a response keeps one row for each key, and every row there was; the
\* new response is in a row of the same key.
LEMMA Saving ==
  ASSUME saved \subseteq Rows, OneRow, NEW ask \in Ask, NEW response \in Responses,
         Saves(ask, response)
  PROVE  /\ saved' \subseteq Rows /\ OneRow'
         /\ \A s \in saved' : s \in saved \/ (/\ s.response = response
                                              /\ s.ask = ask \/ SameRow(ask, s.ask))
         /\ \A a : Stored(a) # {} => Stored(a)' # {}
         /\ ask.key # Nothing => Stored(ask)' # {}
<1> DEFINE row == [ask |-> ask, response |-> response]
           again(s) == [s EXCEPT !.response = response]
<1>1. row \in Rows /\ row.ask = ask /\ row.response = response
  BY DEF Rows
<1>2. \A s \in saved : /\ again(s) \in Rows /\ again(s).ask = s.ask
                       /\ again(s).response = response
  BY DEF Rows
<1> HIDE DEF row, again
<1>3. CASE ask.key = Nothing
  BY <1>3 DEF Saves, OneRow, Stored
<1>4. CASE ask.key # Nothing /\ Stored(ask) = {}
  <2>1. saved' = saved \cup {row}
    BY <1>4 DEF Saves, row
  <2>2. \A s \in saved : ~SameRow(s.ask, ask) /\ ~SameRow(ask, s.ask)
    BY <1>4, SameRowFacts DEF Stored
  <2>3. OneRow'
    BY <2>1, <2>2, <1>1 DEF OneRow
  <2>4. SameRow(row.ask, ask)
    BY <1>1, <1>4 DEF SameRow
  <2> QED
    BY <1>1, <2>1, <2>3, <2>4, <1>4 DEF Stored
<1>5. CASE ask.key # Nothing /\ Stored(ask) # {}
  <2>1. saved' = (saved \ Stored(ask)) \cup {again(s) : s \in Stored(ask)}
    BY <1>5 DEF Saves, again
  <2>2. PICK t \in Stored(ask) : TRUE
    BY <1>5
  <2>3. t \in saved /\ SameRow(t.ask, ask) /\ \A s \in Stored(ask) : s = t
    BY <2>2, SameRowFacts DEF Stored, OneRow
  <2>4. saved' = (saved \ {t}) \cup {again(t)}
    BY <2>1, <2>2, <2>3
  <2>5. OneRow'
    BY <2>3, <2>4, <1>2 DEF OneRow
  <2>6. \A a : Stored(a) # {} => Stored(a)' # {}
    BY <2>3, <2>4, <1>2 DEF Stored
  <2>7. Stored(ask)' # {}
    BY <2>6, <1>5
  <2> QED
    BY <1>2, <2>3, <2>4, <2>5, <2>6, <2>7, SameRowFacts
<1> QED
  BY <1>3, <1>4, <1>5

\* A request ends with an answer that says what it has done.
LEMMA Answering ==
  ASSUME CallsInv, NEW r \in Slot, req[r] # Idle, NEW done \in SUBSET Target,
         Answers(r, done), UNCHANGED <<github, late, calls, asked, repeats>>,
         req[r].ask.op = "start" => started[req[r].id] = 1,
         req[r].ask.op = "delete" => done = deleted[req[r].id]
  PROVE  CallsInv'
<1> USE DEF CallsInv
<1>1. req[r].ask \in Ask /\ req[r].id \in Id
  BY Shapes
<1>z. PICK ask \in Ask, i \in Id : ask = req[r].ask /\ i = req[r].id
  BY <1>1
<1> DEFINE response == [by |-> i, done |-> done]
           row == [ask |-> ask, response |-> response]
<1>a. /\ i \in 1..calls /\ asked[i] = ask
      /\ response \in Responses /\ response.by = i /\ response.done = done
  BY <1>z DEF OnePlace, Responses
<1>b. row \in Rows /\ row.ask = ask /\ row.response = response
  BY <1>a DEF Rows
<1>c. req'[r] = Idle /\ \A s \in Slot \ {r} : req'[s] = req[s]
  BY DEF Types, Answers, Ends, Goes
<1>d. answers' = answers \cup {row} /\ Saves(ask, response)
  BY <1>z DEF Answers, Response
<1> HIDE DEF response, row
<1>e. /\ saved' \subseteq Rows /\ OneRow'
      /\ \A s \in saved' : s \in saved \/ (/\ s.response = response
                                           /\ s.ask = ask \/ SameRow(ask, s.ask))
      /\ \A a : Stored(a) # {} => Stored(a)' # {}
      /\ ask.key # Nothing => Stored(ask)' # {}
  <2>1. saved \subseteq Rows /\ OneRow
    BY DEF Types
  <2> QED
    BY <2>1, <1>a, <1>d, Saving
<1>2. Types'
  <2>1. req' \in [Slot -> Known]
    BY DEF Types, Answers, Ends, Goes, Known
  <2> QED
    BY <2>1, <1>b, <1>d, <1>e DEF Types, github
<1>3. OnePlace'
  BY <1>c DEF OnePlace
<1>4. \A s \in Slot : Flight(s)'
  <2>1. Flight(r)'
    BY <1>c DEF Flight, Idle, At
  <2> QED
    BY <2>1, <1>c, FlightKept DEF github
<1>5. \A c \in late' : Pending(c)'
  BY PendingKept DEF github
<1>6. \A a : Stored(a) # {} => Stored(a)' # {}
  BY <1>e
<1>7. Ledger' /\ MergesOnlyExpected'
  BY DEF Ledger, Untouched, MergesOnlyExpected, github
<1>8. Repeated'
  <2>1. \A a \in answers' : a.ask.key # Nothing => Stored(a.ask)' # {}
    <3>1. ASSUME NEW a \in answers, a.ask.key # Nothing PROVE Stored(a.ask)' # {}
      BY <3>1, <1>6 DEF Repeated
    <3>2. row.ask.key # Nothing => Stored(row.ask)' # {}
      BY <1>b, <1>e DEF Stored
    <3> QED
      BY <1>d, <3>1, <3>2
  <2>2. \A j \in repeats : Untouched(j)' /\ Stored(asked[j])' # {}
    BY <1>6 DEF Repeated, Untouched, github
  <2> QED
    BY <2>1, <2>2 DEF Repeated
<1>9. RowsTrue'
  <2>1. Over(i)'
    <3>1. \A s \in Slot : req'[s] # Idle => req'[s].id # i
      BY <1>c, <1>z DEF OnePlace
    <3>2. \A c \in late' : c.id # i
      BY <1>z DEF OnePlace
    <3> QED
      BY <3>1, <3>2 DEF Over
  <2>2. ASSUME NEW s \in saved \cup answers PROVE Truthful(s)' /\ Over(s.response.by)'
    BY <1>c, TruthKept DEF RowsTrue, Over, github
  <2>3. ASSUME NEW s, s.response = response, s.ask = ask \/ SameRow(ask, s.ask)
        PROVE  Truthful(s)' /\ Over(s.response.by)'
    <3>1. s.response.by = i /\ s.response.done = done /\ s.ask.op = ask.op
      BY <1>a, <2>3 DEF SameRow
    <3>2. asked[i] = s.ask \/ SameRow(asked[i], s.ask)
      BY <1>a, <2>3
    <3>3. /\ s.ask.op = "start" => started[i] = 1
          /\ s.ask.op = "delete" => done = deleted[i]
      BY <3>1, <1>z
    <3>4. Truthful(s)'
      BY <1>a, <3>1, <3>2, <3>3 DEF Truthful, github
    <3>5. Over(s.response.by)'
      BY <2>1, <3>1 DEF Over
    <3> QED
      BY <3>4, <3>5
  <2> QED
    BY <1>b, <1>d, <1>e, <2>2, <2>3 DEF RowsTrue
<1> QED
  BY <1>2, <1>3, <1>4, <1>5, <1>7, <1>8, <1>9, <1>e

\* A stored response is given again.
LEMMA Replaying ==
  ASSUME CallsInv, NEW r \in Slot, req[r] # Idle, Ends(r),
         answers' = answers \cup {s \in Stored(req[r].ask) : s.ask = req[r].ask},
         UNCHANGED <<github, late, calls, asked, repeats, saved>>
  PROVE  CallsInv'
<1> USE DEF CallsInv
<1>a. req'[r] = Idle /\ \A s \in Slot \ {r} : req'[s] = req[s]
  BY DEF Types, Ends, Goes
<1>b. \A a \in answers' : a \in answers \/ (a \in saved /\ SameRow(a.ask, a.ask))
  BY DEF Stored
<1>1. Types'
  <2>1. req' \in [Slot -> Known]
    BY DEF Types, Ends, Goes, Known
  <2> QED
    BY <2>1, <1>b DEF Types, github
<1>2. OnePlace'
  BY <1>a DEF OnePlace
<1>3. \A s \in Slot : Flight(s)'
  <2>1. Flight(r)'
    BY <1>a DEF Flight, Idle, At
  <2> QED
    BY <2>1, <1>a, FlightKept DEF github
<1>4. \A c \in late' : Pending(c)'
  BY PendingKept DEF github
<1>5. OneRow' /\ Ledger' /\ MergesOnlyExpected'
  BY DEF OneRow, Ledger, Untouched, MergesOnlyExpected, github
<1>6. Repeated'
  BY <1>b DEF Repeated, Stored, Untouched, github
<1>7. RowsTrue'
  <2>1. ASSUME NEW s \in saved \cup answers PROVE Truthful(s)' /\ Over(s.response.by)'
    BY <1>a, TruthKept DEF RowsTrue, Over, github
  <2> QED
    BY <1>b, <2>1 DEF RowsTrue
<1> QED
  BY <1>1, <1>2, <1>3, <1>4, <1>5, <1>6, <1>7

\* GitHub carries out a change or refuses it: what is recorded of the request
\* that asked for it grows by that change, and nothing else.
LEMMA Landing ==
  ASSUME CallsInv, NEW c \in [id: Id, ask: Ask, target: Target], Lands(c),
         c.id \in 1..calls, c.ask = asked[c.id], Pending(c),
         UNCHANGED <<calls, log, saved>>
  PROVE  /\ caches' \subseteq Cache /\ head' \in Head
         /\ pull' \in {"open", "draft", "closed", "merged"}
         /\ started' \in [Id -> Nat] /\ deleted' \in [Id -> SUBSET Cache]
         /\ \A j \in Id \ {c.id} : started'[j] = started[j] /\ deleted'[j] = deleted[j]
         /\ started'[c.id] = IF c.ask.op = "start" THEN started[c.id] + 1 ELSE started[c.id]
         /\ deleted'[c.id] = IF c.ask.op = "delete" /\ ~Refused(c)
                             THEN deleted[c.id] \cup {c.target} ELSE deleted[c.id]
         /\ Ledger' /\ Repeated' /\ MergesOnlyExpected'
<1> USE DEF CallsInv
<1>1. /\ started \in [Id -> Nat] /\ deleted \in [Id -> SUBSET Cache] /\ c.id \in Id
      /\ caches \subseteq Cache /\ calls \in Nat /\ 1..calls \subseteq Id
  BY CallsAssumption DEF Types, Id
<1>2. c.ask.op = "delete" /\ ~Refused(c) => c.target \in Cache
  BY <1>1 DEF Refused
<1>3. c.ask.op = "start" => ~Refused(c)
  BY DEF Refused
<1>4. /\ caches' \subseteq Cache /\ head' = head
      /\ pull' \in {"open", "draft", "closed", "merged"}
      /\ started' = IF c.ask.op = "start"
                    THEN [started EXCEPT ![c.id] = @ + 1] ELSE started
      /\ deleted' = IF c.ask.op = "delete" /\ ~Refused(c)
                    THEN [deleted EXCEPT ![c.id] = @ \cup {c.target}] ELSE deleted
  BY <1>1, <1>3 DEF Lands, Happens, github, Types
<1>5. /\ started' \in [Id -> Nat] /\ deleted' \in [Id -> SUBSET Cache]
      /\ \A j \in Id \ {c.id} : started'[j] = started[j] /\ deleted'[j] = deleted[j]
      /\ started'[c.id] = IF c.ask.op = "start" THEN started[c.id] + 1 ELSE started[c.id]
      /\ deleted'[c.id] = IF c.ask.op = "delete" /\ ~Refused(c)
                          THEN deleted[c.id] \cup {c.target} ELSE deleted[c.id]
  BY <1>1, <1>2, <1>4
<1>6. Ledger'
  <2>1. ASSUME NEW j \in 1..calls
        PROVE  started'[j] <= 1 /\ (deleted'[j] # {} => Agreed(asked[j], deleted'[j]))
    <3>1. CASE j # c.id
      BY <1>1, <1>5, <2>1, <3>1 DEF Ledger
    <3>2. CASE j = c.id
      <4>1. started[j] <= 1 /\ (deleted[j] # {} => Agreed(asked[j], deleted[j]))
        BY <2>1 DEF Ledger
      <4>2. started'[j] <= 1
        BY <1>1, <1>5, <3>2, <4>1 DEF Pending
      <4>3. deleted'[j] # {} => Agreed(asked[j], deleted'[j])
        BY <1>5, <3>2, <4>1 DEF Pending
      <4> QED
        BY <4>2, <4>3
    <3> QED
      BY <3>1, <3>2
  <2>2. \A j \in Id : j > calls => Untouched(j)'
    BY <1>1, <1>5 DEF Ledger, Untouched
  <2> QED
    BY <2>1, <2>2 DEF Ledger, log
<1>7. Repeated'
  <2>1. \A j \in repeats : j # c.id /\ j \in Id
    BY <1>1 DEF Pending, Types
  <2>2. \A j \in repeats : Untouched(j)'
    BY <1>5, <2>1 DEF Repeated, Untouched
  <2> QED
    BY <2>2 DEF Repeated, Stored, log
<1>8. MergesOnlyExpected'
  <2>1. c.ask.op = "merge" => c.ask.expected \in Head
    BY DEF Ask, Start, Delete, Merge
  <2>2. c.ask.op = "merge" /\ ~Refused(c) => c.ask.expected = head
    BY <2>1, NothingIsNew DEF Refused, ShaSent, Head
  <2> QED
    BY <2>2 DEF Lands, Happens, MergesOnlyExpected, github
<1> QED
  BY <1>4, <1>5, <1>6, <1>7, <1>8 DEF Types

-----------------------------------------------------------------------------
(***************************************************************************)
(* The steps.                                                              *)
(***************************************************************************)
\* A request ends, and nothing else happens.
LEMMA Ending ==
  ASSUME CallsInv, NEW r \in Slot, Ends(r), UNCHANGED <<github, late, saved, calls, log>>
  PROVE  CallsInv'
<1>1. req' \in [Slot -> Known] /\ \A s \in Slot : req'[s] \in {req[s], Idle}
  BY DEF CallsInv, Types, Ends, Goes, Known
<1>2. caches' \subseteq Cache /\ head' \in Head /\ pull' \in {"open", "draft", "closed", "merged"}
  BY DEF CallsInv, Types, github
<1> QED
  BY <1>1, <1>2, Stopping DEF github

LEMMA ArriveStep ==
  ASSUME CallsInv, NEW r \in Slot, Arrive(r)
  PROVE  CallsInv'
<1> USE DEF CallsInv
<1>1. PICK ask \in Ask :
        /\ Goes(r, [pc |-> "lookup", id |-> calls', ask |-> ask])
        /\ asked' = [i \in 1..calls' |-> IF i = calls' THEN ask ELSE asked[i]]
        /\ repeats' = IF \E a \in answers : SameRow(a.ask, ask)
                      THEN repeats \cup {calls'} ELSE repeats
  BY DEF Arrive
<1>2. PICK n \in Id : n = calls + 1 /\ calls' = n /\ calls \in Nat /\ 1..calls \subseteq Id
                      /\ 1..n = 1..calls \cup {n} /\ n \notin 1..calls
  BY CallsAssumption DEF Arrive, Types, Id
<1>3. /\ req'[r] = [pc |-> "lookup", id |-> n, ask |-> ask]
      /\ \A s \in Slot \ {r} : req'[s] = req[s]
      /\ req[r] = Idle /\ req' \in [Slot -> Known]
  BY <1>1, <1>2 DEF Arrive, Types, Goes, Known, Looking
<1>4. /\ asked' \in [1..n -> Ask] /\ asked'[n] = ask
      /\ \A i \in 1..calls : asked'[i] = asked[i]
  BY <1>1, <1>2 DEF Types
<1>5. \A i \in repeats' : i \in repeats \/ (i = n /\ \E a \in answers : SameRow(a.ask, ask))
  BY <1>1, <1>2
<1>6. UNCHANGED <<github, late, saved, answers>>
  BY DEF Arrive
<1>7. Types'
  <2>1. repeats \subseteq 1..calls /\ n \in 0..MaxCalls
    BY <1>2, CallsAssumption DEF Types, Id
  <2>2. repeats' \subseteq 1..n /\ n \in 1..n
    BY <1>2, <1>5, <2>1
  <2> QED
    BY <1>2, <1>3, <1>4, <1>6, <2>1, <2>2 DEF Types, github
<1>8. OnePlace'
  <2>1. \A s \in Slot : req'[s] # Idle =>
           req'[s].id \in 1..n /\ req'[s].ask = asked'[req'[s].id]
    BY <1>2, <1>3, <1>4 DEF OnePlace
  <2>2. \A c \in late : c.id \in 1..calls /\ c.ask = asked'[c.id]
    BY <1>4 DEF OnePlace
  <2>3. \A q, s \in Slot : req'[q] # Idle /\ req'[s] # Idle /\ req'[q].id = req'[s].id => q = s
    BY <1>2, <1>3 DEF OnePlace
  <2>4. \A c \in late, s \in Slot : req'[s] # Idle => req'[s].id # c.id
    BY <1>2, <1>3 DEF OnePlace
  <2> QED
    BY <1>2, <1>6, <2>1, <2>2, <2>3, <2>4 DEF OnePlace
<1>9. \A s \in Slot : Flight(s)'
  <2>1. Untouched(n)
    BY <1>2 DEF Ledger
  <2>2. Flight(r)'
    BY <1>3, <1>6, <2>1 DEF Flight, At, Idle, Untouched, github
  <2>3. ASSUME NEW s \in Slot \ {r} PROVE Flight(s)'
    <3>1. req[s] # Idle => (req[s].id \in repeats' => req[s].id \in repeats)
      BY <1>2, <1>5 DEF OnePlace
    <3> QED
      BY <1>3, <1>6, <3>1, FlightKept DEF github
  <2> QED
    BY <2>2, <2>3
<1>10. \A c \in late' : Pending(c)'
  <2>1. \A c \in late : c.id \in repeats' => c.id \in repeats
    BY <1>2, <1>5 DEF OnePlace
  <2> QED
    BY <1>6, <2>1, PendingKept DEF github
<1>11. Ledger'
  BY <1>2, <1>4, <1>6 DEF Ledger, Untouched, github
<1>12. Repeated'
  <2>1. \A a \in answers : a.ask.key # Nothing => Stored(a.ask)' # {}
    BY <1>6 DEF Repeated, Stored
  <2>2. ASSUME NEW i \in repeats PROVE Untouched(i)' /\ Stored(asked[i])' # {}
    <3>1. asked'[i] = asked[i] /\ Untouched(i) /\ Stored(asked[i]) # {}
      BY <1>4 DEF Types, Repeated
    <3> QED
      BY <1>6, <3>1 DEF Untouched, Stored, github
  <2>3. ASSUME NEW a \in answers, SameRow(a.ask, ask)
        PROVE  Untouched(n)' /\ Stored(asked[n])' # {}
    <3>1. PICK t \in saved : SameRow(t.ask, a.ask)
      BY <2>3 DEF Repeated, SameRow, Stored
    <3>2. SameRow(t.ask, ask)
      BY <2>3, <3>1, SameRowFacts
    <3>3. Stored(asked[n])' # {}
      BY <1>4, <1>6, <3>1, <3>2 DEF Stored
    <3>4. Untouched(n)'
      BY <1>2, <1>6 DEF Ledger, Untouched, github
    <3> QED
      BY <3>3, <3>4
  <2>4. \A i \in repeats' : Untouched(i)' /\ Stored(asked[i])' # {}
    BY <1>5, <2>2, <2>3
  <2> QED
    BY <1>6, <2>1, <2>4 DEF Repeated
<1>13. RowsTrue'
  <2>1. ASSUME NEW s \in saved \cup answers PROVE Truthful(s)' /\ Over(s.response.by)'
    BY <1>2, <1>3, <1>4, <1>6, TruthKept DEF RowsTrue, Truthful, Over, github
  <2> QED
    BY <1>6, <2>1 DEF RowsTrue
<1>14. OneRow' /\ MergesOnlyExpected'
  BY <1>6 DEF OneRow, MergesOnlyExpected, github
<1> QED
  BY <1>7, <1>8, <1>9, <1>10, <1>11, <1>12, <1>13, <1>14

\* A request that goes on to change something was not answered before.
LEMMA NotRepeated ==
  ASSUME CallsInv, NEW r \in Slot, req[r] # Idle,
         ~At(r, "lookup") \/ Stored(req[r].ask) = {}
  PROVE  req[r].id \notin repeats
  BY DEF CallsInv, Flight, Repeated, OnePlace

LEMMA LookupStep ==
  ASSUME CallsInv, NEW r \in Slot, Lookup(r)
  PROVE  CallsInv'
<1>1. req[r] \in Looking /\ req[r] # Idle /\ At(r, "lookup")
  BY Shapes DEF Lookup, CallsInv, Idle, Looking
<1>2. Untouched(req[r].id)
  BY <1>1 DEF CallsInv, Flight
<1>3. UNCHANGED <<github, late, calls, asked, repeats>>
  BY DEF Lookup
<1>4. CASE /\ answers' = answers \cup {s \in Stored(req[r].ask) : s.ask = req[r].ask}
           /\ Ends(r) /\ UNCHANGED saved
  BY <1>1, <1>3, <1>4, Replaying
<1>5. CASE Stored(req[r].ask) = {} /\ Reads(r) /\ UNCHANGED <<saved, answers>>
  <2> DEFINE new == [pc |-> "read", id |-> req[r].id, ask |-> req[r].ask]
  <2>1. new \in Known /\ new # Idle /\ new.id = req[r].id /\ new.ask = req[r].ask
    BY <1>1 DEF Known, Looking, Idle
  <2>2. req' = [req EXCEPT ![r] = new] /\ req'[r] = new
    BY <1>5 DEF Reads, Goes, CallsInv, Types
  <2>3. req[r].id \notin repeats
    BY <1>1, <1>5, NotRepeated
  <2>4. Flight(r)'
    BY <1>2, <1>3, <2>2, <2>3 DEF Flight, At, Untouched, github
  <2> HIDE DEF new
  <2> QED
    BY <1>1, <1>3, <1>5, <2>1, <2>2, <2>4, Moving DEF log
<1>6. CASE ById(req[r].ask) /\ Answers(r, {})
  BY <1>1, <1>2, <1>3, <1>6, Answering DEF ById, Untouched
<1>7. CASE /\ Stored(req[r].ask) = {} /\ ById(req[r].ask)
           /\ ~req[r].ask.dry /\ Confirmed(req[r].ask)
           /\ Posts(r, {req[r].ask.cache}, {}) /\ UNCHANGED <<saved, answers>>
  <2> DEFINE new == [pc |-> "post", id |-> req[r].id, ask |-> req[r].ask,
                     todo |-> {req[r].ask.cache}, done |-> {}]
  <2>1. /\ req[r].ask.cache \in Cache /\ req[r].ask.op = "delete"
        /\ ~req[r].ask.dry /\ req[r].ask.confirm
    BY <1>1, <1>7 DEF ById, Looking, Ask, Start, Delete, Merge, Confirmed
  <2>2. new \in Known /\ new # Idle /\ new.id = req[r].id /\ new.ask = req[r].ask
    BY <1>1, <2>1 DEF Known, Looking, Posting, Idle, Target
  <2>3. req' = [req EXCEPT ![r] = new] /\ req'[r] = new
    BY <1>7 DEF Posts, Goes, CallsInv, Types
  <2>4. req[r].id \notin repeats
    BY <1>1, <1>7, NotRepeated
  <2>5. Agreed(req[r].ask, {req[r].ask.cache} \cup {})
    BY <1>7, <2>1 DEF Agreed, ById, Selects
  <2>6. /\ req'[r].pc = "post" /\ req'[r].id = req[r].id /\ req'[r].ask = req[r].ask
        /\ req'[r].todo = {req[r].ask.cache} /\ req'[r].done = {}
    BY <2>3
  <2>7. /\ repeats' = repeats /\ deleted' = deleted /\ deleted[req[r].id] = {}
    BY <1>2, <1>3 DEF Untouched, github
  <2>8. req[r].ask.op = "delete"
    BY <2>1
  <2> HIDE DEF new
  <2>9. Flight(r)'
    BY <2>4, <2>5, <2>6, <2>7, <2>8 DEF Flight, At
  <2> QED
    BY <1>1, <1>3, <1>7, <2>2, <2>3, <2>9, Moving DEF log
<1>8. CASE Ends(r) /\ UNCHANGED <<saved, answers>>
  BY <1>3, <1>8, Ending DEF log
<1> QED
  BY <1>4, <1>5, <1>6, <1>7, <1>8 DEF Lookup

\* A start or a merge is about to be sent.
LEMMA Sending ==
  ASSUME CallsInv, NEW r \in Slot, At(r, "read"), req[r].ask.op \in {"start", "merge"},
         Posts(r, {Nothing}, {}), UNCHANGED <<github, late, saved, calls, log>>
  PROVE  CallsInv'
<1> DEFINE new == [pc |-> "post", id |-> req[r].id, ask |-> req[r].ask,
                   todo |-> {Nothing}, done |-> {}]
<1>1. req[r] \in Looking /\ req[r] # Idle
  BY Shapes DEF CallsInv, Idle, Looking
<1>2. new \in Known /\ new # Idle /\ new.id = req[r].id /\ new.ask = req[r].ask
  BY <1>1 DEF Known, Looking, Posting, Idle, Target
<1>3. req' = [req EXCEPT ![r] = new] /\ req'[r] = new
  BY DEF Posts, Goes, CallsInv, Types
<1>4. Untouched(req[r].id) /\ req[r].id \notin repeats
  BY <1>1 DEF CallsInv, Flight, At
<1>5. Flight(r)'
  BY <1>3, <1>4 DEF Flight, At, Untouched, github, log
<1> HIDE DEF new
<1> QED
  BY <1>1, <1>2, <1>3, <1>5, Moving

LEMMA ReadToDeleteStep ==
  ASSUME CallsInv, NEW r \in Slot, ReadToDelete(r)
  PROVE  CallsInv'
<1>1. /\ req[r] \in Looking /\ req[r] # Idle /\ At(r, "read")
      /\ req[r].ask.op = "delete" /\ req[r].ask \in Delete
  BY Shapes DEF ReadToDelete, Selects, CallsInv, Idle, Looking, Ask, Start, Merge
<1>2. Untouched(req[r].id) /\ req[r].id \notin repeats
  BY <1>1 DEF CallsInv, Flight, At
<1>3. UNCHANGED <<github, late, calls, asked, repeats>>
  BY DEF ReadToDelete
<1>4. CASE Answers(r, {})
  BY <1>1, <1>2, <1>3, <1>4, Answering DEF Untouched
<1>5. CASE /\ Cardinality(caches) <= MaxDelete /\ Confirmed(req[r].ask)
           /\ ~req[r].ask.dry /\ MatchExpected(req[r].ask, caches)
           /\ Posts(r, caches, {}) /\ UNCHANGED <<saved, answers>>
  <2> DEFINE new == [pc |-> "post", id |-> req[r].id, ask |-> req[r].ask,
                     todo |-> caches, done |-> {}]
  <2>1. caches \subseteq Cache /\ IsFiniteSet(caches)
    BY CallsAssumption, FS_Subset DEF CallsInv, Types
  <2>2. new \in Known /\ new # Idle /\ new.id = req[r].id /\ new.ask = req[r].ask
    BY <1>1, <2>1 DEF Known, Looking, Posting, Idle, Target
  <2>3. req' = [req EXCEPT ![r] = new] /\ req'[r] = new
    BY <1>5 DEF Posts, Goes, CallsInv, Types
  <2>4. Agreed(req[r].ask, caches \cup {})
    BY <1>5, <2>1 DEF Agreed, ById, Selects, ReadToDelete, Confirmed, MatchExpected
  <2>5. Flight(r)'
    BY <1>1, <1>2, <1>3, <2>3, <2>4 DEF Flight, At, Untouched, github
  <2> HIDE DEF new
  <2> QED
    BY <1>1, <1>3, <1>5, <2>2, <2>3, <2>5, Moving DEF log
<1>6. CASE Ends(r) /\ UNCHANGED <<saved, answers>>
  BY <1>3, <1>6, Ending DEF log
<1> QED
  BY <1>4, <1>5, <1>6 DEF ReadToDelete

\* What holds of the requests other than the one whose change lands.
LEMMA Undisturbed ==
  ASSUME CallsInv, NEW i \in Id, UNCHANGED <<log, calls, saved>>,
         \A j \in Id \ {i} : started'[j] = started[j] /\ deleted'[j] = deleted[j]
  PROVE  /\ \A s \in Slot : req[s] # Idle /\ req[s].id # i /\ req'[s] = req[s] => Flight(s)'
         /\ \A c \in late : c.id # i => Pending(c)'
         /\ ~Over(i) => \A s \in saved \cup answers : s.response.by # i /\ Truthful(s)'
<1> USE DEF CallsInv
<1>1. ASSUME NEW s \in Slot, req[s] # Idle, req[s].id # i, req'[s] = req[s]
      PROVE  Flight(s)'
  BY <1>1, Shapes, FlightKept DEF log
<1>2. ASSUME NEW c \in late, c.id # i PROVE Pending(c)'
  BY <1>2, PendingKept DEF log, Types
<1>3. ASSUME ~Over(i), NEW s \in saved \cup answers
      PROVE  s.response.by # i /\ Truthful(s)'
  <2>1. s.response.by \in Id /\ s.response.by # i /\ Truthful(s)
    BY <1>3 DEF RowsTrue, Types, Rows, Responses
  <2> QED
    BY <2>1, TruthKept DEF log
<1> QED
  BY <1>1, <1>2, <1>3

LEMMA PostStep ==
  ASSUME CallsInv, NEW r \in Slot, Post(r)
  PROVE  CallsInv'
<1> USE DEF CallsInv
<1>1. /\ req[r] \in Posting /\ req[r] # Idle /\ At(r, "post") /\ Flight(r)
      /\ req[r].id \in 1..calls /\ req[r].ask = asked[req[r].id]
  BY Shapes DEF Post, Idle, Posting, OnePlace
<1>2. PICK x \in req[r].todo :
        /\ Lands(Change(r, x))
        /\ Goes(r, [pc |-> "reply", id |-> req[r].id, ask |-> req[r].ask,
                    todo |-> req[r].todo \ {x}, done |-> req[r].done, now |-> x,
                    ok |-> ~Refused(Change(r, x))])
  BY DEF Post
<1>3. PICK i \in Id, ask \in Ask, ok \in BOOLEAN, c \in [id: Id, ask: Ask, target: Target] :
        /\ i = req[r].id /\ ask = req[r].ask /\ (ok <=> ~Refused(Change(r, x)))
        /\ c = Change(r, x) /\ c.id = i /\ c.ask = ask /\ c.target = x
  <2>1. /\ req[r].id \in Id /\ req[r].ask \in Ask /\ x \in Target
        /\ (~Refused(Change(r, x))) \in BOOLEAN
    BY <1>1, <1>2 DEF Posting
  <2>2. /\ Change(r, x) \in [id: Id, ask: Ask, target: Target]
        /\ Change(r, x).id = req[r].id /\ Change(r, x).ask = req[r].ask
        /\ Change(r, x).target = x
    BY <2>1 DEF Change
  <2> QED
    BY <2>1, <2>2
<1> DEFINE new == [pc |-> "reply", id |-> i, ask |-> ask, todo |-> req[r].todo \ {x},
                   done |-> req[r].done, now |-> x, ok |-> ok]
<1>4. /\ req'[r] = new /\ \A s \in Slot \ {r} : req'[s] = req[s]
      /\ req' \in [Slot -> Known] /\ new # Idle
      /\ UNCHANGED <<late, saved, calls, log>>
  BY <1>1, <1>2, <1>3 DEF Types, Goes, Known, Replying, Posting, Idle, Post
<1>5. Pending(c)
  <2>1. ASSUME ask.op = "delete" PROVE Agreed(ask, deleted[i] \cup {x})
    <3>1. Agreed(ask, req[r].todo \cup req[r].done) /\ deleted[i] = req[r].done
      BY <1>1, <1>3, <2>1 DEF Flight, At
    <3>2. deleted[i] \cup {x} \subseteq req[r].todo \cup req[r].done
      BY <3>1
    <3> QED
      BY <3>1, <3>2, AgreedFewer
  <2>2. i \notin repeats /\ (ask.op = "start" => started[i] = 0)
    BY <1>1, <1>3 DEF Flight, At
  <2> QED
    BY <1>3, <2>1, <2>2 DEF Pending
<1>6. /\ caches' \subseteq Cache /\ head' \in Head
      /\ pull' \in {"open", "draft", "closed", "merged"}
      /\ started' \in [Id -> Nat] /\ deleted' \in [Id -> SUBSET Cache]
      /\ \A j \in Id \ {i} : started'[j] = started[j] /\ deleted'[j] = deleted[j]
      /\ started'[i] = IF ask.op = "start" THEN started[i] + 1 ELSE started[i]
      /\ deleted'[i] = IF ask.op = "delete" /\ ok THEN deleted[i] \cup {x} ELSE deleted[i]
      /\ Ledger' /\ Repeated' /\ MergesOnlyExpected'
  BY <1>1, <1>2, <1>3, <1>4, <1>5, Landing
<1>7. ~Over(i)
  BY <1>1, <1>3 DEF Over
<1>8. /\ \A s \in Slot : req[s] # Idle /\ req[s].id # i /\ req'[s] = req[s] => Flight(s)'
      /\ \A d \in late : d.id # i => Pending(d)'
      /\ \A s \in saved \cup answers : s.response.by # i /\ Truthful(s)'
  BY <1>4, <1>6, <1>7, Undisturbed
<1>9. Types'
  BY <1>4, <1>6 DEF Types, log
<1>10. OnePlace'
  BY <1>1, <1>3, <1>4 DEF OnePlace, log
<1>11. Flight(r)'
  <2>1. ask.op = "start" => started'[i] = 1 /\ req[r].todo \ {x} = {} /\ ok
    BY <1>1, <1>2, <1>3, <1>6 DEF Flight, At, Refused
  <2>2. ASSUME ask.op = "delete"
        PROVE  /\ deleted'[i] = IF ok THEN req[r].done \cup {x} ELSE req[r].done
               /\ Agreed(ask, (req[r].todo \ {x}) \cup req[r].done \cup {x})
    <3>1. Agreed(ask, req[r].todo \cup req[r].done) /\ deleted[i] = req[r].done
      BY <1>1, <1>3, <2>2 DEF Flight, At
    <3>2. (req[r].todo \ {x}) \cup req[r].done \cup {x} \subseteq req[r].todo \cup req[r].done
      OBVIOUS
    <3> QED
      BY <1>6, <2>2, <3>1, <3>2, AgreedFewer
  <2>3. i \notin repeats'
    BY <1>3, <1>4, <1>5 DEF Pending, log
  <2> QED
    BY <1>4, <2>1, <2>2, <2>3 DEF Flight, At
<1>12. \A s \in Slot : Flight(s)'
  <2>1. ASSUME NEW s \in Slot \ {r}, req[s] = Idle PROVE Flight(s)'
    BY <1>4, <2>1 DEF Flight, At, Idle
  <2>2. ASSUME NEW s \in Slot \ {r}, req[s] # Idle PROVE Flight(s)'
    BY <1>1, <1>3, <1>4, <1>8, <2>2 DEF OnePlace
  <2> QED
    BY <1>11, <2>1, <2>2
<1>13. \A d \in late' : Pending(d)'
  BY <1>1, <1>3, <1>4, <1>8 DEF OnePlace
<1>14. RowsTrue'
  <2>1. ASSUME NEW s \in saved \cup answers PROVE Over(s.response.by)'
    BY <1>3, <1>4, <1>8, <2>1 DEF RowsTrue, Over
  <2> QED
    BY <1>4, <1>8, <2>1 DEF RowsTrue, log
<1>15. OneRow'
  BY <1>4 DEF OneRow
<1> QED
  BY <1>6, <1>9, <1>10, <1>12, <1>13, <1>14, <1>15

LEMMA ArrivesStep ==
  ASSUME CallsInv, NEW c \in late, Arrives(c)
  PROVE  CallsInv'
<1> USE DEF CallsInv
<1>1. /\ c \in [id: Id, ask: Ask, target: Target] /\ c.id \in 1..calls /\ c.id \in Id
      /\ c.ask = asked[c.id] /\ Pending(c)
  BY DEF Types, OnePlace
<1>2. UNCHANGED <<req, saved, calls, log>> /\ late' = late \ {c} /\ Lands(c)
  BY DEF Arrives
<1>3. PICK i \in Id : i = c.id
  BY <1>1
<1>4. /\ caches' \subseteq Cache /\ head' \in Head
      /\ pull' \in {"open", "draft", "closed", "merged"}
      /\ started' \in [Id -> Nat] /\ deleted' \in [Id -> SUBSET Cache]
      /\ \A j \in Id \ {i} : started'[j] = started[j] /\ deleted'[j] = deleted[j]
      /\ Ledger' /\ Repeated' /\ MergesOnlyExpected'
  BY <1>1, <1>2, <1>3, Landing
<1>5. ~Over(i)
  BY <1>3 DEF Over
<1>6. /\ \A s \in Slot : req[s] # Idle /\ req[s].id # i /\ req'[s] = req[s] => Flight(s)'
      /\ \A d \in late : d.id # i => Pending(d)'
      /\ \A s \in saved \cup answers : s.response.by # i /\ Truthful(s)'
  BY <1>2, <1>4, <1>5, Undisturbed
<1>7. Types' /\ OnePlace' /\ OneRow'
  BY <1>2, <1>4 DEF Types, OnePlace, OneRow, log
<1>8. \A s \in Slot : Flight(s)'
  <2>1. ASSUME NEW s \in Slot, req[s] = Idle PROVE Flight(s)'
    BY <1>2, <2>1 DEF Flight, At, Idle
  <2>2. ASSUME NEW s \in Slot, req[s] # Idle PROVE Flight(s)'
    BY <1>2, <1>3, <1>6, <2>2 DEF OnePlace
  <2> QED
    BY <2>1, <2>2
<1>9. \A d \in late' : Pending(d)'
  BY <1>2, <1>3, <1>6 DEF OnePlace
<1>10. RowsTrue'
  BY <1>2, <1>6 DEF RowsTrue, Over, log
<1> QED
  BY <1>4, <1>7, <1>8, <1>9, <1>10

LEMMA ReplyStep ==
  ASSUME CallsInv, NEW r \in Slot, Reply(r)
  PROVE  CallsInv'
<1>1. /\ req[r] \in Replying /\ req[r] # Idle /\ At(r, "reply") /\ Flight(r)
  BY Shapes DEF Reply, CallsInv, Idle, Replying
<1>2. UNCHANGED <<github, late, calls, asked, repeats>>
  BY DEF Reply
<1> DEFINE done == req[r].done \cup {req[r].now}
<1>3. CASE /\ req[r].ok /\ req[r].todo # {}
           /\ Posts(r, req[r].todo, done) /\ UNCHANGED <<saved, answers>>
  <2> DEFINE new == [pc |-> "post", id |-> req[r].id, ask |-> req[r].ask,
                     todo |-> req[r].todo, done |-> done]
  <2>1. new \in Known /\ new # Idle /\ new.id = req[r].id /\ new.ask = req[r].ask
    BY <1>1 DEF Known, Replying, Posting, Idle
  <2>2. req' = [req EXCEPT ![r] = new] /\ req'[r] = new
    BY <1>3 DEF Posts, Goes, CallsInv, Types
  <2>3. req[r].ask.op # "start" /\ req[r].id \notin repeats
    BY <1>1, <1>3 DEF Flight, At
  <2>4. ASSUME req[r].ask.op = "delete"
        PROVE  deleted[req[r].id] = done /\ Agreed(req[r].ask, req[r].todo \cup done)
    <3>1. /\ Agreed(req[r].ask, req[r].todo \cup req[r].done \cup {req[r].now})
          /\ deleted[req[r].id] = done
      BY <1>1, <1>3, <2>4 DEF Flight, At
    <3>2. req[r].todo \cup done \subseteq req[r].todo \cup req[r].done \cup {req[r].now}
      OBVIOUS
    <3> QED
      BY <3>1, <3>2, AgreedFewer
  <2>5. Flight(r)'
    BY <1>1, <1>2, <2>2, <2>3, <2>4 DEF Flight, At, github
  <2> HIDE DEF new
  <2> QED
    BY <1>1, <1>2, <1>3, <2>1, <2>2, <2>5, Moving DEF log
<1>4. CASE req[r].ok /\ req[r].todo = {} /\ Answers(r, done)
  <2>1. /\ req[r].ask.op = "start" => started[req[r].id] = 1
        /\ req[r].ask.op = "delete" => done = deleted[req[r].id]
        /\ done \in SUBSET Target
    BY <1>1, <1>4 DEF Flight, At, Replying
  <2> HIDE DEF done
  <2> QED
    BY <1>1, <1>2, <1>4, <2>1, Answering
<1>5. CASE ~req[r].ok /\ ById(req[r].ask) /\ Answers(r, GoneMeansNothing(r))
  <2>1. /\ req[r].ask.op = "delete" /\ GoneMeansNothing(r) = deleted[req[r].id]
        /\ GoneMeansNothing(r) \in SUBSET Target
    BY <1>1, <1>5 DEF Flight, At, Replying, ById, GoneMeansNothing
  <2> QED
    BY <1>1, <1>2, <1>5, <2>1, Answering
<1>6. CASE Ends(r) /\ UNCHANGED <<saved, answers>>
  BY <1>2, <1>6, Ending DEF log
<1> QED
  BY <1>3, <1>4, <1>5, <1>6 DEF Reply

LEMMA LostStep ==
  ASSUME CallsInv, NEW r \in Slot, Lost(r)
  PROVE  CallsInv'
<1>1. Ends(r) /\ UNCHANGED <<github, saved, calls, log>>
  BY DEF Lost, Attempts
<1>2. \/ late' = late
      \/ At(r, "post") /\ \E x \in req[r].todo : late' = late \cup {Change(r, x)}
  BY DEF Lost
<1>3. /\ req' \in [Slot -> Known] /\ req'[r] = Idle
      /\ \A s \in Slot : req'[s] \in {req[s], Idle}
  BY <1>1 DEF CallsInv, Types, Ends, Goes, Known
<1>4. \A c \in late' : c \notin late =>
        \E s \in Slot : /\ At(s, "post") /\ req'[s] = Idle
                        /\ \E x \in req[s].todo : c = Change(s, x)
  BY <1>2, <1>3
<1>5. \A c, d \in late' : c \notin late /\ d \notin late => c = d
  BY <1>2
<1>6. caches' \subseteq Cache /\ head' \in Head /\ pull' \in {"open", "draft", "closed", "merged"}
  BY <1>1 DEF CallsInv, Types, github
<1> QED
  BY <1>1, <1>3, <1>4, <1>5, <1>6, Stopping DEF github

\* A crash, and what others do at GitHub.
LEMMA OthersStep ==
  ASSUME CallsInv, Crash \/ (\E c \in Cache : Evict(c)) \/ OthersChangePull
  PROVE  CallsInv'
<1>1. UNCHANGED <<started, deleted, merges, saved, calls, log, late>>
  BY DEF Crash, Evict, OthersChangePull, github
<1>2. req' \in [Slot -> Known] /\ \A s \in Slot : req'[s] \in {req[s], Idle}
  BY DEF CallsInv, Types, Known, Crash, Evict, OthersChangePull
<1>3. caches' \subseteq Cache /\ head' \in Head /\ pull' \in {"open", "draft", "closed", "merged"}
  BY CallsAssumption DEF CallsInv, Types, Head, Crash, Evict, OthersChangePull, github
<1> QED
  BY <1>1, <1>2, <1>3, Stopping

LEMMA NextStep == CallsInv /\ [Next]_vars => CallsInv'
<1> SUFFICES ASSUME CallsInv, [Next]_vars PROVE CallsInv'
  OBVIOUS
<1>1. ASSUME NEW r \in Slot, ReadToStart(r) PROVE CallsInv'
  BY <1>1, Sending DEF ReadToStart
<1>2. ASSUME NEW r \in Slot, ReadToMerge(r) PROVE CallsInv'
  BY <1>2, Sending, Ending DEF ReadToMerge
<1>3. ASSUME NEW r \in Slot, Fails(r) PROVE CallsInv'
  BY <1>3, Ending DEF Fails
<1>4. ASSUME UNCHANGED vars PROVE CallsInv'
  <2>1. UNCHANGED <<caches, pull, head, started, deleted, merges, req, late, saved, calls, log>>
    BY <1>4 DEF vars, github
  <2>2. req' \in [Slot -> Known] /\ \A s \in Slot : req'[s] \in {req[s], Idle}
    BY <2>1 DEF CallsInv, Types
  <2>3. caches' \subseteq Cache /\ head' \in Head /\ pull' \in {"open", "draft", "closed", "merged"}
    BY <2>1 DEF CallsInv, Types
  <2> QED
    BY <2>1, <2>2, <2>3, Stopping
<1> QED
  BY <1>1, <1>2, <1>3, <1>4, ArriveStep, LookupStep, ReadToDeleteStep, PostStep, ReplyStep,
     LostStep, ArrivesStep, OthersStep DEF Next

-----------------------------------------------------------------------------
(***************************************************************************)
(* The theorems.                                                           *)
(***************************************************************************)
\* The inductive invariant: where each request is, what it has done and has
\* left to do, and that rows and answers only speak of requests that are over.
THEOREM CallsInductive == Spec => []CallsInv
<1>1. Init => CallsInv
  <2> SUFFICES ASSUME Init PROVE CallsInv
    OBVIOUS
  <2>1. Types
    <3>1. 1..calls = {}
      BY DEF Init
    <3>2. asked \in [1..calls -> Ask]
      BY <3>1 DEF Init
    <3> QED
      BY <3>2, CallsAssumption DEF Init, Types, Head, Known
  <2>2. \A r \in Slot : Flight(r)
    BY IdleFlight DEF Init
  <2> QED
    BY <2>1, <2>2 DEF Init, CallsInv, OneRow, OnePlace, Ledger, Untouched, Repeated, RowsTrue,
                      MergesOnlyExpected
<1>2. CallsInv /\ [Next]_vars => CallsInv'
  BY NextStep
<1> QED
  BY <1>1, <1>2, PTL DEF Spec

\* Every variable keeps its type, and the store has one row for each key.
THEOREM CallsTyped == Spec => []TypeOK
<1>1. CallsInv => TypeOK
  BY DEF CallsInv, TypeOK, Types, OneRow, OnePlace
<1> QED
  BY <1>1, CallsInductive, PTL

\* However its calls are lost, late or repeated, a request starts at most one
\* run, and does nothing at all when its key had been answered before.
THEOREM AtMostOnce == Spec => []CarriedOutOnce
<1>1. CallsInv => CarriedOutOnce
  BY DEF CallsInv, CarriedOutOnce, Ledger, Repeated, Untouched
<1> QED
  BY <1>1, CallsInductive, PTL

\* A request deletes only what its client named or selected, after a confirmation
\* or expected metadata, never more than was allowed, and by a key none whose
\* metadata differ from those that were given to be compared.
THEOREM OnlyAgreedDeletions == Spec => []DeletesAsAsked
<1> SUFFICES CallsInv => DeletesAsAsked
  BY CallsInductive, PTL
<1> SUFFICES ASSUME CallsInv, NEW i \in 1..calls, deleted[i] # {}
             PROVE  LET ask == asked[i]
                    IN /\ ~ask.dry
                       /\ ById(ask) => ask.confirm /\ deleted[i] = {ask.cache}
                       /\ Selects(ask) => /\ ask.confirm \/ ask.expects # "nothing"
                                          /\ Cardinality(deleted[i]) <= MaxDelete
                                          /\ ask.expects = "metadata" => deleted[i] \subseteq Reviewed
  BY DEF DeletesAsAsked
<1>1. Agreed(asked[i], deleted[i])
  BY DEF CallsInv, Ledger
<1> QED
  BY <1>1 DEF Agreed

\* Every answer, given once or again, says what a request with its key did.
THEOREM AnswersAreTrue == Spec => []ResponseIsTrue
<1>1. CallsInv => ResponseIsTrue
  BY DEF CallsInv, ResponseIsTrue, RowsTrue, Truthful
<1> QED
  BY <1>1, CallsInductive, PTL

\* Only the head that the client reviewed is merged.
THEOREM ReviewedHeadMerged == Spec => []MergesOnlyExpected
<1>1. CallsInv => MergesOnlyExpected
  BY DEF CallsInv
<1> QED
  BY <1>1, CallsInductive, PTL
=============================================================================
