------------------------ MODULE OperationOutputProofs ------------------------
(***************************************************************************)
(* Theorems about OperationOutput, for any limit and any capacity of the   *)
(* pipes: the logs hold the beginning of the output, what is missing is    *)
(* accounted for, and pages cover the logs without gap or repetition.     *)
(***************************************************************************)
EXTENDS OperationOutput, TLAPS

Alive(s) == reader[s] \in {"start", "read", "store", "saving"}

\* What a client may have of a byte.
Shown == Nat \cup {Replaced, Removed}

Types ==
  /\ child \in {"running", "gone"} /\ state \in {"running", "terminal"}
  /\ written \in [Stream -> Nat] /\ stored \in 0..Limit
  /\ pipe \in [Stream -> Seq(Nat)] /\ chunk \in [Stream -> Seq(Nat)]
  /\ file \in [Stream -> Seq(Nat)] /\ fetched \in [Stream -> Seq(Shown)]
  /\ borders \in [Stream -> SUBSET Nat]
  /\ reader \in [Stream -> {"start", "read", "store", "saving", "done", "dead", "cancelled"}]
  /\ open \in [Stream -> BOOLEAN] /\ truncated \in [Stream -> BOOLEAN]
  /\ eof \in [Stream -> BOOLEAN] /\ failed \subseteq Stream

\* The bytes of q follow upon the first n of the stream.
Follows(q, n) == \A i \in 1..Len(q) : q[i] = n + i

\* What is under way, in the order of the stream.
InOrder(s) ==
  /\ Follows(file[s], 0)
  /\ Len(pipe[s]) + Len(chunk[s]) <= written[s]
  /\ Follows(pipe[s], written[s] - Len(pipe[s]))
  /\ Follows(chunk[s], written[s] - Len(pipe[s]) - Len(chunk[s]))

\* Where the reader stands: it holds a chunk only to store it, and its log is
\* open unless it failed.
Standing(s) ==
  /\ chunk[s] # <<>> => reader[s] = "store"
  /\ Alive(s) => state = "running"
  /\ reader[s] = "start" => ~open[s] /\ s \notin failed
  /\ open[s] => Alive(s) /\ s \notin failed
  /\ Alive(s) /\ reader[s] # "start" => open[s] \/ s \in failed
  /\ reader[s] = "done" => child = "gone" /\ pipe[s] = <<>>

\* Nothing is missing from the log unless it is marked, and marked only when
\* the limit was used up or the log failed.
Accounted(s) ==
  /\ Alive(s) /\ ~truncated[s] => Len(file[s]) + Len(chunk[s]) + Len(pipe[s]) = written[s]
  /\ reader[s] = "done" /\ ~truncated[s] => Len(file[s]) = written[s]
  /\ truncated[s] => s \in failed \/ stored = Limit

\* What a client has of byte i of a stream, if a border cut its unit and if not.
Seen(s, i, cut) ==
  CASE i \in Escaped[s] /\ PlainOutput /\ ~cut -> Removed
    [] i \notin Escaped[s] /\ cut             -> Replaced
    [] OTHER                                  -> i

\* The pages cover the beginning of the log, and all of it at the end; the borders
\* of the pages, the last one among them, say what became of each byte.
Paged(s) ==
  /\ Len(fetched[s]) <= Len(file[s])
  /\ eof[s] => state = "terminal" /\ Len(fetched[s]) = Len(file[s])
  /\ borders[s] \subseteq 0..Len(fetched[s]) /\ {0, Len(fetched[s])} \subseteq borders[s]
  /\ \A i \in 1..Len(fetched[s]) : fetched[s][i] = Seen(s, i, Split(s, i))

OutputInv ==
  /\ Types
  /\ failed = {} => BytesStored = stored
  /\ \A s \in Stream : InOrder(s) /\ Standing(s) /\ Accounted(s) /\ Paged(s)

-----------------------------------------------------------------------------
(***************************************************************************)
(* Facts about sequences of bytes.                                         *)
(***************************************************************************)
LEMMA MinFacts ==
  ASSUME NEW a \in Nat, NEW b \in Nat
  PROVE  Min({a, b}) \in Nat /\ Min({a, b}) = IF a <= b THEN a ELSE b
<1>1. CASE a <= b
  BY <1>1 DEF Min
<1>2. CASE b < a
  BY <1>2 DEF Min
<1> QED
  BY <1>1, <1>2

LEMMA MaxFacts ==
  ASSUME NEW a \in Int
  PROVE  Max({0, a}) \in Nat /\ Max({0, a}) = IF a <= 0 THEN 0 ELSE a
<1>1. CASE a <= 0
  BY <1>1 DEF Max
<1>2. CASE 0 < a
  BY <1>2 DEF Max
<1> QED
  BY <1>1, <1>2

\* The first n elements of a sequence ...
LEMMA FrontPart ==
  ASSUME NEW c \in Seq(Nat), NEW n \in 0..Len(c)
  PROVE  /\ SubSeq(c, 1, n) \in Seq(Nat) /\ Len(SubSeq(c, 1, n)) = n
         /\ \A i \in 1..n : SubSeq(c, 1, n)[i] = c[i]
  OBVIOUS

\* ... of which the first k are the first k of the sequence ...
LEMMA FrontOfFront ==
  ASSUME NEW c \in Seq(Nat), NEW n \in 0..Len(c), NEW k \in 0..n
  PROVE  SubSeq(SubSeq(c, 1, n), 1, k) = SubSeq(c, 1, k)
  OBVIOUS

\* ... the others ...
LEMMA RearPart ==
  ASSUME NEW c \in Seq(Nat), NEW n \in 0..Len(c)
  PROVE  /\ SubSeq(c, n + 1, Len(c)) \in Seq(Nat)
         /\ Len(SubSeq(c, n + 1, Len(c))) = Len(c) - n
         /\ \A i \in 1..(Len(c) - n) : SubSeq(c, n + 1, Len(c))[i] = c[n + i]
  OBVIOUS

\* ... and a sequence that is appended to.
LEMMA Joined ==
  ASSUME NEW f \in Seq(Nat), NEW c \in Seq(Nat)
  PROVE  /\ (f \o c) \in Seq(Nat) /\ Len(f \o c) = Len(f) + Len(c)
         /\ \A i \in 1..Len(f) : (f \o c)[i] = f[i]
         /\ \A i \in 1..Len(c) : (f \o c)[Len(f) + i] = c[i]
  OBVIOUS

LEMMA JoinedShown ==
  ASSUME NEW f \in Seq(Shown), NEW c \in Seq(Shown)
  PROVE  /\ f \o c \in Seq(Shown) /\ Len(f \o c) = Len(f) + Len(c)
         /\ \A i \in 1..Len(f) : (f \o c)[i] = f[i]
         /\ \A i \in 1..Len(c) : (f \o c)[Len(f) + i] = c[i]
  OBVIOUS

\* What follows without a gap may be appended.
LEMMA FollowsJoined ==
  ASSUME NEW f \in Seq(Nat), NEW c \in Seq(Nat), NEW n \in Nat,
         Follows(f, n), Follows(c, n + Len(f))
  PROVE  Follows(f \o c, n)
<1>1. Len(f) \in Nat /\ Len(c) \in Nat /\ Len(f \o c) = Len(f) + Len(c)
  BY Joined
<1>2. ASSUME NEW i \in 1..(Len(f) + Len(c)) PROVE (f \o c)[i] = n + i
  <2>1. CASE i \in 1..Len(f)
    BY <2>1, Joined DEF Follows
  <2>2. CASE i \notin 1..Len(f)
    <3>1. PICK j \in 1..Len(c) : i = Len(f) + j
      <4>1. i - Len(f) \in 1..Len(c) /\ i = Len(f) + (i - Len(f))
        BY <1>1, <2>2
      <4> QED
        BY <4>1
    <3>2. (f \o c)[i] = c[j] /\ c[j] = n + Len(f) + j
      BY <3>1, Joined DEF Follows
    <3> QED
      BY <1>1, <3>1, <3>2
  <2> QED
    BY <2>1, <2>2
<1> QED
  BY <1>1, <1>2 DEF Follows

LEMMA EmptySeqNat == <<>> \in Seq(Nat) /\ Len(<<>>) = 0
  OBVIOUS

LEMMA EmptyFollows == ASSUME NEW n PROVE Follows(<<>>, n)
  BY DEF Follows

\* The variables of a stream have their types.
LEMMA StreamTypes ==
  ASSUME Types, NEW s \in Stream
  PROVE  /\ written[s] \in Nat /\ stored \in Nat /\ stored <= Limit
         /\ pipe[s] \in Seq(Nat) /\ chunk[s] \in Seq(Nat)
         /\ file[s] \in Seq(Nat) /\ fetched[s] \in Seq(Shown)
         /\ borders[s] \in SUBSET Nat
         /\ Len(pipe[s]) \in Nat /\ Len(chunk[s]) \in Nat
         /\ Len(file[s]) \in Nat /\ Len(fetched[s]) \in Nat
  BY OutputAssumption DEF Types

\* Nothing changes for a stream while others are moved on.
LEMMA Untouched ==
  ASSUME NEW t \in Stream, InOrder(t), Standing(t), Accounted(t), Paged(t),
         file'[t] = file[t], chunk'[t] = chunk[t], pipe'[t] = pipe[t],
         written'[t] = written[t], reader'[t] = reader[t], open'[t] = open[t],
         truncated'[t] = truncated[t], fetched'[t] = fetched[t], eof'[t] = eof[t],
         borders'[t] = borders[t],
         t \in failed' <=> t \in failed, state' = state,
         child' = child \/ child' = "gone", stored = Limit => stored' = Limit
  PROVE  (InOrder(t) /\ Standing(t) /\ Accounted(t) /\ Paged(t))'
<1>1. InOrder(t)' /\ Paged(t)'
  BY DEF InOrder, Paged, Follows, Split
<1>2. Standing(t)'
  BY DEF Standing, Alive
<1>3. Accounted(t)'
  BY DEF Accounted, Alive
<1> QED
  BY <1>1, <1>2, <1>3

\* What is under way is in order when its parts are.
LEMMA OrderedNow ==
  ASSUME NEW s \in Stream, NEW f \in Seq(Nat), NEW p \in Seq(Nat), NEW c \in Seq(Nat),
         NEW w \in Nat, file'[s] = f, pipe'[s] = p, chunk'[s] = c, written'[s] = w,
         Follows(f, 0), Len(p) + Len(c) <= w,
         Follows(p, w - Len(p)), Follows(c, w - Len(p) - Len(c))
  PROVE  InOrder(s)'
<1>1. Follows(file[s], 0)'
  BY DEF Follows
<1>2. (Len(pipe[s]) + Len(chunk[s]) <= written[s])'
  OBVIOUS
<1>3. Follows(pipe[s], written[s] - Len(pipe[s]))'
  BY DEF Follows
<1>4. Follows(chunk[s], written[s] - Len(pipe[s]) - Len(chunk[s]))'
  BY DEF Follows
<1> QED
  BY <1>1, <1>2, <1>3, <1>4 DEF InOrder

-----------------------------------------------------------------------------
(***************************************************************************)
(* The steps.                                                              *)
(***************************************************************************)
LEMMA WriteStep ==
  ASSUME OutputInv, NEW s \in Stream, Write(s)
  PROVE  OutputInv'
<1> USE DEF OutputInv
<1>1. /\ child = "running" /\ written' = [written EXCEPT ![s] = @ + 1]
      /\ pipe' = [pipe EXCEPT ![s] = Append(@, written[s] + 1)]
      /\ UNCHANGED <<child, goal, reader, chunk, file, stored, truncated, open, failed, state,
                     fetched, eof, borders>>
  BY DEF Write, log, client
<1>2. PICK p \in Seq(Nat), w \in Nat : p = pipe[s] /\ w = written[s]
  BY DEF Types
<1>3. /\ pipe'[s] = Append(p, w + 1) /\ written'[s] = w + 1
      /\ \A t \in Stream \ {s} : pipe'[t] = pipe[t] /\ written'[t] = written[t]
  BY <1>1, <1>2 DEF Types
<1>4. /\ Append(p, w + 1) \in Seq(Nat) /\ Len(Append(p, w + 1)) = Len(p) + 1
      /\ \A i \in 1..Len(p) : Append(p, w + 1)[i] = p[i]
      /\ Append(p, w + 1)[Len(p) + 1] = w + 1 /\ Len(p) \in Nat
  OBVIOUS
<1>5. Types'
  <2>1. pipe' \in [Stream -> Seq(Nat)] /\ written' \in [Stream -> Nat]
    BY <1>1, <1>2, <1>4 DEF Types
  <2> QED
    BY <1>1, <2>1 DEF Types
<1>6. InOrder(s)'
  <2>1. Follows(p, w - Len(p)) /\ Len(p) + Len(chunk[s]) <= w
    BY <1>2 DEF InOrder
  <2>2. Follows(Append(p, w + 1), w - Len(p))
    BY <1>4, <2>1 DEF Follows
  <2>3. (w + 1) - (Len(p) + 1) = w - Len(p)
    BY <1>4
  <2>4. PICK c \in Seq(Nat) : c = chunk[s]
    BY StreamTypes
  <2>5. Len(c) \in Nat /\ Follows(c, w - Len(p) - Len(c)) /\ Follows(file[s], 0)
    <3>1. InOrder(s)
      OBVIOUS
    <3> QED
      BY <1>2, <2>4, <3>1 DEF InOrder
  <2>6. Len(Append(p, w + 1)) + Len(c) <= w + 1
    <3>1. Len(p) + Len(c) <= w
      BY <2>1, <2>4
    <3> QED
      BY <1>4, <2>5, <3>1
  <2>7. (w + 1) - Len(Append(p, w + 1)) = w - Len(p)
    BY <1>4
  <2>8. file[s] \in Seq(Nat)
    BY StreamTypes
  <2>9. PICK q \in Seq(Nat) : q = Append(p, w + 1)
    BY <1>4
  <2> HIDE DEF OutputInv
  <2>10. /\ file'[s] = file[s] /\ pipe'[s] = q /\ chunk'[s] = c /\ written'[s] = w + 1
         /\ w + 1 \in Nat
    BY <1>1, <1>3, <2>4, <2>9
  <2>11. Follows(q, (w + 1) - Len(q)) /\ Follows(c, (w + 1) - Len(q) - Len(c))
    BY <2>2, <2>5, <2>7, <2>9
  <2> QED
    BY <2>5, <2>6, <2>8, <2>9, <2>10, <2>11, OrderedNow
<1>7. Standing(s)' /\ Paged(s)'
  BY <1>1, <1>2, <1>3 DEF Standing, Alive, Paged, Follows, Split
<1>8. Accounted(s)'
  <2>1. Accounted(s) /\ Standing(s) /\ Len(file[s]) \in Nat /\ Len(chunk[s]) \in Nat
    BY StreamTypes
  <2>2. ASSUME Alive(s), ~truncated[s] PROVE Len(file[s]) + Len(chunk[s]) + (Len(p) + 1) = w + 1
    <3>1. Len(file[s]) + Len(chunk[s]) + Len(p) = w
      BY <1>2, <2>1, <2>2 DEF Accounted
    <3>2. PICK l \in Nat, c \in Nat, m \in Nat :
            l = Len(file[s]) /\ c = Len(chunk[s]) /\ m = Len(p)
      BY <1>4, <2>1
    <3>3. l + c + (m + 1) = w + 1
      <4>1. l + c + m = w
        BY <3>1, <3>2
      <4> HIDE DEF OutputInv
      <4> QED
        BY <4>1
    <3> QED
      BY <3>2, <3>3
  <2>3. Len(Append(p, w + 1)) = Len(p) + 1
    BY <1>4
  <2> QED
    BY <1>1, <1>3, <2>3, <2>1, <2>2 DEF Accounted, Alive, Standing
<1>9. \A t \in Stream \ {s} : (InOrder(t) /\ Standing(t) /\ Accounted(t) /\ Paged(t))'
  BY <1>1, <1>3, Untouched
<1> QED
  BY <1>1, <1>5, <1>6, <1>7, <1>8, <1>9 DEF BytesStored

\* The command ends.
LEMMA EndStep ==
  ASSUME OutputInv, Exit \/ Kill
  PROVE  OutputInv'
<1>1. /\ child' = "gone"
      /\ UNCHANGED <<goal, written, pipe, reader, chunk, file, stored, truncated, open, failed,
                     state, fetched, eof, borders>>
  BY DEF Exit, Kill, log, client
<1> QED
  BY <1>1, Untouched DEF OutputInv, Types, BytesStored

LEMMA OpenStep ==
  ASSUME OutputInv, NEW s \in Stream, Open(s)
  PROVE  OutputInv'
<1> USE DEF OutputInv
<1>1. PICK ok \in BOOLEAN :
        /\ open' = [open EXCEPT ![s] = ok]
        /\ failed' = IF ok THEN failed ELSE failed \cup {s}
  BY DEF Open
<1>2. /\ reader[s] = "start" /\ reader' = [reader EXCEPT ![s] = "read"]
      /\ UNCHANGED <<child, goal, written, pipe, chunk, file, stored, truncated, state,
                     fetched, eof, borders>>
  BY DEF Open, Moves, client
<1>3. /\ reader'[s] = "read" /\ open'[s] = ok /\ (s \in failed' <=> (s \in failed \/ ~ok))
      /\ \A t \in Stream \ {s} : /\ reader'[t] = reader[t] /\ open'[t] = open[t]
                                 /\ t \in failed' <=> t \in failed
  BY <1>1, <1>2 DEF Types
<1>4. Types' /\ (failed' = {} => failed = {})
  BY <1>1, <1>2 DEF Types
<1>5. (InOrder(s) /\ Paged(s))'
  BY <1>2, <1>3 DEF InOrder, Paged, Follows, Split
<1>6. (Standing(s) /\ Accounted(s))'
  BY <1>2, <1>3 DEF Standing, Alive, Accounted
<1>7. \A t \in Stream \ {s} : (InOrder(t) /\ Standing(t) /\ Accounted(t) /\ Paged(t))'
  BY <1>2, <1>3, Untouched
<1> QED
  BY <1>2, <1>4, <1>5, <1>6, <1>7 DEF BytesStored

LEMMA ReadStep ==
  ASSUME OutputInv, NEW s \in Stream, Read(s)
  PROVE  OutputInv'
<1> USE DEF OutputInv
<1>1. PICK n \in 1..Len(pipe[s]) :
        /\ chunk' = [chunk EXCEPT ![s] = SubSeq(pipe[s], 1, n)]
        /\ pipe' = [pipe EXCEPT ![s] = SubSeq(@, n + 1, Len(@))]
  BY DEF Read
<1>2. /\ reader[s] = "read" /\ reader' = [reader EXCEPT ![s] = "store"]
      /\ UNCHANGED <<child, goal, written, open, failed, file, stored, truncated, state,
                     fetched, eof, borders>>
  BY DEF Read, Moves, client, log
<1>3. PICK p \in Seq(Nat), w \in Nat, c \in Seq(Nat), q \in Seq(Nat) :
        /\ p = pipe[s] /\ w = written[s]
        /\ c = SubSeq(p, 1, n) /\ q = SubSeq(p, n + 1, Len(p))
  <2>1. pipe[s] \in Seq(Nat) /\ written[s] \in Nat /\ n \in 0..Len(pipe[s])
    BY StreamTypes
  <2>2. SubSeq(pipe[s], 1, n) \in Seq(Nat) /\ SubSeq(pipe[s], n + 1, Len(pipe[s])) \in Seq(Nat)
    BY <2>1, FrontPart, RearPart
  <2> QED
    BY <2>1, <2>2
<1>4. n \in 0..Len(p) /\ n \in Nat /\ Len(p) \in Nat
  BY <1>3
<1>5. /\ Len(c) = n /\ \A i \in 1..n : c[i] = p[i]
      /\ Len(q) = Len(p) - n /\ \A i \in 1..(Len(p) - n) : q[i] = p[n + i]
  BY <1>3, <1>4, FrontPart, RearPart
<1>6. /\ reader'[s] = "store" /\ chunk'[s] = c /\ pipe'[s] = q
      /\ \A t \in Stream \ {s} : /\ reader'[t] = reader[t] /\ chunk'[t] = chunk[t]
                                 /\ pipe'[t] = pipe[t]
  BY <1>1, <1>2, <1>3 DEF Types
<1>7. Types'
  BY <1>1, <1>2, <1>3 DEF Types
<1>8. chunk[s] = <<>> /\ Len(chunk[s]) = 0
  BY <1>2 DEF Standing
<1>9. InOrder(s)'
  <2>1. Len(p) <= w /\ Follows(p, w - Len(p)) /\ Follows(file[s], 0)
    <3>1. InOrder(s) /\ Len(p) + Len(chunk[s]) = Len(p)
      BY <1>4, <1>8
    <3> QED
      BY <1>3, <3>1 DEF InOrder
  <2>2. Len(q) + Len(c) = Len(p) /\ w - Len(q) - Len(c) = w - Len(p)
    BY <1>4, <1>5
  <2>3. Follows(c, w - Len(p))
    BY <1>4, <1>5, <2>1 DEF Follows
  <2>4. Follows(q, w - Len(q))
    BY <1>4, <1>5, <2>1 DEF Follows
  <2> QED
    BY <1>2, <1>3, <1>6, <2>1, <2>2, <2>3, <2>4 DEF InOrder, Follows
<1>10. Standing(s)' /\ Paged(s)'
  BY <1>2, <1>6 DEF Standing, Alive, Paged, Follows, Split
<1>11. Accounted(s)'
  <2>1. Accounted(s) /\ Alive(s) /\ Len(file[s]) \in Nat
    BY <1>2, StreamTypes DEF Alive
  <2>2. ASSUME ~truncated[s] PROVE Len(file[s]) + Len(c) + Len(q) = w
    <3>1. Len(file[s]) + Len(p) = w
      <4>1. Len(file[s]) + Len(chunk[s]) + Len(p) = w
        BY <1>3, <2>1, <2>2 DEF Accounted
      <4> QED
        BY <1>4, <1>8, <2>1, <4>1
    <3> QED
      BY <1>4, <1>5, <2>1, <3>1
  <2> QED
    BY <1>2, <1>3, <1>6, <2>1, <2>2 DEF Accounted, Alive
<1>12. \A t \in Stream \ {s} : (InOrder(t) /\ Standing(t) /\ Accounted(t) /\ Paged(t))'
  BY <1>2, <1>6, Untouched
<1> QED
  BY <1>2, <1>7, <1>9, <1>10, <1>11, <1>12 DEF BytesStored

LEMMA ReadEndStep ==
  ASSUME OutputInv, NEW s \in Stream, ReadEnd(s)
  PROVE  OutputInv'
<1> USE DEF OutputInv
<1>1. /\ reader[s] = "read" /\ pipe[s] = <<>> /\ child = "gone"
      /\ reader' = [reader EXCEPT ![s] = "done"] /\ open' = [open EXCEPT ![s] = FALSE]
      /\ UNCHANGED <<child, goal, written, pipe, chunk, file, stored, truncated, failed, state,
                     fetched, eof, borders>>
  BY DEF ReadEnd, Moves, client
<1>2. /\ reader'[s] = "done" /\ open'[s] = FALSE
      /\ \A t \in Stream \ {s} : reader'[t] = reader[t] /\ open'[t] = open[t]
  BY <1>1 DEF Types
<1>3. Types'
  BY <1>1 DEF Types
<1>4. InOrder(s)' /\ Paged(s)'
  BY <1>1 DEF InOrder, Paged, Follows, Split
<1>5. Standing(s)'
  BY <1>1, <1>2 DEF Standing, Alive
<1>6. Accounted(s)'
  <2>1. Accounted(s) /\ Alive(s) /\ Len(file[s]) \in Nat /\ Len(chunk[s]) = 0 /\ Len(pipe[s]) = 0
    BY <1>1, StreamTypes DEF Standing, Alive
  <2>2. ASSUME ~truncated[s] PROVE Len(file[s]) = written[s]
    <3>1. Len(file[s]) + Len(chunk[s]) + Len(pipe[s]) = written[s]
      BY <2>1, <2>2 DEF Accounted
    <3> HIDE DEF OutputInv
    <3> QED
      BY <2>1, <3>1
  <2> QED
    BY <1>1, <1>2, <2>1, <2>2 DEF Accounted, Alive
<1>7. \A t \in Stream \ {s} : (InOrder(t) /\ Standing(t) /\ Accounted(t) /\ Paged(t))'
  BY <1>1, <1>2, Untouched
<1> QED
  BY <1>1, <1>3, <1>4, <1>5, <1>6, <1>7 DEF BytesStored

\* The part of a chunk that is accepted: its beginning, no more than there is
\* room for; and if it is cut, the limit is used up.
LEMMA AcceptedFacts ==
  ASSUME Types, NEW s \in Stream
  PROVE  \E n \in 0..Len(chunk[s]) :
           /\ Accepted(s) = SubSeq(chunk[s], 1, n) /\ Accepted(s) \in Seq(Nat)
           /\ Len(Accepted(s)) = n /\ stored + n <= Limit
           /\ n # Len(chunk[s]) => stored + n = Limit
           /\ Cut(s) <=> n # Len(chunk[s])
<1>1. /\ chunk[s] \in Seq(Nat) /\ Len(chunk[s]) \in Nat
      /\ stored \in Nat /\ Limit \in Nat /\ stored <= Limit
  BY StreamTypes, OutputAssumption
<1>2. Max({0, Limit - stored}) = Limit - stored /\ Limit - stored \in Nat
  BY <1>1, MaxFacts
<1>3. PICK n \in Nat : n = Min({Limit - stored, Len(chunk[s])})
  BY <1>1, <1>2, MinFacts
<1>4. n = IF Limit - stored <= Len(chunk[s]) THEN Limit - stored ELSE Len(chunk[s])
  BY <1>1, <1>2, <1>3, MinFacts
<1>5. n \in 0..Len(chunk[s]) /\ stored + n <= Limit /\ (n # Len(chunk[s]) => stored + n = Limit)
  BY <1>1, <1>4
<1>6. Accepted(s) = SubSeq(chunk[s], 1, n)
  BY <1>2, <1>3 DEF Accepted
<1>7. Accepted(s) \in Seq(Nat) /\ Len(Accepted(s)) = n
  BY <1>1, <1>5, <1>6, FrontPart
<1>8. Cut(s) <=> n # Len(chunk[s])
  BY <1>1, <1>5, <1>7 DEF Cut
<1> QED
  BY <1>5, <1>6, <1>7, <1>8

\* What was read since the log was full does not go on where the log ends,
\* but what is accepted of it does.
LEMMA AcceptedFollows ==
  ASSUME Types, NEW s \in Stream, InOrder(s), Standing(s), Accounted(s),
         reader[s] = "store", open[s], NEW n \in 1..Len(chunk[s]), stored + n <= Limit
  PROVE  Follows(SubSeq(chunk[s], 1, n), Len(file[s]))
<1>1. PICK f \in Nat, c \in Nat, p \in Nat, w \in Nat :
        f = Len(file[s]) /\ c = Len(chunk[s]) /\ p = Len(pipe[s]) /\ w = written[s]
  BY StreamTypes
<1>2. s \notin failed /\ stored # Limit
  <2>1. stored \in Nat /\ Limit \in Nat /\ n \in Nat \ {0}
    BY <1>1, StreamTypes, OutputAssumption
  <2> QED
    BY <2>1 DEF Standing
<1>3. f + c + p = w
  <2>1. Alive(s) /\ ~truncated[s]
    BY <1>2 DEF Accounted, Alive
  <2> QED
    BY <1>1, <2>1 DEF Accounted
<1>4. Follows(chunk[s], f)
  <2>1. w - p - c = f
    BY <1>3
  <2> QED
    BY <1>1, <2>1 DEF InOrder
<1>5. /\ chunk[s] \in Seq(Nat) /\ n \in 0..Len(chunk[s]) /\ n \in Nat
      /\ \A i \in 1..n : i \in 1..Len(chunk[s])
  BY <1>1, StreamTypes
<1>6. /\ Len(SubSeq(chunk[s], 1, n)) = n
      /\ \A i \in 1..n : SubSeq(chunk[s], 1, n)[i] = chunk[s][i]
  BY <1>5, FrontPart
<1> QED
  BY <1>1, <1>4, <1>5, <1>6 DEF Follows

\* So the log stays the beginning of the output, whatever part of the accepted
\* bytes is appended.
LEMMA Appended ==
  ASSUME Types, NEW s \in Stream, InOrder(s), Standing(s), Accounted(s),
         reader[s] = "store", open[s], NEW n \in 0..Len(chunk[s]), stored + n <= Limit
  PROVE  LET f == file[s] \o SubSeq(chunk[s], 1, n)
         IN  f \in Seq(Nat) /\ Len(f) = Len(file[s]) + n /\ Follows(f, 0)
<1>1. /\ file[s] \in Seq(Nat) /\ chunk[s] \in Seq(Nat)
      /\ Len(file[s]) \in Nat /\ Len(chunk[s]) \in Nat
  BY StreamTypes
<1>2. PICK c \in Seq(Nat) : c = SubSeq(chunk[s], 1, n) /\ Len(c) = n
  BY <1>1, FrontPart
<1>3. Follows(file[s], 0)
  BY DEF InOrder
<1>4. Follows(c, 0 + Len(file[s]))
  <2>1. CASE n = 0
    BY <1>2, <2>1 DEF Follows
  <2>2. CASE n # 0
    <3>1. n \in 1..Len(chunk[s]) /\ 0 + Len(file[s]) = Len(file[s])
      BY <1>1, <2>2
    <3> QED
      BY <1>2, <3>1, AcceptedFollows
  <2> QED
    BY <2>1, <2>2
<1>5. Follows(file[s] \o c, 0)
  BY <1>1, <1>3, <1>4, FollowsJoined
<1>6. PICK g \in Seq(Nat) : g = file[s]
  BY <1>1
<1>7. (g \o c) \in Seq(Nat) /\ Len(g \o c) = Len(g) + Len(c)
  BY Joined
<1> QED
  BY <1>2, <1>5, <1>6, <1>7

\* A client keeps its pages when a log grows.
LEMMA PagedStays ==
  ASSUME Types, Types', NEW s \in Stream, Paged(s), state = "running", state' = "running",
         Len(file[s]) <= Len(file'[s]), UNCHANGED <<fetched, eof, borders>>
  PROVE  Paged(s)'
<1>1. PICK a \in Nat, b \in Nat, c \in Nat :
        a = Len(fetched[s]) /\ b = Len(file[s]) /\ c = Len(file'[s])
  BY StreamTypes DEF Types
<1>2. a <= b /\ b <= c /\ ~eof[s]
  BY <1>1 DEF Paged
<1>3. a <= c
  BY <1>2
<1> QED
  BY <1>1, <1>2, <1>3 DEF Paged, Follows, Split

\* The chunk is gone, the log has grown by none or more bytes that follow.
LEMMA StoredOrder ==
  ASSUME Types, NEW s \in Stream, InOrder(s), NEW f \in Seq(Nat), Follows(f, 0),
         file'[s] = f, chunk'[s] = <<>>, pipe' = pipe, written' = written
  PROVE  InOrder(s)'
<1>1. PICK p \in Seq(Nat), w \in Nat, c \in Nat :
        p = pipe[s] /\ w = written[s] /\ c = Len(chunk[s])
  BY StreamTypes
<1>2. Len(p) + c <= w /\ Follows(p, w - Len(p)) /\ Len(p) \in Nat
  <2>1. Len(pipe[s]) + Len(chunk[s]) <= written[s] /\ Follows(pipe[s], written[s] - Len(pipe[s]))
    BY DEF InOrder
  <2>2. Len(p) + c <= w /\ Follows(p, w - Len(p))
    BY <1>1, <2>1
  <2>3. Len(p) \in Nat
    OBVIOUS
  <2> QED
    BY <2>2, <2>3
<1>3. Len(p) + Len(<<>>) <= w
  BY <1>2
<1>4. <<>> \in Seq(Nat) /\ pipe'[s] = p /\ written'[s] = w
  BY <1>1
<1> QED
  BY <1>1, <1>2, <1>3, <1>4, EmptyFollows, OrderedNow

LEMMA StoreStep ==
  ASSUME OutputInv, NEW s \in Stream, Store(s)
  PROVE  OutputInv'
<1> USE DEF OutputInv
<1>1. /\ reader[s] = "store" /\ chunk' = [chunk EXCEPT ![s] = <<>>]
      /\ truncated' = [truncated EXCEPT ![s] = @ \/ Cut(s) \/ ~open[s]]
      /\ UNCHANGED <<child, goal, written, pipe, open, failed, state, fetched, eof, borders>>
  BY DEF Store, Drained, client
<1>2. PICK place \in {"read", "saving"} : reader' = [reader EXCEPT ![s] = place]
  BY DEF Store, GoesOn, Moves
<1>3. /\ reader'[s] = place /\ chunk'[s] = <<>> /\ (truncated'[s] <=> truncated[s] \/ Cut(s) \/ ~open[s])
      /\ \A t \in Stream \ {s} : /\ reader'[t] = reader[t] /\ chunk'[t] = chunk[t]
                                 /\ truncated'[t] = truncated[t]
  BY <1>1, <1>2 DEF Types
<1>4. state = "running" /\ Alive(s) /\ (open[s] \/ s \in failed)
  BY <1>1 DEF Standing, Alive
<1>5. Standing(s)'
  BY <1>1, <1>2, <1>3, <1>4 DEF Standing, Alive
<1>6. CASE open[s]
  <2>1. PICK n \in 0..Len(chunk[s]) :
          /\ Accepted(s) = SubSeq(chunk[s], 1, n) /\ Len(Accepted(s)) = n /\ stored + n <= Limit
          /\ n # Len(chunk[s]) => stored + n = Limit
          /\ Cut(s) <=> n # Len(chunk[s])
    BY AcceptedFacts
  <2>2. PICK f \in Seq(Nat) : /\ f = file[s] \o SubSeq(chunk[s], 1, n)
                              /\ Len(f) = Len(file[s]) + n /\ Follows(f, 0)
    BY <1>1, <1>6, <2>1, Appended
  <2>3. file' = [file EXCEPT ![s] = f] /\ stored' = stored + n
    BY <1>6, <2>1, <2>2 DEF Store
  <2>4. file'[s] = f /\ \A t \in Stream \ {s} : file'[t] = file[t]
    BY <2>3 DEF Types
  <2>5. PICK l \in Nat, c \in Nat, p \in Nat, w \in Nat, o \in Nat, m \in Nat :
          /\ l = Len(file[s]) /\ c = Len(chunk[s]) /\ p = Len(pipe[s]) /\ w = written[s]
          /\ o = stored /\ m = n
    <3>1. /\ Len(file[s]) \in Nat /\ Len(chunk[s]) \in Nat /\ Len(pipe[s]) \in Nat
          /\ written[s] \in Nat /\ stored \in Nat
      BY StreamTypes
    <3>2. n \in Nat
      BY <3>1
    <3> QED
      BY <3>1, <3>2
  <2>6. o + m <= Limit /\ stored' = o + m /\ (m # c => o + m = Limit) /\ Limit \in Nat
    BY <2>1, <2>3, <2>5, OutputAssumption
  <2>7. Types'
    <3>1. stored' \in 0..Limit
      BY <2>6
    <3>2. file' \in [Stream -> Seq(Nat)] /\ chunk' \in [Stream -> Seq(Nat)]
      BY <1>1, <2>3, EmptySeqNat DEF Types
    <3>3. /\ truncated' \in [Stream -> BOOLEAN]
          /\ reader' \in [Stream -> {"start", "read", "store", "saving", "done", "dead", "cancelled"}]
      BY <1>1, <1>2 DEF Types
    <3> QED
      BY <1>1, <3>1, <3>2, <3>3 DEF Types
  <2>8. stored = Limit => stored' = Limit
    BY <2>5, <2>6
  <2>9. InOrder(s)'
    BY <1>1, <1>3, <2>2, <2>4, StoredOrder
  <2>10. Paged(s)'
    <3>1. Len(file[s]) <= Len(file'[s])
      <4>1. Len(file'[s]) = l + m /\ Len(file[s]) = l
        BY <2>2, <2>4, <2>5
      <4> HIDE DEF OutputInv
      <4> QED
        BY <4>1
    <3> QED
      BY <1>1, <1>4, <2>7, <3>1, PagedStays
  <2>11. Accounted(s)'
    <3>1. ASSUME ~truncated'[s] PROVE Len(f) + Len(<<>>) + Len(pipe[s]) = written[s]
      <4>1. ~truncated[s] /\ m = c
        BY <1>3, <2>1, <2>5, <3>1
      <4>2. l + c + p = w
        BY <1>4, <2>5, <4>1 DEF Accounted
      <4>3. l + m + 0 + p = w
        BY <4>1, <4>2
      <4>4. Len(f) = l + m /\ Len(<<>>) = 0
        BY <2>2, <2>5
      <4> QED
        BY <2>5, <4>3, <4>4
    <3>2. ASSUME truncated'[s] PROVE stored' = Limit
      <4>1. CASE truncated[s]
        BY <1>6, <2>8, <4>1 DEF Standing, Accounted
      <4>2. CASE Cut(s)
        BY <2>1, <2>5, <2>6, <4>2
      <4> QED
        BY <1>3, <1>6, <3>2, <4>1, <4>2
    <3> QED
      BY <1>1, <1>2, <1>3, <2>4, <3>1, <3>2 DEF Accounted, Alive
  <2>12. \A t \in Stream \ {s} : (InOrder(t) /\ Standing(t) /\ Accounted(t) /\ Paged(t))'
    BY <1>1, <1>3, <2>4, <2>8, Untouched
  <2>13. ASSUME failed' = {} PROVE BytesStored' = stored'
    <3>1. PICK a \in Nat, b \in Nat : a = Len(file[stdout]) /\ b = Len(file[stderr])
      BY StreamTypes DEF Stream
    <3>2. a + b = o
      BY <1>1, <2>5, <2>13, <3>1 DEF BytesStored
    <3>3. CASE s = stdout
      <4>1. stderr \in Stream \ {s} /\ Len(file'[stdout]) = a + m /\ Len(file'[stderr]) = b
        BY <2>2, <2>4, <2>5, <3>1, <3>3, OutputAssumption DEF Stream
      <4> QED
        BY <2>6, <3>2, <4>1 DEF BytesStored
    <3>4. CASE s = stderr
      <4>1. stdout \in Stream \ {s} /\ Len(file'[stderr]) = b + m /\ Len(file'[stdout]) = a
        BY <2>2, <2>4, <2>5, <3>1, <3>4, OutputAssumption DEF Stream
      <4> QED
        BY <2>6, <3>2, <4>1 DEF BytesStored
    <3> QED
      BY <3>3, <3>4 DEF Stream
  <2> QED
    BY <1>5, <2>7, <2>9, <2>10, <2>11, <2>12, <2>13
<1>7. CASE ~open[s]
  <2>1. UNCHANGED <<file, stored>> /\ s \in failed /\ truncated'[s]
    BY <1>3, <1>4, <1>7 DEF Store
  <2>2. Types'
    BY <1>1, <1>2, <2>1 DEF Types
  <2>3. InOrder(s)'
    <3>1. file[s] \in Seq(Nat) /\ Follows(file[s], 0)
      BY StreamTypes DEF InOrder
    <3> QED
      BY <1>1, <1>3, <2>1, <3>1, StoredOrder
  <2>4. Paged(s)'
    BY <1>1, <2>1 DEF Paged, Follows, Split
  <2>5. Accounted(s)'
    BY <1>1, <1>2, <1>3, <2>1 DEF Accounted, Alive
  <2>6. \A t \in Stream \ {s} : (InOrder(t) /\ Standing(t) /\ Accounted(t) /\ Paged(t))'
    BY <1>1, <1>3, <2>1, Untouched
  <2> QED
    BY <1>1, <1>5, <2>1, <2>2, <2>3, <2>4, <2>5, <2>6
<1> QED
  BY <1>6, <1>7

LEMMA StoreFailsStep ==
  ASSUME OutputInv, NEW s \in Stream, StoreFails(s)
  PROVE  OutputInv'
<1> USE DEF OutputInv
<1>1. /\ reader[s] = "store" /\ open[s] /\ chunk' = [chunk EXCEPT ![s] = <<>>]
      /\ open' = [open EXCEPT ![s] = FALSE] /\ failed' = failed \cup {s}
      /\ UNCHANGED <<child, goal, written, pipe, stored, state, fetched, eof, borders>>
  BY DEF StoreFails, Drained, client
<1>2. PICK place \in {"read", "saving", "dead"} :
        /\ reader' = [reader EXCEPT ![s] = place]
        /\ \/ truncated' = [truncated EXCEPT ![s] = TRUE]
           \/ place = "dead" /\ truncated' = truncated
  BY DEF StoreFails, GoesOn, Moves
<1>3. /\ reader'[s] = place /\ chunk'[s] = <<>> /\ ~open'[s] /\ (truncated'[s] \/ place = "dead")
      /\ \A t \in Stream \ {s} : /\ reader'[t] = reader[t] /\ chunk'[t] = chunk[t]
                                 /\ open'[t] = open[t] /\ truncated'[t] = truncated[t]
                                 /\ t \in failed' <=> t \in failed
  BY <1>1, <1>2 DEF Types
<1>4. PICK m \in 0..Len(chunk[s]) :
        /\ Accepted(s) = SubSeq(chunk[s], 1, m) /\ Len(Accepted(s)) = m /\ stored + m <= Limit
  BY AcceptedFacts
<1>5. PICK n \in 0..m : file' = [file EXCEPT ![s] = @ \o SubSeq(SubSeq(chunk[s], 1, m), 1, n)]
  BY <1>4 DEF StoreFails
<1>6. SubSeq(SubSeq(chunk[s], 1, m), 1, n) = SubSeq(chunk[s], 1, n)
  BY StreamTypes, FrontOfFront
<1>7. n \in 0..Len(chunk[s]) /\ stored + n <= Limit /\ n \in Nat
  BY <1>4, StreamTypes, OutputAssumption
<1>8. PICK f \in Seq(Nat) : /\ f = file[s] \o SubSeq(chunk[s], 1, n)
                            /\ Len(f) = Len(file[s]) + n /\ Follows(f, 0)
  BY <1>1, <1>7, Appended
<1>9. file' = [file EXCEPT ![s] = f]
  BY <1>5, <1>6, <1>8
<1>10. file'[s] = f /\ \A t \in Stream \ {s} : file'[t] = file[t]
  BY <1>9 DEF Types
<1>11. Types'
  <2>1. file' \in [Stream -> Seq(Nat)] /\ chunk' \in [Stream -> Seq(Nat)]
    BY <1>1, <1>9, EmptySeqNat DEF Types
  <2>2. /\ truncated' \in [Stream -> BOOLEAN]
        /\ reader' \in [Stream -> {"start", "read", "store", "saving", "done", "dead", "cancelled"}]
    BY <1>1, <1>2 DEF Types
  <2> QED
    BY <1>1, <2>1, <2>2 DEF Types
<1>12. state = "running"
  BY <1>1 DEF Standing, Alive
<1>13. InOrder(s)'
  BY <1>1, <1>3, <1>8, <1>10, StoredOrder
<1>14. Paged(s)'
  <2>1. Len(file[s]) <= Len(file'[s])
    <3>1. PICK l \in Nat : l = Len(file[s])
      BY StreamTypes
    <3>2. l <= l + n
      BY <1>7
    <3> QED
      BY <1>8, <1>10, <3>1, <3>2
  <2> QED
    BY <1>1, <1>11, <1>12, <2>1, PagedStays
<1>15. Standing(s)' /\ Accounted(s)'
  BY <1>1, <1>2, <1>3, <1>12 DEF Standing, Accounted, Alive
<1>16. \A t \in Stream \ {s} : (InOrder(t) /\ Standing(t) /\ Accounted(t) /\ Paged(t))'
  BY <1>1, <1>3, <1>10, Untouched
<1> QED
  BY <1>1, <1>11, <1>13, <1>14, <1>15, <1>16

\* A reader goes on after its record was written.
LEMMA SavedStep ==
  ASSUME OutputInv, NEW s \in Stream, Saved(s)
  PROVE  OutputInv'
<1> USE DEF OutputInv
<1>1. /\ reader[s] = "saving" /\ reader' = [reader EXCEPT ![s] = "read"]
      /\ UNCHANGED <<child, goal, written, pipe, chunk, file, stored, truncated, open, failed,
                     state, fetched, eof, borders>>
  BY DEF Saved, Moves, log, client
<1>2. reader'[s] = "read" /\ \A t \in Stream \ {s} : reader'[t] = reader[t]
  BY <1>1 DEF Types
<1>3. Types'
  BY <1>1 DEF Types
<1>4. InOrder(s)' /\ Paged(s)'
  BY <1>1 DEF InOrder, Paged, Follows, Split
<1>5. Standing(s)' /\ Accounted(s)'
  BY <1>1, <1>2 DEF Standing, Accounted, Alive
<1>6. \A t \in Stream \ {s} : (InOrder(t) /\ Standing(t) /\ Accounted(t) /\ Paged(t))'
  BY <1>1, <1>2, Untouched
<1> QED
  BY <1>1, <1>3, <1>4, <1>5, <1>6 DEF BytesStored

\* A stream whose reader is stopped, or was done: its chunk is dropped, the
\* client keeps its pages.
LEMMA StoppedStream ==
  ASSUME Types, NEW s \in Stream, InOrder(s), Standing(s), Accounted(s), Paged(s),
         UNCHANGED <<written, pipe, file, stored, failed, fetched, eof, borders>>,
         chunk'[s] = <<>>, open'[s] = FALSE, state' = "terminal", child' = "gone",
         truncated'[s] => truncated[s],
         \/ reader'[s] = "cancelled"
         \/ reader[s] = reader'[s] /\ Finished(s) /\ truncated'[s] = truncated[s]
  PROVE  (InOrder(s) /\ Standing(s) /\ Accounted(s) /\ Paged(s))'
<1>1. InOrder(s)'
  <2>1. file[s] \in Seq(Nat) /\ Follows(file[s], 0) /\ file'[s] = file[s]
    BY StreamTypes DEF InOrder
  <2> QED
    BY <2>1, StoredOrder
<1>2. Standing(s)'
  BY DEF Standing, Alive, Finished
<1>3. Accounted(s)'
  BY DEF Accounted, Alive, Finished
<1>4. Paged(s)'
  BY DEF Paged, Follows, Split
<1> QED
  BY <1>1, <1>2, <1>3, <1>4

LEMMA FinishStep ==
  ASSUME OutputInv, Finish
  PROVE  OutputInv'
<1> USE DEF OutputInv
<1>1. /\ child = "gone" /\ state' = "terminal"
      /\ reader' = [s \in Stream |-> IF s \in {t \in Stream : ~Finished(t)} THEN "cancelled"
                                     ELSE reader[s]]
      /\ chunk' = [s \in Stream |-> <<>>] /\ open' = [s \in Stream |-> FALSE]
      /\ UNCHANGED <<child, goal, written, pipe, file, stored, truncated, failed, fetched, eof, borders>>
  BY DEF Finish, Stop, client
<1>2. Types'
  <2>1. chunk' \in [Stream -> Seq(Nat)] /\ open' \in [Stream -> BOOLEAN]
    BY <1>1, EmptySeqNat
  <2>2. reader' \in [Stream -> {"start", "read", "store", "saving", "done", "dead", "cancelled"}]
    BY <1>1 DEF Types
  <2> QED
    BY <1>1, <2>1, <2>2 DEF Types
<1>3. ASSUME NEW s \in Stream PROVE (InOrder(s) /\ Standing(s) /\ Accounted(s) /\ Paged(s))'
  <2>1. /\ chunk'[s] = <<>> /\ open'[s] = FALSE /\ truncated'[s] = truncated[s]
        /\ \/ reader'[s] = "cancelled"
           \/ reader[s] = reader'[s] /\ Finished(s)
    BY <1>1
  <2> QED
    BY <1>1, <2>1, StoppedStream
<1> QED
  BY <1>1, <1>2, <1>3 DEF BytesStored

LEMMA RestartStep ==
  ASSUME OutputInv, Restart
  PROVE  OutputInv'
<1> USE DEF OutputInv
<1>1. /\ child' = "gone" /\ state' = "terminal"
      /\ reader' = [s \in Stream |-> IF s \in Stream THEN "cancelled" ELSE reader[s]]
      /\ chunk' = [s \in Stream |-> <<>>] /\ open' = [s \in Stream |-> FALSE]
      /\ truncated' \in [Stream -> BOOLEAN] /\ \A s \in Stream : truncated'[s] => truncated[s]
      /\ UNCHANGED <<goal, written, pipe, file, stored, failed, fetched, eof, borders>>
  BY DEF Restart, Stop, client
<1>2. Types'
  <2>1. chunk' \in [Stream -> Seq(Nat)] /\ open' \in [Stream -> BOOLEAN]
    BY <1>1, EmptySeqNat
  <2>2. reader' \in [Stream -> {"start", "read", "store", "saving", "done", "dead", "cancelled"}]
    BY <1>1
  <2> QED
    BY <1>1, <2>1, <2>2 DEF Types
<1>3. ASSUME NEW s \in Stream PROVE (InOrder(s) /\ Standing(s) /\ Accounted(s) /\ Paged(s))'
  <2>1. /\ chunk'[s] = <<>> /\ open'[s] = FALSE /\ (truncated'[s] => truncated[s])
        /\ reader'[s] = "cancelled"
    BY <1>1
  <2> QED
    BY <1>1, <2>1, StoppedStream
<1> QED
  BY <1>1, <1>2, <1>3 DEF BytesStored

\* A border inside the unit of a byte makes every border between the two one
\* as well.
LEMMA BorderBetween ==
  ASSUME NEW s \in Stream, NEW a \in Nat, NEW x \in Nat, NEW i \in Nat, Splits(s, x, i),
         \/ x <= a /\ a < i
         \/ i <= a /\ a <= x
  PROVE  Splits(s, a, i)
<1>1. CASE x <= a /\ a < i
  <2>1. (a + 1)..i \subseteq (x + 1)..i
    BY <1>1
  <2> QED
    BY <1>1, <2>1 DEF Splits
<1>2. CASE i <= a /\ a <= x
  <2>1. (i + 1)..(a + 1) \subseteq (i + 1)..(x + 1)
    BY <1>2
  <2> QED
    BY <1>2, <2>1 DEF Splits
<1> QED
  BY <1>1, <1>2

\* No unit began before the first byte.
LEMMA NothingBefore ==
  ASSUME NEW s \in Stream, NEW i \in Nat \ {0}
  PROVE  ~Splits(s, 0, i)
<1>1. 1 \in 1..i /\ 1 \notin Continuing[s]
  BY OutputAssumption DEF Stream
<1> QED
  BY <1>1 DEF Splits

\* A page after the borders B, from the last of them: the new border splits no
\* byte before the page that was not split, ...
LEMMA OldSplits ==
  ASSUME NEW s \in Stream, NEW a \in Nat, NEW e \in Nat, a <= e,
         NEW B \in SUBSET (0..a), a \in B, NEW i \in 1..a
  PROVE  (\E x \in B \cup {e} : Splits(s, x, i)) <=> (\E x \in B : Splits(s, x, i))
<1>1. i \in Nat /\ i <= a
  OBVIOUS
<1>2. Splits(s, e, i) => Splits(s, a, i)
  BY <1>1, BorderBetween
<1> QED
  BY <1>2

\* ... and a byte of the page is split by one of its own two borders or by none.
LEMMA NewSplits ==
  ASSUME NEW s \in Stream, NEW a \in Nat, NEW e \in Nat, a <= e,
         NEW B \in SUBSET (0..a), a \in B, NEW i \in (a + 1)..e
  PROVE  (\E x \in B \cup {e} : Splits(s, x, i)) <=> Splits(s, a, i) \/ Splits(s, e, i)
<1>1. i \in Nat /\ a < i
  OBVIOUS
<1>2. ASSUME NEW x \in B, Splits(s, x, i) PROVE Splits(s, a, i)
  <2>1. x \in Nat /\ x <= a
    OBVIOUS
  <2> QED
    BY <1>1, <1>2, <2>1, BorderBetween
<1> QED
  BY <1>2

\* What a page shows of the log.
LEMMA PageFacts ==
  ASSUME NEW s \in Stream, file[s] \in Seq(Nat), Follows(file[s], 0),
         NEW a \in Nat, NEW e \in Nat, a <= e, e <= Len(file[s])
  PROVE  /\ Decoded(s, a, e) \in Seq(Shown) /\ Len(Decoded(s, a, e)) = e - a
         /\ \A k \in 1..(e - a) :
              Decoded(s, a, e)[k] = Seen(s, a + k, Splits(s, a, a + k) \/ Splits(s, e, a + k))
<1> DEFINE d(k) == Seen(s, a + k, Splits(s, a, a + k) \/ Splits(s, e, a + k))
<1>1. PICK m \in Nat : m = e - a
  OBVIOUS
<1>2. \A k \in 1..m : a + k \in 1..Len(file[s]) /\ file[s][a + k] = a + k /\ a + k \in Nat
  BY <1>1 DEF Follows
<1>3. Decoded(s, a, e) = [k \in 1..m |-> d(k)]
  BY <1>1, <1>2 DEF Decoded, Seen
<1>4. \A k \in 1..m : d(k) \in Shown
  BY <1>2 DEF Seen, Shown
<1> HIDE DEF d
<1>5. [k \in 1..m |-> d(k)] \in Seq(Shown) /\ Len([k \in 1..m |-> d(k)]) = m
  BY <1>4
<1>6. \A k \in 1..m : Decoded(s, a, e)[k] = d(k)
  BY <1>3
<1> QED
  BY <1>1, <1>3, <1>5, <1>6 DEF d

LEMMA PollStep ==
  ASSUME OutputInv, NEW s \in Stream, Poll(s)
  PROVE  OutputInv'
<1> USE DEF OutputInv
<1>1. PICK n \in 1..Limit :
        LET offset == Len(fetched[s])
            next == Min({offset + n, Len(file[s])})
        IN /\ fetched' = [fetched EXCEPT ![s] = @ \o Decoded(s, offset, next)]
           /\ eof' = [eof EXCEPT ![s] = LogEnded(s, next)]
           /\ borders' = [borders EXCEPT ![s] = @ \cup {next}]
  BY DEF Poll
<1>2. /\ ~eof[s]
      /\ UNCHANGED <<child, goal, written, pipe, reader, chunk, file, stored, truncated, open,
                     failed, state>>
  BY DEF Poll, log
<1>3. PICK f \in Seq(Nat), g \in Seq(Shown), a \in Nat, l \in Nat, B \in SUBSET Nat :
        f = file[s] /\ g = fetched[s] /\ a = Len(g) /\ l = Len(f) /\ B = borders[s]
  BY StreamTypes
<1>4. /\ a <= l /\ Follows(f, 0) /\ B \in SUBSET (0..a) /\ a \in B /\ 0 \in B
      /\ \A i \in 1..a : g[i] = Seen(s, i, \E x \in B : Splits(s, x, i))
  BY <1>3 DEF Paged, InOrder, Split
<1>5. PICK e \in Nat : e = Min({a + n, l}) /\ a <= e /\ e <= l
  <2>1. a + n \in Nat /\ n \in Nat
    BY OutputAssumption
  <2>2. Min({a + n, l}) \in Nat /\ Min({a + n, l}) = IF a + n <= l THEN a + n ELSE l
    BY <2>1, MinFacts
  <2> QED
    BY <1>4, <2>1, <2>2
<1>6. PICK page \in Seq(Shown) :
        /\ page = Decoded(s, a, e) /\ Len(page) = e - a
        /\ \A k \in 1..(e - a) : page[k] = Seen(s, a + k, Splits(s, a, a + k) \/ Splits(s, e, a + k))
  <2>1. file[s] \in Seq(Nat) /\ a <= e /\ e <= Len(file[s]) /\ Follows(file[s], 0)
    BY <1>3, <1>4, <1>5
  <2> HIDE DEF OutputInv
  <2> QED
    BY <2>1, PageFacts
<1>7. /\ fetched' = [fetched EXCEPT ![s] = g \o page]
      /\ eof' = [eof EXCEPT ![s] = LogEnded(s, e)]
      /\ borders' = [borders EXCEPT ![s] = B \cup {e}]
  BY <1>1, <1>3, <1>5, <1>6
<1>8. /\ g \o page \in Seq(Shown) /\ Len(g \o page) = e
      /\ \A i \in 1..a : (g \o page)[i] = g[i]
      /\ \A i \in (a + 1)..e : (g \o page)[i] = page[i - a]
  <2>1. /\ g \o page \in Seq(Shown) /\ Len(g \o page) = Len(g) + Len(page)
        /\ \A i \in 1..Len(g) : (g \o page)[i] = g[i]
        /\ \A i \in 1..Len(page) : (g \o page)[Len(g) + i] = page[i]
    BY JoinedShown
  <2>2. a + (e - a) = e /\ Len(g) = a /\ Len(page) = e - a
    BY <1>3, <1>6
  <2>3. ASSUME NEW i \in (a + 1)..e PROVE (g \o page)[i] = page[i - a]
    <3>1. i - a \in 1..(e - a) /\ a + (i - a) = i
      OBVIOUS
    <3> QED
      BY <2>1, <2>2, <3>1
  <2> QED
    BY <2>1, <2>2, <2>3
<1>9. ASSUME NEW i \in 1..e
      PROVE  (g \o page)[i] = Seen(s, i, \E x \in B \cup {e} : Splits(s, x, i))
  <2>1. CASE i \in 1..a
    <3>1. (g \o page)[i] = Seen(s, i, \E x \in B : Splits(s, x, i))
      BY <1>4, <1>8, <2>1
    <3>2. (\E x \in B \cup {e} : Splits(s, x, i)) <=> (\E x \in B : Splits(s, x, i))
      BY <1>4, <1>5, <2>1, OldSplits
    <3> QED
      BY <3>1, <3>2 DEF Seen
  <2>2. CASE i \in (a + 1)..e
    <3>1. i - a \in 1..(e - a) /\ a + (i - a) = i
      BY <2>2
    <3>2. (g \o page)[i] = Seen(s, i, Splits(s, a, i) \/ Splits(s, e, i))
      BY <1>6, <1>8, <2>2, <3>1
    <3>3. (\E x \in B \cup {e} : Splits(s, x, i)) <=> Splits(s, a, i) \/ Splits(s, e, i)
      BY <1>4, <1>5, <2>2, NewSplits
    <3> QED
      BY <3>2, <3>3 DEF Seen
  <2>3. i \in 1..a \/ i \in (a + 1)..e
    <3> HIDE DEF OutputInv
    <3> QED
      OBVIOUS
  <2> QED
    BY <2>1, <2>2, <2>3
<1>10. LogEnded(s, e) \in BOOLEAN /\ (LogEnded(s, e) <=> state = "terminal" /\ e >= l)
  BY <1>3 DEF LogEnded
<1>11. B \cup {e} \in SUBSET Nat /\ B \cup {e} \subseteq 0..e /\ {0, e} \subseteq B \cup {e}
  <2>1. B \in SUBSET (0..a) /\ 0 \in B /\ a <= e
    BY <1>4, <1>5
  <2> HIDE DEF OutputInv
  <2>2. 0..a \subseteq 0..e /\ 0..e \subseteq Nat /\ e \in 0..e
    BY <2>1
  <2> QED
    BY <2>1, <2>2
<1>12. Types'
  BY <1>2, <1>7, <1>8, <1>10, <1>11 DEF Types
<1>13. /\ fetched'[s] = g \o page /\ (eof'[s] <=> state = "terminal" /\ e >= l)
       /\ borders'[s] = B \cup {e}
       /\ \A t \in Stream \ {s} : /\ fetched'[t] = fetched[t] /\ eof'[t] = eof[t]
                                  /\ borders'[t] = borders[t]
  BY <1>7, <1>10 DEF Types
<1>14. Paged(s)'
  <2>1. Len(fetched'[s]) = e /\ Len(file'[s]) = l
    BY <1>2, <1>3, <1>8, <1>13
  <2>2. eof'[s] => state' = "terminal" /\ e = l
    BY <1>2, <1>5, <1>13
  <2>3. \A i \in 1..e : fetched'[s][i] = Seen(s, i, \E x \in borders'[s] : Splits(s, x, i))
    BY <1>9, <1>13
  <2> QED
    BY <1>5, <1>11, <1>13, <2>1, <2>2, <2>3 DEF Paged, Split
<1>15. (InOrder(s) /\ Standing(s) /\ Accounted(s))'
  BY <1>2 DEF InOrder, Standing, Accounted, Alive, Follows
<1>16. \A t \in Stream \ {s} : (InOrder(t) /\ Standing(t) /\ Accounted(t) /\ Paged(t))'
  BY <1>2, <1>13, Untouched
<1> QED
  BY <1>2, <1>12, <1>14, <1>15, <1>16 DEF BytesStored

-----------------------------------------------------------------------------
(***************************************************************************)
(* The invariant and what follows from it.                                 *)
(***************************************************************************)
LEMMA OutputInit == Init => OutputInv
<1> SUFFICES ASSUME Init PROVE OutputInv
  OBVIOUS
<1> USE DEF Init
<1>1. Types
  BY EmptySeqNat, OutputAssumption DEF Types
<1>2. BytesStored = stored
  BY EmptySeqNat DEF BytesStored, Stream
<1>3. ASSUME NEW s \in Stream PROVE InOrder(s)
  BY EmptySeqNat DEF InOrder, Follows
<1>4. ASSUME NEW s \in Stream PROVE Standing(s) /\ Accounted(s) /\ Paged(s)
  BY EmptySeqNat DEF Standing, Accounted, Paged, Alive
<1> QED
  BY <1>1, <1>2, <1>3, <1>4 DEF OutputInv

LEMMA OutputNext == OutputInv /\ [Next]_vars => OutputInv'
<1> SUFFICES ASSUME OutputInv, [Next]_vars PROVE OutputInv'
  OBVIOUS
<1>1. ASSUME NEW s \in Stream, Reader(s) PROVE OutputInv'
  BY <1>1, OpenStep, ReadStep, ReadEndStep, SavedStep, StoreStep, StoreFailsStep DEF Reader
<1>2. CASE UNCHANGED vars
  <2>1. UNCHANGED <<child, written, pipe, reader, chunk, file, stored, truncated, open, failed,
                    state, fetched, eof, borders>>
    BY <1>2 DEF vars, log, client
  <2>2. Types' /\ (failed' = {} => BytesStored' = stored')
    BY <2>1 DEF OutputInv, Types, BytesStored
  <2>3. \A s \in Stream : (InOrder(s) /\ Standing(s) /\ Accounted(s) /\ Paged(s))'
    BY <2>1, Untouched DEF OutputInv
  <2> QED
    BY <2>2, <2>3 DEF OutputInv
<1> QED
  BY <1>1, <1>2, WriteStep, EndStep, FinishStep, RestartStep, PollStep DEF Next

\* The logs hold the beginning of the output, the chunks and the pipes what
\* follows; nothing is missing that is not marked; pages are the log.
THEOREM OutputInductive == Spec => []OutputInv
  BY OutputInit, OutputNext, PTL DEF Spec

\* A sequence whose bytes follow upon nothing is what was written first.
LEMMA FollowsFirst ==
  ASSUME NEW f \in Seq(Nat), Follows(f, 0)
  PROVE  f = FirstBytes(Len(f))
<1>1. \A i \in 1..Len(f) : f[i] = i
  BY DEF Follows
<1> QED
  BY <1>1 DEF FirstBytes

\* Both logs together keep to the limit, and a log is complete when its reader
\* reached the end of the stream and the record does not mark it as truncated
\* (_drain_stream, _append_output).
THEOREM LogsAreAccounted == Spec => []OutputIsAccounted
<1>1. OutputInv => OutputIsAccounted
  <2> SUFFICES ASSUME OutputInv PROVE OutputIsAccounted
    OBVIOUS
  <2>1. stored <= Limit
    BY OutputAssumption DEF OutputInv, Types
  <2>2. ASSUME NEW s \in Stream PROVE file[s] = FirstBytes(Len(file[s]))
    BY FollowsFirst DEF OutputInv, Types, InOrder
  <2>3. ASSUME NEW s \in Stream PROVE Accounted(s)
    BY DEF OutputInv
  <2> QED
    BY <2>1, <2>2, <2>3 DEF OutputInv, OutputIsAccounted, Accounted
<1> QED
  BY <1>1, OutputInductive, PTL

\* A client that pages through a log has covered its beginning without gap or
\* repetition, and all of it when it is told that this was the end; it has
\* each byte in its place but those of characters cut by a border of a page, and
\* of escape sequences that no border cut (logs, _read_log).
THEOREM PagesMatchTheLog == Spec => []PagesAreTheLog
<1>1. OutputInv => PagesAreTheLog
  <2> SUFFICES ASSUME OutputInv, NEW s \in Stream
               PROVE  /\ Len(fetched[s]) <= Len(file[s])
                      /\ eof[s] => Len(fetched[s]) = Len(file[s])
                      /\ \A i \in 1..Len(fetched[s]) :
                           /\ fetched[s][i] \in {file[s][i], Replaced, Removed}
                           /\ fetched[s][i] = Replaced <=> i \notin Escaped[s] /\ Split(s, i)
                           /\ fetched[s][i] = Removed
                                <=> i \in Escaped[s] /\ PlainOutput /\ ~Split(s, i)
    BY DEF PagesAreTheLog
  <2>1. Paged(s) /\ Follows(file[s], 0)
    BY DEF OutputInv, InOrder
  <2>2. ASSUME NEW i \in 1..Len(fetched[s])
        PROVE  /\ fetched[s][i] \in {file[s][i], Replaced, Removed}
               /\ fetched[s][i] = Replaced <=> i \notin Escaped[s] /\ Split(s, i)
               /\ fetched[s][i] = Removed <=> i \in Escaped[s] /\ PlainOutput /\ ~Split(s, i)
    <3>1. Len(fetched[s]) \in Nat /\ Len(file[s]) \in Nat
      BY StreamTypes DEF OutputInv
    <3>2. i \in Nat /\ i \in 1..Len(file[s])
      BY <2>1, <3>1 DEF Paged
    <3>3. file[s][i] = i /\ fetched[s][i] = Seen(s, i, Split(s, i))
      BY <2>1, <3>2 DEF Paged, Follows
    <3>4. Replaced # Removed /\ i # Replaced /\ i # Removed
      BY <3>2, OutputAssumption
    <3> QED
      BY <3>3, <3>4 DEF Seen
  <2> QED
    BY <2>1, <2>2 DEF Paged
<1> QED
  BY <1>1, OutputInductive, PTL
=============================================================================
