-------------------------- MODULE PatchTextProofs --------------------------
(***************************************************************************)
(* Theorems about PatchText for files and patches of any size: placing one *)
(* hunk after the other at the first place found finds the placement of    *)
(* all hunks if there is one, and the earliest; no line is lost or doubled *)
(* but by a hunk; and the newlines of a file stay of one kind.             *)
(*                                                                         *)
(* Patched, FlattenSeq and the placing itself are recursive.  What they    *)
(* compute is shown without an induction principle: the least number for   *)
(* which it would be wrong cannot be 0 and has no predecessor.             *)
(***************************************************************************)
EXTENDS PatchText, SequenceTheorems, FiniteSetTheorems, WellFoundedInduction, TLAPS

-----------------------------------------------------------------------------
(***************************************************************************)
(* Numbers and sequences.                                                  *)
(***************************************************************************)
\* A set of numbers that is not empty has a least one.  This is what the
\* inductions below are made of.
LEMMA LeastNumber ==
  ASSUME NEW S \in SUBSET Nat, S # {}
  PROVE  \E m \in S : \A n \in S : m <= n
<1> DEFINE R == {ss \in Nat \X Nat : ss[1] < ss[2]}
<1>1. IsWellFoundedOn(R, Nat)
  BY NatLessThanWellFounded DEF OpToRel
<1>2. \A m, n \in Nat : n < m => <<n, m>> \in R
  OBVIOUS
<1> HIDE DEF R
<1>3. \E m \in S : \A n \in S : ~(<<n, m>> \in R)
  BY <1>1, WFMin
<1>4. PICK m \in S : \A n \in S : ~(<<n, m>> \in R)
  BY <1>3
<1>5. ASSUME NEW n \in S PROVE m <= n
  <2>1. ~(n < m)
    BY <1>2, <1>4
  <2> QED
    BY <2>1
<1> QED
  BY <1>5

\* The first of some places.
LEMMA FirstIsLeast ==
  ASSUME NEW S \in SUBSET Nat, S # {}
  PROVE  FirstOf(S) \in S /\ \A n \in S : FirstOf(S) <= n
  BY LeastNumber DEF FirstOf

\* The piece of a sequence between two places.
LEMMA Piece ==
  ASSUME NEW S, NEW s \in Seq(S), NEW m \in Nat, NEW n \in Nat, n <= Len(s)
  PROVE  /\ SubSeq(s, m + 1, n) \in Seq(S)
         /\ Len(SubSeq(s, m + 1, n)) = IF m < n THEN n - m ELSE 0
         /\ \A i \in 1..(n - m) : SubSeq(s, m + 1, n)[i] = s[m + i]
<1>1. \A i \in (m + 1)..n : s[i] \in S
  BY ElementOfSeq
<1>2. /\ SubSeq(s, m + 1, n) \in Seq(S)
      /\ Len(SubSeq(s, m + 1, n)) = IF m + 1 <= n THEN n - (m + 1) + 1 ELSE 0
      /\ \A i \in 1 .. (n - (m + 1) + 1) : SubSeq(s, m + 1, n)[i] = s[m + 1 + i - 1]
  BY <1>1, SubSeqProperties, m + 1 \in Int, n \in Int
<1> QED
  BY <1>2

\* The same of lines, and of lines that follow upon each other.
LEMMA TextPiece ==
  ASSUME NEW s \in Seq(Text), NEW m \in Nat, NEW n \in Nat, n <= Len(s)
  PROVE  /\ SubSeq(s, m + 1, n) \in Seq(Text)
         /\ Len(SubSeq(s, m + 1, n)) = IF m < n THEN n - m ELSE 0
  BY Piece

LEMMA TextJoined ==
  ASSUME NEW s \in Seq(Text), NEW t \in Seq(Text)
  PROVE  s \o t \in Seq(Text) /\ Len(s \o t) = Len(s) + Len(t)
  BY ConcatProperties

\* What follows d in d \o SubSeq(t, e + 1, Len(t)) is what follows e in t ...
LEMMA RestShifted ==
  ASSUME NEW d \in Seq(Text), NEW t \in Seq(Text), NEW e \in 0..Len(t),
         NEW j \in e..Len(t), NEW n \in j..Len(t)
  PROVE  SubSeq(d \o SubSeq(t, e + 1, Len(t)), Len(d) + (j - e) + 1, Len(d) + (n - e))
           = SubSeq(t, j + 1, n)
<1> DEFINE r == SubSeq(t, e + 1, Len(t))
           s == d \o r
           c == Len(d)
           i == c + (j - e)
           k == c + (n - e)
<1>1. /\ r \in Seq(Text) /\ Len(r) = Len(t) - e
      /\ \A x \in 1..(Len(t) - e) : r[x] = t[e + x]
  BY Piece
<1>2. /\ s \in Seq(Text) /\ Len(s) = c + Len(r)
      /\ \A x \in 1..(c + Len(r)) : s[x] = IF x <= c THEN d[x] ELSE r[x - c]
  BY <1>1, ConcatProperties
<1>3. c \in Nat /\ i \in Nat /\ k \in Nat /\ k <= Len(s) /\ i <= k
  BY <1>1, <1>2
<1> HIDE DEF s, r
<1>4. /\ SubSeq(s, i + 1, k) \in Seq(Text) /\ Len(SubSeq(s, i + 1, k)) = k - i
      /\ \A x \in 1..(k - i) : SubSeq(s, i + 1, k)[x] = s[i + x]
  <2> HIDE DEF i, k
  <2> QED
    BY <1>2, <1>3, Piece
<1>5. /\ SubSeq(t, j + 1, n) \in Seq(Text) /\ Len(SubSeq(t, j + 1, n)) = n - j
      /\ \A x \in 1..(n - j) : SubSeq(t, j + 1, n)[x] = t[j + x]
  BY Piece
<1>6. ASSUME NEW x \in 1..(n - j) PROVE s[i + x] = t[j + x]
  <2>1. i + x \in 1..(c + Len(r)) /\ i + x > c /\ i + x - c = j - e + x
    BY <1>1, <1>3
  <2>2. s[i + x] = r[j - e + x]
    BY <1>2, <2>1
  <2>3. j - e + x \in 1..(Len(t) - e) /\ e + (j - e + x) = j + x
    OBVIOUS
  <2> QED
    BY <1>1, <2>2, <2>3
<1>7. SubSeq(s, i + 1, k) = SubSeq(t, j + 1, n)
  <2>1. k - i = n - j
    OBVIOUS
  <2> QED
    BY <1>4, <1>5, <1>6, <2>1, SeqEqual
<1> QED
  BY <1>7 DEF s, r

\* ... and what is up to a place in it is d and a piece of t.
LEMMA FrontShifted ==
  ASSUME NEW d \in Seq(Text), NEW t \in Seq(Text), NEW e \in 0..Len(t),
         NEW j \in e..Len(t)
  PROVE  SubSeq(d \o SubSeq(t, e + 1, Len(t)), 1, Len(d) + (j - e)) = d \o SubSeq(t, e + 1, j)
<1> DEFINE r == SubSeq(t, e + 1, Len(t))
           s == d \o r
           q == SubSeq(t, e + 1, j)
           c == Len(d)
           i == c + (j - e)
<1>1. /\ r \in Seq(Text) /\ Len(r) = Len(t) - e
      /\ \A x \in 1..(Len(t) - e) : r[x] = t[e + x]
  BY Piece
<1>2. /\ s \in Seq(Text) /\ Len(s) = c + Len(r)
      /\ \A x \in 1..(c + Len(r)) : s[x] = IF x <= c THEN d[x] ELSE r[x - c]
  BY <1>1, ConcatProperties
<1>3. /\ q \in Seq(Text) /\ Len(q) = j - e
      /\ \A x \in 1..(j - e) : q[x] = t[e + x]
  BY Piece
<1>4. /\ d \o q \in Seq(Text) /\ Len(d \o q) = c + Len(q)
      /\ \A x \in 1..(c + Len(q)) : (d \o q)[x] = IF x <= c THEN d[x] ELSE q[x - c]
  BY <1>3, ConcatProperties
<1>5. c \in Nat /\ i \in Nat /\ i <= Len(s)
  BY <1>1, <1>2
<1> HIDE DEF s, r, q
<1>6. /\ SubSeq(s, 1, i) \in Seq(Text) /\ Len(SubSeq(s, 1, i)) = i
      /\ \A x \in 1..i : SubSeq(s, 1, i)[x] = s[x]
  BY <1>2, <1>5, Piece, 0 + 1 = 1
<1>7. ASSUME NEW x \in 1..i PROVE s[x] = (d \o q)[x]
  <2>0. /\ x \in 1..(c + Len(r)) /\ x \in 1..(c + Len(q))
        /\ s[x] = (IF x <= c THEN d[x] ELSE r[x - c])
        /\ (d \o q)[x] = IF x <= c THEN d[x] ELSE q[x - c]
    BY <1>1, <1>2, <1>3, <1>4, <1>5
  <2>1. CASE x <= c
    BY <2>0, <2>1
  <2>2. CASE ~(x <= c)
    <3>1. x - c \in 1..(j - e) /\ x - c \in 1..(Len(t) - e)
      BY <1>5, <2>2
    <3>2. r[x - c] = q[x - c]
      BY <1>1, <1>3, <3>1
    <3> QED
      BY <2>0, <2>2, <3>2
  <2> QED
    BY <2>1, <2>2
<1>8. SubSeq(s, 1, i) = d \o q
  BY <1>3, <1>4, <1>6, <1>7, SeqEqual
<1> QED
  BY <1>8 DEF s, r, q
-----------------------------------------------------------------------------
(***************************************************************************)
(* The first k hunks of hs, placed in ls by p.                             *)
(***************************************************************************)
Hunks == [old: Seq(Text), new: Seq(Text)]

Fit(ls, hs, k, p) ==
  /\ p \in [1..k -> 0..Len(ls)]
  /\ \A i \in 1..k :
       IF hs[i].old = <<>> THEN p[i] = EndOf(p, hs, i - 1)
       ELSE p[i] \in Places(ls, hs[i].old, EndOf(p, hs, i - 1))

NoneFit(ls, hs, k) == \A p : ~Fit(ls, hs, k, p)

\* No other placement has a hunk before its place in p.
Foremost(ls, hs, k, p) == \A q : Fit(ls, hs, k, q) => \A i \in 1..k : p[i] <= q[i]

\* u[i] is what the first i hunks make of the lines up to the end of the i-th.
Spells(ls, hs, k, p, u) ==
  /\ u \in [0..k -> Seq(Text)] /\ u[0] = <<>>
  /\ \A i \in 1..k :
       u[i] = u[i - 1] \o SubSeq(ls, EndOf(p, hs, i - 1) + 1, p[i]) \o hs[i].new

\* One hunk more, at the place j.
SpellsNext(ls, hs, k, p, u, j, w) ==
  w = u[k] \o SubSeq(ls, EndOf(p, hs, k) + 1, j) \o hs[k + 1].new

\* The place where the next hunk goes, and what it is in the old lines.
PlaceOf(s, old, c) == IF old = <<>> THEN c ELSE FirstOf(Places(s, old, c))

FirstFrom(ls, old, e, j) ==
  IF old = <<>> THEN j = e
  ELSE j \in Places(ls, old, e) /\ \A x \in Places(ls, old, e) : j <= x

Longer(f, k, x) == [i \in DOMAIN f \cup {k + 1} |-> IF i = k + 1 THEN x ELSE f[i]]

\* A function over 0..k with one value more.
LEMMA LongerType ==
  ASSUME NEW k \in Nat, NEW f \in [0..k -> Seq(Text)], NEW x \in Seq(Text)
  PROVE  /\ Longer(f, k, x) \in [0..(k + 1) -> Seq(Text)]
         /\ Longer(f, k, x)[k + 1] = x /\ \A i \in 0..k : Longer(f, k, x)[i] = f[i]
<1>1. DOMAIN f \cup {k + 1} = 0..(k + 1)
  OBVIOUS
<1> QED
  BY <1>1 DEF Longer

\* The end of a placed hunk is in the file.
LEMMA EndInside ==
  ASSUME NEW ls \in Seq(Text), NEW hs \in Seq(Hunks), NEW k \in 0..Len(hs), NEW p,
         Fit(ls, hs, k, p), NEW i \in 0..k
  PROVE  EndOf(p, hs, i) \in 0..Len(ls)
<1>1. CASE i = 0
  BY <1>1 DEF EndOf
<1>2. CASE i \in 1..k
  <2>0. hs[i] \in Hunks
    BY <1>2, ElementOfSeq
  <2>1. p[i] \in 0..Len(ls) /\ hs[i].old \in Seq(Text)
    BY <1>2, <2>0 DEF Fit, Hunks
  <2>2. p[i] + Len(hs[i].old) <= Len(ls)
    <3>1. CASE hs[i].old = <<>>
      BY <2>1, <3>1
    <3>2. CASE hs[i].old # <<>>
      BY <1>2, <3>2 DEF Fit, Places
    <3> QED
      BY <3>1, <3>2
  <2> QED
    BY <1>2, <2>1, <2>2 DEF EndOf
<1> QED
  BY <1>1, <1>2

\* One hunk more, behind the others.
LEMMA FitLonger ==
  ASSUME NEW ls \in Seq(Text), NEW hs \in Seq(Hunks), NEW k \in Nat, k < Len(hs), NEW p,
         Fit(ls, hs, k, p), NEW j \in 0..Len(ls),
         IF hs[k + 1].old = <<>> THEN j = EndOf(p, hs, k)
         ELSE j \in Places(ls, hs[k + 1].old, EndOf(p, hs, k))
  PROVE  /\ Fit(ls, hs, k + 1, Longer(p, k, j))
         /\ \A i \in 0..k : EndOf(Longer(p, k, j), hs, i) = EndOf(p, hs, i)
<1> DEFINE r == Longer(p, k, j)
<1>1. DOMAIN p = 1..k
  BY DEF Fit
<1>2. r \in [1..(k + 1) -> 0..Len(ls)] /\ r[k + 1] = j /\ \A i \in 1..k : r[i] = p[i]
  BY <1>1 DEF Longer, Fit
<1> HIDE DEF r
<1>3. \A i \in 0..k : EndOf(r, hs, i) = EndOf(p, hs, i)
  BY <1>2 DEF EndOf
<1>4. ASSUME NEW i \in 1..(k + 1)
      PROVE  IF hs[i].old = <<>> THEN r[i] = EndOf(r, hs, i - 1)
             ELSE r[i] \in Places(ls, hs[i].old, EndOf(r, hs, i - 1))
  <2>1. EndOf(r, hs, i - 1) = EndOf(p, hs, i - 1)
    BY <1>3
  <2>2. CASE i = k + 1
    <3>1. i - 1 = k
      BY <2>2
    <3> QED
      BY <1>2, <2>1, <2>2, <3>1
  <2>3. CASE i # k + 1
    <3>1. i \in 1..k
      BY <2>3
    <3> QED
      BY <1>2, <2>1, <3>1 DEF Fit
  <2> QED
    BY <2>2, <2>3
<1>5. Fit(ls, hs, k + 1, r)
  BY <1>2, <1>4 DEF Fit
<1> QED
  BY <1>3, <1>5 DEF r

\* One hunk less.
LEMMA FitShorter ==
  ASSUME NEW ls, NEW hs, NEW k \in Nat, NEW q, Fit(ls, hs, k + 1, q)
  PROVE  LET r == [i \in 1..k |-> q[i]]
         IN  /\ Fit(ls, hs, k, r)
             /\ \A i \in 0..k : EndOf(r, hs, i) = EndOf(q, hs, i)
<1> DEFINE r == [i \in 1..k |-> q[i]]
<1>1. r \in [1..k -> 0..Len(ls)] /\ \A i \in 1..k : r[i] = q[i]
  BY DEF Fit
<1> HIDE DEF r
<1>2. \A i \in 0..k : EndOf(r, hs, i) = EndOf(q, hs, i)
  BY <1>1 DEF EndOf
<1>3. ASSUME NEW i \in 1..k
      PROVE  IF hs[i].old = <<>> THEN r[i] = EndOf(r, hs, i - 1)
             ELSE r[i] \in Places(ls, hs[i].old, EndOf(r, hs, i - 1))
  <2>1. EndOf(r, hs, i - 1) = EndOf(q, hs, i - 1) /\ i \in 1..(k + 1)
    BY <1>2
  <2> QED
    BY <1>1, <2>1 DEF Fit
<1>4. Fit(ls, hs, k, r)
  BY <1>1, <1>3 DEF Fit
<1> QED
  BY <1>2, <1>4 DEF r

\* If the first hunks do not fit, more of them do not either.
LEMMA NoneFitMore ==
  ASSUME NEW ls, NEW hs, NEW k \in Nat, NEW n \in Nat, k <= n, NoneFit(ls, hs, k)
  PROVE  NoneFit(ls, hs, n)
<1> SUFFICES ASSUME NEW p, Fit(ls, hs, n, p)
             PROVE  FALSE
  BY DEF NoneFit
<1> DEFINE r == [i \in 1..k |-> p[i]]
<1>1. r \in [1..k -> 0..Len(ls)] /\ \A i \in 1..k : r[i] = p[i]
  BY DEF Fit
<1> HIDE DEF r
<1>2. \A i \in 0..k : EndOf(r, hs, i) = EndOf(p, hs, i)
  BY <1>1 DEF EndOf
<1>3. ASSUME NEW i \in 1..k
      PROVE  IF hs[i].old = <<>> THEN r[i] = EndOf(r, hs, i - 1)
             ELSE r[i] \in Places(ls, hs[i].old, EndOf(r, hs, i - 1))
  <2>1. EndOf(r, hs, i - 1) = EndOf(p, hs, i - 1) /\ i \in 1..n
    BY <1>2
  <2> QED
    BY <1>1, <2>1 DEF Fit
<1>4. Fit(ls, hs, k, r)
  BY <1>1, <1>3 DEF Fit
<1> QED
  BY <1>4 DEF NoneFit

\* Any placement of one hunk more has it behind the end of the foremost one of
\* the others, so it is at a place that a search from there finds.
LEMMA FoundFromForemost ==
  ASSUME NEW ls \in Seq(Text), NEW hs \in Seq(Hunks), NEW k \in Nat, k < Len(hs), NEW p,
         Fit(ls, hs, k, p), Foremost(ls, hs, k, p), NEW q, Fit(ls, hs, k + 1, q)
  PROVE  /\ \A i \in 1..k : p[i] <= q[i]
         /\ EndOf(p, hs, k) <= q[k + 1]
         /\ hs[k + 1].old # <<>> => q[k + 1] \in Places(ls, hs[k + 1].old, EndOf(p, hs, k))
<1> DEFINE r == [i \in 1..k |-> q[i]]
<1>1. Fit(ls, hs, k, r) /\ \A i \in 0..k : EndOf(r, hs, i) = EndOf(q, hs, i)
  BY FitShorter
<1>2. \A i \in 1..k : r[i] = q[i]
  OBVIOUS
<1> HIDE DEF r
<1>3. \A i \in 1..k : p[i] <= q[i]
  BY <1>1, <1>2 DEF Foremost
<1>4. EndOf(p, hs, k) \in 0..Len(ls) /\ EndOf(q, hs, k) \in 0..Len(ls)
  BY <1>1, EndInside, k \in 0..Len(hs), k \in 0..k
<1>5. EndOf(p, hs, k) <= EndOf(q, hs, k)
  <2>1. CASE k = 0
    BY <2>1 DEF EndOf
  <2>2. CASE k # 0
    <3>1. /\ k \in 1..k /\ k \in 1..(k + 1) /\ hs[k] \in Hunks
          /\ p[k] \in Nat /\ q[k] \in Nat /\ p[k] <= q[k]
      BY <1>3, <2>2, ElementOfSeq DEF Fit
    <3>2. Len(hs[k].old) \in Nat
      BY <3>1 DEF Hunks
    <3> QED
      BY <2>2, <3>1, <3>2 DEF EndOf
  <2> QED
    BY <2>1, <2>2
<1>6. /\ q[k + 1] \in 0..Len(ls)
      /\ IF hs[k + 1].old = <<>> THEN q[k + 1] = EndOf(q, hs, k)
         ELSE q[k + 1] \in Places(ls, hs[k + 1].old, EndOf(q, hs, k))
  <2>1. k + 1 \in 1..(k + 1) /\ (k + 1) - 1 = k
    OBVIOUS
  <2> QED
    BY <2>1 DEF Fit
<1>7. CASE hs[k + 1].old = <<>>
  BY <1>3, <1>5, <1>6, <1>7
<1>8. CASE hs[k + 1].old # <<>>
  <2>1. q[k + 1] \in EndOf(q, hs, k)..Len(ls)
    BY <1>6, <1>8 DEF Places
  <2>2. q[k + 1] \in EndOf(p, hs, k)..Len(ls)
    BY <1>4, <1>5, <2>1
  <2> QED
    BY <1>3, <1>4, <1>6, <1>8, <2>2 DEF Places
<1> QED
  BY <1>7, <1>8

\* Taking the first place found keeps the placement the foremost one.
LEMMA ForemostLonger ==
  ASSUME NEW ls \in Seq(Text), NEW hs \in Seq(Hunks), NEW k \in Nat, k < Len(hs), NEW p,
         Fit(ls, hs, k, p), Foremost(ls, hs, k, p), NEW j \in 0..Len(ls),
         IF hs[k + 1].old = <<>> THEN j = EndOf(p, hs, k)
         ELSE \A i \in Places(ls, hs[k + 1].old, EndOf(p, hs, k)) : j <= i
  PROVE  Foremost(ls, hs, k + 1, Longer(p, k, j))
<1> DEFINE r == Longer(p, k, j)
<1>1. r[k + 1] = j /\ \A i \in 1..k : r[i] = p[i]
  BY DEF Longer, Fit
<1> HIDE DEF r
<1>2. ASSUME NEW q, Fit(ls, hs, k + 1, q), NEW i \in 1..(k + 1)
      PROVE  r[i] <= q[i]
  <2>1. /\ \A x \in 1..k : p[x] <= q[x]
        /\ EndOf(p, hs, k) <= q[k + 1]
        /\ hs[k + 1].old # <<>> => q[k + 1] \in Places(ls, hs[k + 1].old, EndOf(p, hs, k))
    BY <1>2, FoundFromForemost
  <2>2. CASE i = k + 1
    BY <1>1, <2>1, <2>2
  <2>3. CASE i # k + 1
    <3>1. i \in 1..k
      BY <2>3
    <3> QED
      BY <1>1, <2>1, <3>1
  <2> QED
    BY <2>2, <2>3
<1> QED
  BY <1>2 DEF Foremost, r

\* What the hunks spell goes on with what is between them and the new lines.
LEMMA SpellsLonger ==
  ASSUME NEW ls \in Seq(Text), NEW hs \in Seq(Hunks), NEW k \in Nat, k < Len(hs),
         NEW p, Fit(ls, hs, k, p), NEW u, Spells(ls, hs, k, p, u),
         NEW j \in 0..Len(ls), EndOf(p, hs, k) <= j,
         NEW w \in Seq(Text), SpellsNext(ls, hs, k, p, u, j, w)
  PROVE  /\ Spells(ls, hs, k + 1, Longer(p, k, j), Longer(u, k, w))
         /\ Longer(u, k, w)[k + 1] = w
<1> DEFINE e == EndOf(p, hs, k)
           r == Longer(p, k, j)
           v == Longer(u, k, w)
<1>4. r[k + 1] = j /\ \A i \in 1..k : r[i] = p[i]
  BY DEF Longer, Fit
<1>5. /\ v \in [0..(k + 1) -> Seq(Text)] /\ v[k + 1] = w
      /\ \A i \in 0..k : v[i] = u[i]
  <2>1. u \in [0..k -> Seq(Text)]
    BY DEF Spells
  <2> QED
    BY <2>1, LongerType
<1>6. \A i \in 0..k : EndOf(r, hs, i) = EndOf(p, hs, i)
  BY <1>4 DEF EndOf
<1> HIDE DEF r, v
<1>7. ASSUME NEW i \in 1..(k + 1)
      PROVE  v[i] = v[i - 1] \o SubSeq(ls, EndOf(r, hs, i - 1) + 1, r[i]) \o hs[i].new
  <2>1. EndOf(r, hs, i - 1) = EndOf(p, hs, i - 1) /\ v[i - 1] = u[i - 1]
    BY <1>5, <1>6, i - 1 \in 0..k
  <2>2. CASE i = k + 1
    <3>1. i - 1 = k
      BY <2>2
    <3> QED
      BY <1>4, <1>5, <2>1, <2>2, <3>1 DEF SpellsNext
  <2>3. CASE i # k + 1
    <3>1. i \in 1..k
      BY <2>3
    <3>2. v[i] = u[i] /\ r[i] = p[i]
      BY <1>4, <1>5, <3>1
    <3> QED
      BY <2>1, <3>1, <3>2 DEF Spells
  <2> QED
    BY <2>2, <2>3
<1>8. Spells(ls, hs, k + 1, r, v)
  <2>1. v[0] = <<>>
    BY <1>5, 0 \in 0..k DEF Spells
  <2> QED
    BY <1>5, <1>7, <2>1 DEF Spells
<1> QED
  BY <1>5, <1>8 DEF r, v

\* What a search finds behind d is what it finds behind e in the old lines.
LEMMA SearchShifted ==
  ASSUME NEW ls \in Seq(Text), NEW d \in Seq(Text), NEW e \in 0..Len(ls),
         NEW needle \in Seq(Text), NEW i \in Nat, Len(d) <= i
  PROVE  i \in Places(d \o SubSeq(ls, e + 1, Len(ls)), needle, Len(d))
           <=> e + (i - Len(d)) \in Places(ls, needle, e)
<1> DEFINE s == d \o SubSeq(ls, e + 1, Len(ls))
           c == Len(d)
           n == Len(needle)
           j == e + (i - c)
<1>1. c \in Nat /\ n \in Nat /\ j \in Nat /\ e <= j
  OBVIOUS
<1>2. /\ SubSeq(ls, e + 1, Len(ls)) \in Seq(Text)
      /\ Len(SubSeq(ls, e + 1, Len(ls))) = Len(ls) - e
  BY Piece
<1>3. Len(s) = c + (Len(ls) - e)
  BY <1>2, ConcatProperties
<1>4. i + n <= Len(s) <=> j + n <= Len(ls)
  BY <1>1, <1>3
<1>5. ASSUME j + n <= Len(ls)
      PROVE  SubSeq(s, i + 1, i + n) = SubSeq(ls, j + 1, j + n)
  <2>1. j \in e..Len(ls) /\ j + n \in j..Len(ls)
    BY <1>1, <1>5
  <2> HIDE DEF j, n
  <2>2. SubSeq(s, c + (j - e) + 1, c + ((j + n) - e)) = SubSeq(ls, j + 1, j + n)
    <3> DEFINE m == j + n
    <3>1. m \in j..Len(ls)
      BY <2>1
    <3> HIDE DEF m, s, c
    <3>2. s = d \o SubSeq(ls, e + 1, Len(ls)) /\ c = Len(d)
      BY DEF s, c
    <3>3. SubSeq(s, c + (j - e) + 1, c + (m - e)) = SubSeq(ls, j + 1, m)
      BY <2>1, <3>1, <3>2, RestShifted
    <3> QED
      BY <3>3 DEF m
  <2>3. c + (j - e) = i /\ c + ((j + n) - e) = i + n
    BY <1>1 DEF j
  <2> HIDE DEF s, c
  <2> QED
    BY <2>2, <2>3
<1> HIDE DEF s, c, j, n
<1>6. i \in Places(s, needle, c) <=> /\ i + n <= Len(s)
                                     /\ SubSeq(s, i + 1, i + n) = needle
  <2>1. i \in c..Len(s) <=> i <= Len(s)
    BY <1>1, <1>3 DEF c
  <2>2. i + n <= Len(s) => i <= Len(s)
    BY <1>1, <1>3
  <2> QED
    BY <2>1, <2>2 DEF Places, n
<1>7. j \in Places(ls, needle, e) <=> /\ j + n <= Len(ls)
                                      /\ SubSeq(ls, j + 1, j + n) = needle
  <2>1. j \in e..Len(ls) <=> j <= Len(ls)
    BY <1>1
  <2>2. j + n <= Len(ls) => j <= Len(ls)
    BY <1>1
  <2> QED
    BY <2>1, <2>2 DEF Places, n
<1> QED
  BY <1>4, <1>5, <1>6, <1>7 DEF s, c, j

-----------------------------------------------------------------------------
(***************************************************************************)
(* What placing k hunks one after the other has made of the lines.         *)
(***************************************************************************)
Result(ls, hs, k, s, c) ==
  \E p, u : /\ Fit(ls, hs, k, p) /\ Foremost(ls, hs, k, p) /\ Spells(ls, hs, k, p, u)
            /\ s = u[k] \o SubSeq(ls, EndOf(p, hs, k) + 1, Len(ls)) /\ c = Len(u[k])

\* Where the next hunk is placed, in s and in the old lines ls.
LEMMA PlaceShifted ==
  ASSUME NEW ls \in Seq(Text), NEW d \in Seq(Text), NEW e \in 0..Len(ls),
         NEW s, s = d \o SubSeq(ls, e + 1, Len(ls)), NEW old \in Seq(Text),
         Places(s, old, Len(d)) # {}
  PROVE  \E j \in e..Len(ls) :
              /\ j + Len(old) <= Len(ls) /\ PlaceOf(s, old, Len(d)) = Len(d) + (j - e)
              /\ FirstFrom(ls, old, e, j)
<1> DEFINE i == PlaceOf(s, old, Len(d))
           c == Len(d)
           P == Places(s, old, c)
           Q == Places(ls, old, e)
           j == e + (i - c)
<1>1. c \in Nat /\ Len(old) \in Nat /\ (old = <<>> => Len(old) = 0)
  OBVIOUS
<1>2. CASE old = <<>>
  <2>1. PlaceOf(s, old, Len(d)) = Len(d)
    BY <1>2 DEF PlaceOf
  <2>2. e \in e..Len(ls) /\ e + Len(old) <= Len(ls) /\ c = c + (e - e)
    BY <1>1, <1>2
  <2>3. FirstFrom(ls, old, e, e)
    BY <1>2 DEF FirstFrom
  <2> QED
    BY <2>1, <2>2, <2>3
<1>3. CASE old # <<>>
  <2>1. ASSUME NEW x \in Nat, c <= x PROVE x \in P <=> e + (x - c) \in Q
    BY <2>1, SearchShifted
  <2>2. ASSUME NEW x \in P PROVE x \in Nat /\ c <= x
    BY <1>1, <2>2 DEF Places
  <2>3. ASSUME NEW x \in Q PROVE x \in e..Len(ls) /\ x + Len(old) <= Len(ls)
    BY <2>3 DEF Places
  <2>4. i = FirstOf(P) /\ P # {}
    BY <1>3 DEF PlaceOf
  <2> HIDE DEF P, Q, i
  <2>5. i \in P /\ \A x \in P : i <= x
    BY <2>2, <2>4, FirstIsLeast
  <2> HIDE DEF c
  <2>6. i \in Nat /\ c <= i
    BY <2>2, <2>5
  <2>7. j \in Q
    BY <2>1, <2>5, <2>6
  <2>8. j \in e..Len(ls) /\ j + Len(old) <= Len(ls)
    BY <2>3, <2>7
  <2>9. i = c + (j - e)
    BY <1>1, <2>6
  <2>10. ASSUME NEW x \in Q PROVE j <= x
    <3>1. x \in Nat /\ e <= x
      BY <2>3
    <3>2. c + (x - e) \in Nat /\ c <= c + (x - e) /\ e + ((c + (x - e)) - c) = x
      BY <1>1, <3>1
    <3>3. c + (x - e) \in P
      BY <2>1, <2>10, <3>2
    <3>4. i <= c + (x - e)
      BY <2>5, <3>3
    <3> QED
      BY <1>1, <2>6, <3>1, <3>4
  <2> HIDE DEF j
  <2>11. FirstFrom(ls, old, e, j)
    BY <1>3, <2>7, <2>10 DEF FirstFrom, Q
  <2> QED
    BY <2>8, <2>9, <2>11 DEF c, i
<1> QED
  BY <1>2, <1>3

\* d stands for the lines up to e; old is at j there, and at i in s; new comes after w.
Splice(ls, d, e, j, new, s, i, w) ==
  /\ s = d \o SubSeq(ls, e + 1, Len(ls)) /\ i = Len(d) + (j - e)
  /\ w = d \o SubSeq(ls, e + 1, j) \o new

Spliced(ls, j, old, new, s, i, w) ==
  /\ SubSeq(s, 1, i) \o new \o Rest(s, i, old) = w \o SubSeq(ls, j + Len(old) + 1, Len(ls))
  /\ i + Len(new) = Len(w)

\* What it makes of s.
LEMMA PlacedText ==
  ASSUME NEW ls \in Seq(Text), NEW d \in Seq(Text), NEW e \in 0..Len(ls), NEW j \in e..Len(ls),
         NEW old \in Seq(Text), j + Len(old) <= Len(ls), NEW new \in Seq(Text),
         NEW s, NEW i, NEW w, Splice(ls, d, e, j, new, s, i, w)
  PROVE  Spliced(ls, j, old, new, s, i, w)
<1>0. /\ s = d \o SubSeq(ls, e + 1, Len(ls)) /\ i = Len(d) + (j - e)
      /\ w = d \o SubSeq(ls, e + 1, j) \o new
  BY DEF Splice
<1> DEFINE c == Len(d)
           m == j + Len(old)
           q == SubSeq(ls, e + 1, j)
<1>1. SubSeq(s, 1, i) = d \o q
  BY <1>0, FrontShifted
<1>2. m \in e..Len(ls) /\ Len(ls) \in m..Len(ls) /\ c \in Nat
  OBVIOUS
<1>3. Len(s) = c + (Len(ls) - e)
  <2>1. /\ SubSeq(ls, e + 1, Len(ls)) \in Seq(Text)
        /\ Len(SubSeq(ls, e + 1, Len(ls))) = Len(ls) - e
    BY TextPiece
  <2>2. Len(s) = Len(d) + Len(SubSeq(ls, e + 1, Len(ls)))
    BY <1>0, <2>1, TextJoined
  <2> QED
    BY <2>1, <2>2
<1>4. SubSeq(s, c + (m - e) + 1, c + (Len(ls) - e)) = SubSeq(ls, m + 1, Len(ls))
  <2> HIDE DEF m
  <2> QED
    BY <1>0, <1>2, RestShifted
<1>5. i + Len(old) = c + (m - e)
  BY <1>0, <1>2
<1>6. q \in Seq(Text) /\ Len(q) = j - e
  BY TextPiece
<1> HIDE DEF c, q
<1>7. Rest(s, i, old) = SubSeq(ls, m + 1, Len(ls))
  <2> HIDE DEF m
  <2> QED
    BY <1>3, <1>4, <1>5 DEF Rest
<1>8. w = d \o q \o new
  BY <1>0 DEF q
<1>9. Len(w) = i + Len(new)
  <2>1. d \o q \in Seq(Text) /\ Len(d \o q) = Len(d) + Len(q)
    BY <1>6, TextJoined
  <2>2. Len(d \o q \o new) = Len(d \o q) + Len(new)
    BY <2>1, TextJoined
  <2> QED
    BY <1>0, <1>6, <1>8, <2>1, <2>2 DEF c
<1> QED
  BY <1>1, <1>7, <1>8, <1>9 DEF Spliced, m

\* The hunk at the place j: what is known of the first k holds of one more.
LEMMA ResultLonger ==
  ASSUME NEW ls \in Seq(Text), NEW hs \in Seq(Hunks), NEW k \in Nat, k < Len(hs),
         NEW p, Fit(ls, hs, k, p), Foremost(ls, hs, k, p), NEW u, Spells(ls, hs, k, p, u),
         NEW j \in EndOf(p, hs, k)..Len(ls), FirstFrom(ls, hs[k + 1].old, EndOf(p, hs, k), j),
         NEW w \in Seq(Text), SpellsNext(ls, hs, k, p, u, j, w)
  PROVE  Result(ls, hs, k + 1, w \o SubSeq(ls, j + Len(hs[k + 1].old) + 1, Len(ls)), Len(w))
<1> DEFINE e == EndOf(p, hs, k)
           r == Longer(p, k, j)
           v == Longer(u, k, w)
<1>1. e \in 0..Len(ls)
  BY EndInside, k \in 0..Len(hs), k \in 0..k
<1>2. j \in 0..Len(ls) /\ e <= j
  BY <1>1
<1>3. /\ IF hs[k + 1].old = <<>> THEN j = e ELSE j \in Places(ls, hs[k + 1].old, e)
      /\ IF hs[k + 1].old = <<>> THEN j = e
         ELSE \A x \in Places(ls, hs[k + 1].old, e) : j <= x
  BY DEF FirstFrom
<1>4. Fit(ls, hs, k + 1, r)
  BY <1>2, <1>3, FitLonger
<1>5. Foremost(ls, hs, k + 1, r)
  BY <1>2, <1>3, ForemostLonger
<1>6. Spells(ls, hs, k + 1, r, v) /\ v[k + 1] = w
  BY <1>2, SpellsLonger
<1>7. EndOf(r, hs, k + 1) = j + Len(hs[k + 1].old)
  BY DEF EndOf, Longer
<1> HIDE DEF r, v, e
<1> DEFINE s == w \o SubSeq(ls, j + Len(hs[k + 1].old) + 1, Len(ls))
<1>8. s = v[k + 1] \o SubSeq(ls, EndOf(r, hs, k + 1) + 1, Len(ls)) /\ Len(w) = Len(v[k + 1])
  BY <1>6, <1>7
<1> HIDE DEF s
<1>9. Result(ls, hs, k + 1, s, Len(w))
  BY <1>4, <1>5, <1>6, <1>8 DEF Result
<1> QED
  BY <1>9 DEF s

\* The next hunk, if it is found ahead, keeps it the result of the earliest places.
LEMMA ResultNext ==
  ASSUME NEW ls \in Seq(Text), NEW hs \in Seq(Hunks), NEW k \in Nat, k < Len(hs),
         NEW s, NEW c, Result(ls, hs, k, s, c), Places(s, hs[k + 1].old, c) # {},
         NEW i, i = PlaceOf(s, hs[k + 1].old, c)
  PROVE  Result(ls, hs, k + 1, SubSeq(s, 1, i) \o hs[k + 1].new \o Rest(s, i, hs[k + 1].old),
                i + Len(hs[k + 1].new))
<1>1. PICK p, u : /\ Fit(ls, hs, k, p) /\ Foremost(ls, hs, k, p) /\ Spells(ls, hs, k, p, u)
                  /\ s = u[k] \o SubSeq(ls, EndOf(p, hs, k) + 1, Len(ls)) /\ c = Len(u[k])
  BY DEF Result
<1> DEFINE e == EndOf(p, hs, k)
           d == u[k]
           old == hs[k + 1].old
           new == hs[k + 1].new
<1>2. e \in 0..Len(ls)
  BY <1>1, EndInside, k \in 0..Len(hs), k \in 0..k
<1>3. d \in Seq(Text)
  BY <1>1, k \in 0..k DEF Spells
<1>4. old \in Seq(Text) /\ new \in Seq(Text)
  <2>1. hs[k + 1] \in Hunks
    BY ElementOfSeq, k + 1 \in 1..Len(hs)
  <2> QED
    BY <2>1 DEF Hunks
<1>5. s = d \o SubSeq(ls, e + 1, Len(ls)) /\ c = Len(d)
  BY <1>1
<1>6. Places(s, old, Len(d)) # {} /\ i = PlaceOf(s, old, Len(d))
  BY <1>5
<1> HIDE DEF e, d, old, new
<1>7. \E j \in e..Len(ls) :
        /\ j + Len(old) <= Len(ls) /\ PlaceOf(s, old, Len(d)) = Len(d) + (j - e)
        /\ FirstFrom(ls, old, e, j)
  BY <1>2, <1>3, <1>4, <1>5, <1>6, PlaceShifted
<1>8. PICK j \in e..Len(ls) :
        /\ j + Len(old) <= Len(ls) /\ PlaceOf(s, old, Len(d)) = Len(d) + (j - e)
        /\ FirstFrom(ls, old, e, j)
  BY <1>7
<1>9. i = Len(d) + (j - e)
  BY <1>6, <1>8
<1> DEFINE w == d \o SubSeq(ls, e + 1, j) \o new
<1>10. w \in Seq(Text)
  <2>1. SubSeq(ls, e + 1, j) \in Seq(Text)
    BY <1>2, TextPiece
  <2> QED
    BY <1>3, <1>4, <2>1, TextJoined
<1>11. w = d \o SubSeq(ls, e + 1, j) \o new
  OBVIOUS
<1> HIDE DEF w
<1>12. SpellsNext(ls, hs, k, p, u, j, w)
  BY <1>11 DEF d, e, new, SpellsNext
<1>13. Splice(ls, d, e, j, new, s, i, w)
  BY <1>5, <1>9, <1>11 DEF Splice
<1>14. Spliced(ls, j, old, new, s, i, w)
  BY <1>2, <1>3, <1>4, <1>8, <1>13, PlacedText
<1> DEFINE t == w \o SubSeq(ls, j + Len(old) + 1, Len(ls))
<1>15. Result(ls, hs, k + 1, t, Len(w))
  <2>1. j \in EndOf(p, hs, k)..Len(ls) /\ FirstFrom(ls, hs[k + 1].old, EndOf(p, hs, k), j)
    BY <1>8 DEF e, old
  <2>2. Result(ls, hs, k + 1, w \o SubSeq(ls, j + Len(hs[k + 1].old) + 1, Len(ls)), Len(w))
    BY <1>1, <1>10, <1>12, <2>1, ResultLonger
  <2> QED
    BY <2>2 DEF old
<1> HIDE DEF t
<1>16. SubSeq(s, 1, i) \o new \o Rest(s, i, old) = t /\ i + Len(new) = Len(w)
  BY <1>14 DEF Spliced, t
<1> QED
  BY <1>15, <1>16 DEF old, new

\* If the search from there finds nothing, the hunks do not fit in their order.
LEMMA NotAhead ==
  ASSUME NEW ls \in Seq(Text), NEW hs \in Seq(Hunks), NEW k \in Nat, k < Len(hs),
         NEW s, NEW c, Result(ls, hs, k, s, c), Places(s, hs[k + 1].old, c) = {}
  PROVE  NoneFit(ls, hs, k + 1)
<1> SUFFICES ASSUME NEW q, Fit(ls, hs, k + 1, q)
             PROVE  FALSE
  BY DEF NoneFit
<1> DEFINE old == hs[k + 1].old
<1>1. PICK p, u : /\ Fit(ls, hs, k, p) /\ Foremost(ls, hs, k, p) /\ Spells(ls, hs, k, p, u)
                  /\ s = u[k] \o SubSeq(ls, EndOf(p, hs, k) + 1, Len(ls)) /\ c = Len(u[k])
  BY DEF Result
<1> DEFINE e == EndOf(p, hs, k)
           j == IF old = <<>> THEN e ELSE q[k + 1]
<1>2. e \in 0..Len(ls)
  BY <1>1, EndInside, k \in 0..Len(hs), k \in 0..k
<1>3. u[k] \in Seq(Text) /\ c \in Nat
  BY <1>1 DEF Spells
<1>4. old \in Seq(Text)
  <2>1. hs[k + 1] \in Hunks
    BY ElementOfSeq, k + 1 \in 1..Len(hs)
  <2> QED
    BY <2>1 DEF Hunks
<1>5. j \in Places(ls, old, e)
  <2>1. CASE old = <<>>
    <3>1. SubSeq(ls, e + 1, e + Len(old)) = <<>>
      BY <1>2, <2>1, SubSeqEmpty
    <3> QED
      BY <1>2, <2>1, <3>1 DEF Places
  <2>2. CASE old # <<>>
    BY <1>1, <2>2, FoundFromForemost
  <2> QED
    BY <2>1, <2>2
<1>6. j \in Nat /\ e <= j
  BY <1>2, <1>5 DEF Places
<1> HIDE DEF e, j
<1>7. c + (j - e) \in Nat /\ c <= c + (j - e) /\ e + ((c + (j - e)) - c) = j
  BY <1>2, <1>3, <1>6
<1>8. c + (j - e) \in Places(s, old, c)
  <2> DEFINE x == c + (j - e)
             d == u[k]
  <2>1. s = d \o SubSeq(ls, e + 1, Len(ls)) /\ c = Len(d) /\ d \in Seq(Text)
    BY <1>1, <1>3 DEF e
  <2>2. x \in Nat /\ Len(d) <= x /\ e + (x - Len(d)) = j
    BY <1>7, <2>1
  <2> HIDE DEF x, d, old
  <2>3. x \in Places(s, old, c) <=> e + (x - Len(d)) \in Places(ls, old, e)
    BY <1>2, <1>4, <2>1, <2>2, SearchShifted
  <2> QED
    BY <1>5, <2>2, <2>3 DEF x
<1> QED
  BY <1>8
-----------------------------------------------------------------------------
(***************************************************************************)
(* What the definitions of the reference, recursive ones, come to.         *)
(***************************************************************************)
\* The placements of the reference are those of all hunks.
LEMMA PlacementsAreFits ==
  ASSUME NEW ls \in Seq(Text), NEW hs \in Seq(Hunks), NEW p
  PROVE  p \in Placements(ls, hs) <=> Fit(ls, hs, Len(hs), p)
<1>1. DOMAIN hs = 1..Len(hs)
  OBVIOUS
<1> QED
  BY <1>1 DEF Placements, Fit

\* Patched is what the hunks spell and the lines behind the last one: two functions
\* that begin alike and go on alike are the same.
LEMMA PatchedIs ==
  ASSUME NEW ls, NEW hs, NEW k \in Nat, k = Len(hs), NEW p, NEW u, Spells(ls, hs, k, p, u)
  PROVE  Patched(ls, hs, p) = u[k] \o SubSeq(ls, EndOf(p, hs, k) + 1, Len(ls))
<1> DEFINE Rec(f) == f = [i \in 0..Len(hs) |->
                            IF i = 0 THEN <<>>
                            ELSE f[i - 1] \o SubSeq(ls, EndOf(p, hs, i - 1) + 1, p[i]) \o hs[i].new]
           g == CHOOSE f : Rec(f)
<1>1. Rec(u)
  <2> DEFINE Step(i) == IF i = 0 THEN <<>>
                        ELSE u[i - 1] \o SubSeq(ls, EndOf(p, hs, i - 1) + 1, p[i]) \o hs[i].new
             v == [i \in 0..k |-> Step(i)]
  <2>1. u \in [0..k -> Seq(Text)]
    BY DEF Spells
  <2>2. ASSUME NEW i \in 0..k PROVE u[i] = Step(i)
    <3>1. CASE i = 0
      BY <3>1 DEF Spells
    <3>2. CASE i # 0
      <4>1. i \in 1..k
        BY <3>2
      <4> QED
        BY <3>2, <4>1 DEF Spells
    <3> QED
      BY <3>1, <3>2
  <2> HIDE DEF Step
  <2>3. u = v
    BY <2>1, <2>2
  <2> QED
    BY <2>3 DEF Step
<1>2. Rec(g)
  BY <1>1
<1> HIDE DEF g
<1>3. /\ g[0] = <<>>
      /\ \A i \in 1..k :
           g[i] = g[i - 1] \o SubSeq(ls, EndOf(p, hs, i - 1) + 1, p[i]) \o hs[i].new
  <2> DEFINE Step(i) == IF i = 0 THEN <<>>
                        ELSE g[i - 1] \o SubSeq(ls, EndOf(p, hs, i - 1) + 1, p[i]) \o hs[i].new
  <2>1. g = [i \in 0..Len(hs) |-> Step(i)]
    BY <1>2
  <2>2. 0 \in 0..Len(hs) /\ \A i \in 1..k : i \in 0..Len(hs) /\ i # 0
    OBVIOUS
  <2> HIDE DEF Step
  <2>3. g[0] = Step(0) /\ \A i \in 1..k : g[i] = Step(i)
    BY <2>1, <2>2
  <2> QED
    BY <2>2, <2>3 DEF Step
<1>4. ASSUME NEW i \in 0..k PROVE g[i] = u[i]
  <2> DEFINE D == {n \in 0..k : g[n] # u[n]}
  <2>1. SUFFICES ASSUME D # {} PROVE FALSE
    OBVIOUS
  <2>2. PICK n \in D : \A m \in D : n <= m
    <3>1. D \in SUBSET Nat
      OBVIOUS
    <3> HIDE DEF D
    <3> QED
      BY <2>1, <3>1, LeastNumber
  <2>3. n \in 0..k /\ g[n] # u[n]
    OBVIOUS
  <2>4. n # 0
    BY <1>3, <2>3 DEF Spells
  <2>5. n \in 1..k /\ n - 1 \in 0..k /\ ~(n <= n - 1)
    BY <2>3, <2>4
  <2>6. g[n - 1] = u[n - 1]
    BY <2>2, <2>5
  <2> HIDE DEF D
  <2>7. g[n] = u[n]
    BY <1>3, <2>5, <2>6 DEF Spells
  <2> QED
    BY <2>3, <2>7
<1>5. g[Len(hs)] = u[k]
  BY <1>4
<1>6. Patched(ls, hs, p) = g[Len(hs)] \o SubSeq(ls, EndOf(p, hs, Len(hs)) + 1, Len(ls))
  BY DEF Patched, g
<1> QED
  BY <1>5, <1>6

\* All the hunks placed ahead: the result is that of the earliest places.
LEMMA ResultIsPatched ==
  ASSUME NEW ls \in Seq(Text), NEW hs \in Seq(Hunks), NEW s, NEW c,
         Result(ls, hs, Len(hs), s, c)
  PROVE  \E p \in Earliest(Placements(ls, hs)) : s = Patched(ls, hs, p)
<1> DEFINE k == Len(hs)
<1>1. PICK p, u : /\ Fit(ls, hs, k, p) /\ Foremost(ls, hs, k, p) /\ Spells(ls, hs, k, p, u)
                  /\ s = u[k] \o SubSeq(ls, EndOf(p, hs, k) + 1, Len(ls)) /\ c = Len(u[k])
  BY DEF Result
<1>2. p \in Earliest(Placements(ls, hs))
  <2>1. DOMAIN p = 1..k
    BY <1>1 DEF Fit
  <2>2. p \in Placements(ls, hs)
    BY <1>1, PlacementsAreFits
  <2>3. ASSUME NEW q \in Placements(ls, hs), NEW i \in DOMAIN p PROVE p[i] <= q[i]
    <3>1. Fit(ls, hs, k, q)
      BY PlacementsAreFits
    <3> QED
      BY <1>1, <2>1, <3>1 DEF Foremost
  <2> QED
    BY <2>2, <2>3 DEF Earliest
<1>3. s = Patched(ls, hs, p)
  <2>1. k \in Nat
    OBVIOUS
  <2>2. Patched(ls, hs, p) = u[k] \o SubSeq(ls, EndOf(p, hs, k) + 1, Len(ls))
    BY <1>1, <2>1, PatchedIs
  <2> QED
    BY <1>1, <2>2
<1> QED
  BY <1>2, <1>3

\* u joins the first k of the texts, one after the other.
Joins(texts, k, u) ==
  /\ u \in [0..k -> Seq(Text)] /\ u[0] = <<>>
  /\ \A i \in 1..k : u[i] = u[i - 1] \o texts[i]

\* FlattenSeq is the last of the joined texts.
LEMMA FlattenIs ==
  ASSUME NEW texts \in Seq(Seq(Text)), NEW u, Joins(texts, Len(texts), u)
  PROVE  FlattenSeq(texts) = u[Len(texts)]
<1> DEFINE n == Len(texts)
           Rec(f) == f = [i \in 1..n |-> IF i = 1 THEN texts[i] ELSE f[i - 1] \o texts[i]]
           g == CHOOSE f : Rec(f)
<1>0. n \in Nat /\ \A i \in 1..n : texts[i] \in Seq(Text)
  BY ElementOfSeq
<1>1. CASE n = 0
  <2>1. texts = <<>>
    BY <1>1, EmptySeq
  <2>2. FlattenSeq(texts) = texts
    BY <1>1 DEF FlattenSeq
  <2> QED
    BY <1>1, <2>1, <2>2 DEF Joins
<1>2. CASE n # 0
  <2> DEFINE v == [i \in 1..n |-> u[i]]
  <2>1. ASSUME NEW i \in 1..n
        PROVE  v[i] = IF i = 1 THEN texts[i] ELSE v[i - 1] \o texts[i]
    <3>1. u[i] = u[i - 1] \o texts[i]
      BY DEF Joins
    <3>2. CASE i = 1
      <4>1. u[i - 1] = <<>>
        BY <3>2 DEF Joins
      <4>2. <<>> \o texts[i] = texts[i]
        BY <1>0, ConcatEmptySeq
      <4> QED
        BY <3>1, <3>2, <4>1, <4>2
    <3>3. CASE i # 1
      <4>1. i - 1 \in 1..n
        BY <3>3
      <4> QED
        BY <3>1, <3>3, <4>1
    <3> QED
      BY <3>2, <3>3
  <2> HIDE DEF v
  <2>2. Rec(v)
    <3>1. v = [i \in 1..n |-> v[i]]
      BY DEF v
    <3> QED
      BY <2>1, <3>1
  <2>3. Rec(g)
    BY <2>2
  <2> HIDE DEF g
  <2>4. \A i \in 1..n : g[i] = IF i = 1 THEN texts[i] ELSE g[i - 1] \o texts[i]
    BY <2>3
  <2>5. ASSUME NEW i \in 1..n PROVE g[i] = v[i]
    <3> DEFINE D == {x \in 1..n : g[x] # v[x]}
    <3>1. SUFFICES ASSUME D # {} PROVE FALSE
      OBVIOUS
    <3>2. PICK x \in D : \A m \in D : x <= m
      <4>1. D \in SUBSET Nat
        OBVIOUS
      <4> HIDE DEF D
      <4> QED
        BY <3>1, <4>1, LeastNumber
    <3>3. x \in 1..n /\ g[x] # v[x]
      OBVIOUS
    <3>4. CASE x = 1
      BY <2>1, <2>4, <3>3, <3>4
    <3>5. CASE x # 1
      <4>1. x - 1 \in 1..n /\ ~(x <= x - 1)
        BY <3>3, <3>5
      <4>2. g[x - 1] = v[x - 1]
        BY <3>2, <4>1
      <4> HIDE DEF D
      <4> QED
        BY <2>1, <2>4, <3>3, <3>5, <4>2
    <3> QED
      BY <3>4, <3>5
  <2>6. FlattenSeq(texts) = g[n]
    BY <1>2 DEF FlattenSeq, g
  <2>7. n \in 1..n
    BY <1>0, <1>2
  <2> QED
    BY <2>5, <2>6, <2>7 DEF v
<1> QED
  BY <1>1, <1>2

\* How often a line occurs in two texts, one after the other.
LEMMA TimesJoined ==
  ASSUME NEW a \in Seq(Text), NEW b \in Seq(Text), NEW t
  PROVE  /\ Times(t, a \o b) = Times(t, a) + Times(t, b)
         /\ Times(t, a) \in Nat /\ Times(t, b) \in Nat
<1> DEFINE m == Len(a)
           n == Len(b)
           A == {i \in DOMAIN a : a[i] = t}
           B == {i \in DOMAIN b : b[i] = t}
           B2 == {i \in (m + 1)..(m + n) : b[i - m] = t}
           C == {i \in DOMAIN (a \o b) : (a \o b)[i] = t}
<1>1. m \in Nat /\ n \in Nat /\ DOMAIN a = 1..m /\ DOMAIN b = 1..n
  OBVIOUS
<1>2. /\ DOMAIN (a \o b) = 1..(m + n)
      /\ \A i \in 1..(m + n) : (a \o b)[i] = IF i <= m THEN a[i] ELSE b[i - m]
  BY ConcatProperties
<1>3. IsFiniteSet(A) /\ IsFiniteSet(B) /\ IsFiniteSet(B2)
  <2>1. IsFiniteSet(1..m) /\ IsFiniteSet(1..n) /\ IsFiniteSet((m + 1)..(m + n))
    BY <1>1, FS_Interval, 1 \in Int, m \in Int, n \in Int, m + 1 \in Int, m + n \in Int
  <2>2. A \subseteq 1..m /\ B \subseteq 1..n /\ B2 \subseteq (m + 1)..(m + n)
    BY <1>1
  <2> QED
    BY <2>1, <2>2, FS_Subset
<1>4. Cardinality(B2) = Cardinality(B)
  <2> DEFINE f == [i \in B |-> i + m]
  <2>1. f \in [B -> B2]
    BY <1>1
  <2>2. \A x, y \in B : f[x] = f[y] => x = y
    BY <1>1
  <2>3. ASSUME NEW y \in B2 PROVE \E x \in B : f[x] = y
    <3>1. y - m \in B /\ (y - m) + m = y
      BY <1>1
    <3> QED
      BY <3>1
  <2> HIDE DEF f
  <2>4. f \in Bijection(B, B2)
    BY <2>1, <2>2, <2>3 DEF Bijection, Injection, Surjection, IsInjective
  <2>5. ExistsBijection(B, B2)
    BY <2>4 DEF ExistsBijection
  <2> QED
    BY <1>3, <2>5, FS_Bijection
<1>5. C = A \cup B2 /\ A \cap B2 = {}
  <2>1. ASSUME NEW i PROVE i \in C <=> i \in A \/ i \in B2
    <3>1. CASE i \in 1..m
      <4>1. i \in 1..(m + n) /\ i <= m /\ ~(i \in (m + 1)..(m + n))
        BY <1>1, <3>1
      <4> QED
        BY <1>1, <1>2, <3>1, <4>1
    <3>2. CASE i \in (m + 1)..(m + n)
      <4>1. i \in 1..(m + n) /\ ~(i <= m) /\ ~(i \in 1..m)
        BY <1>1, <3>2
      <4> QED
        BY <1>1, <1>2, <3>2, <4>1
    <3>3. CASE i \notin 1..m /\ i \notin (m + 1)..(m + n)
      <4>1. i \notin 1..(m + n)
        BY <1>1, <3>3
      <4> QED
        BY <1>1, <1>2, <3>3, <4>1
    <3> QED
      BY <3>1, <3>2, <3>3
  <2>2. A \cap B2 = {}
    BY <1>1
  <2> HIDE DEF A, B2, C
  <2> QED
    BY <2>1, <2>2
<1>6. Cardinality(C) = Cardinality(A) + Cardinality(B2)
  <2> HIDE DEF A, B2, C
  <2>1. Cardinality(A \cup B2) = Cardinality(A) + Cardinality(B2) - Cardinality(A \cap B2)
    BY <1>3, FS_Union
  <2>2. Cardinality(A) \in Nat /\ Cardinality(B2) \in Nat
    BY <1>3, FS_CardinalityType
  <2>3. Cardinality(A \cap B2) = 0
    BY <1>5, FS_EmptySet
  <2> QED
    BY <1>5, <2>1, <2>2, <2>3
<1>7. Cardinality(A) \in Nat /\ Cardinality(B) \in Nat
  BY <1>3, FS_CardinalityType
<1> QED
  BY <1>4, <1>6, <1>7 DEF Times
-----------------------------------------------------------------------------
(***************************************************************************)
(* What k hunks have taken out of the lines, and put in.                   *)
(***************************************************************************)
Olds(hs) == [i \in DOMAIN hs |-> hs[i].old]
News(hs) == [i \in DOMAIN hs |-> hs[i].new]

Balanced(ls, hs, k, s) ==
  \E a, b : /\ Joins(Olds(hs), k, a) /\ Joins(News(hs), k, b)
            /\ \A t \in Text : Times(t, s) + Times(t, a[k]) = Times(t, ls) + Times(t, b[k])

\* The old and the new lines of the hunks are texts.
LEMMA TextsOfHunks ==
  ASSUME NEW hs \in Seq(Hunks)
  PROVE  /\ Olds(hs) \in Seq(Seq(Text)) /\ News(hs) \in Seq(Seq(Text))
         /\ Len(Olds(hs)) = Len(hs) /\ Len(News(hs)) = Len(hs)
         /\ \A i \in 1..Len(hs) : /\ hs[i].old \in Seq(Text) /\ hs[i].new \in Seq(Text)
                                  /\ Olds(hs)[i] = hs[i].old /\ News(hs)[i] = hs[i].new
<1>1. Len(hs) \in Nat /\ DOMAIN hs = 1..Len(hs)
  OBVIOUS
<1>2. ASSUME NEW i \in 1..Len(hs) PROVE hs[i].old \in Seq(Text) /\ hs[i].new \in Seq(Text)
  <2>1. hs[i] \in Hunks
    BY ElementOfSeq
  <2> QED
    BY <2>1 DEF Hunks
<1>3. Olds(hs) \in [1..Len(hs) -> Seq(Text)] /\ News(hs) \in [1..Len(hs) -> Seq(Text)]
  BY <1>1, <1>2 DEF Olds, News
<1>4. \A f \in [1..Len(hs) -> Seq(Text)] : f \in Seq(Seq(Text)) /\ Len(f) = Len(hs)
  BY <1>1
<1>5. \A i \in 1..Len(hs) : Olds(hs)[i] = hs[i].old /\ News(hs)[i] = hs[i].new
  BY <1>1 DEF Olds, News
<1> QED
  BY <1>2, <1>3, <1>4, <1>5

\* One text more, joined to the others.
LEMMA JoinsLonger ==
  ASSUME NEW texts, NEW k \in Nat, NEW u, Joins(texts, k, u), texts[k + 1] \in Seq(Text)
  PROVE  \E v : Joins(texts, k + 1, v) /\ v[k + 1] = u[k] \o texts[k + 1]
                /\ u[k] \in Seq(Text)
<1> DEFINE w == u[k] \o texts[k + 1]
           v == Longer(u, k, w)
<1>1. u \in [0..k -> Seq(Text)] /\ u[k] \in Seq(Text)
  BY k \in 0..k DEF Joins
<1>2. w \in Seq(Text)
  BY <1>1, TextJoined
<1>3. w = u[k] \o texts[k + 1]
  OBVIOUS
<1> HIDE DEF w
<1>4. /\ v \in [0..(k + 1) -> Seq(Text)] /\ v[k + 1] = w
      /\ \A i \in 0..k : v[i] = u[i]
  BY <1>1, <1>2, LongerType
<1> HIDE DEF v
<1>5. ASSUME NEW i \in 1..(k + 1) PROVE v[i] = v[i - 1] \o texts[i]
  <2>1. v[i - 1] = u[i - 1]
    BY <1>4, i - 1 \in 0..k
  <2>2. CASE i = k + 1
    BY <1>3, <1>4, <2>1, <2>2, i - 1 = k
  <2>3. CASE i # k + 1
    <3>1. i \in 1..k /\ i \in 0..k
      BY <2>3
    <3> QED
      BY <1>4, <2>1, <3>1 DEF Joins
  <2> QED
    BY <2>2, <2>3
<1>6. v[0] = <<>>
  BY <1>4, 0 \in 0..k DEF Joins
<1>7. Joins(texts, k + 1, v)
  BY <1>4, <1>5, <1>6 DEF Joins
<1> QED
  BY <1>1, <1>3, <1>4, <1>7

\* The lines before a place, at it, and behind it.
LEMMA CutInThree ==
  ASSUME NEW s \in Seq(Text), NEW old \in Seq(Text), NEW c \in Nat, NEW i \in Places(s, old, c)
  PROVE  /\ SubSeq(s, 1, i) \in Seq(Text) /\ Rest(s, i, old) \in Seq(Text)
         /\ s = SubSeq(s, 1, i) \o old \o Rest(s, i, old)
         /\ i \in Nat /\ i + Len(old) <= Len(s)
<1> DEFINE m == i + Len(old)
<1>1. i \in Nat /\ Len(old) \in Nat /\ m \in Nat /\ m <= Len(s) /\ SubSeq(s, i + 1, m) = old
  BY DEF Places
<1>2. SubSeq(s, 1, i) \in Seq(Text) /\ SubSeq(s, m + 1, Len(s)) \in Seq(Text)
  <2>1. i <= Len(s) /\ 0 + 1 = 1 /\ 0 \in Nat
    BY <1>1
  <2> HIDE DEF m
  <2>2. SubSeq(s, 0 + 1, i) \in Seq(Text)
    BY <1>1, <2>1, TextPiece
  <2>3. SubSeq(s, m + 1, Len(s)) \in Seq(Text)
    BY <1>1, TextPiece
  <2> QED
    BY <2>1, <2>2, <2>3
<1>3. SubSeq(s, 1, i) \o SubSeq(s, i + 1, m) = SubSeq(s, 1, m)
  <2>1. 1 \in 1..(Len(s) + 1) /\ i \in (1 - 1)..Len(s) /\ m \in i..Len(s)
    BY <1>1
  <2> HIDE DEF m
  <2> QED
    BY <2>1, ConcatAdjacentSubSeq
<1>4. SubSeq(s, 1, m) \o SubSeq(s, m + 1, Len(s)) = SubSeq(s, 1, Len(s))
  <2>1. 1 \in 1..(Len(s) + 1) /\ m \in (1 - 1)..Len(s) /\ Len(s) \in m..Len(s)
    BY <1>1
  <2> HIDE DEF m
  <2> QED
    BY <2>1, ConcatAdjacentSubSeq
<1>5. SubSeq(s, 1, Len(s)) = s
  BY SubSeqFull
<1>6. Rest(s, i, old) = SubSeq(s, m + 1, Len(s))
  BY DEF Rest
<1> QED
  BY <1>1, <1>2, <1>3, <1>4, <1>5, <1>6

\* The next hunk fits where it goes.
LEMMA PlaceFound ==
  ASSUME NEW s \in Seq(Text), NEW old \in Seq(Text), NEW c \in Nat, Places(s, old, c) # {}
  PROVE  PlaceOf(s, old, c) \in Places(s, old, c)
<1>1. Places(s, old, c) \in SUBSET Nat
  BY DEF Places
<1>2. CASE old = <<>>
  <2>1. c \in c..Len(s) /\ c + Len(old) <= Len(s) /\ Len(old) = 0
    BY <1>2 DEF Places
  <2>2. SubSeq(s, c + 1, c + Len(old)) = old
    BY <1>2, <2>1, SubSeqEmpty, c + Len(old) < c + 1
  <2> QED
    BY <1>2, <2>1, <2>2 DEF Places, PlaceOf
<1>3. CASE old # <<>>
  BY <1>1, <1>3, FirstIsLeast DEF PlaceOf
<1> QED
  BY <1>2, <1>3

\* Wherever the next hunk is placed, no line but its own is lost or doubled.
LEMMA BalancedNext ==
  ASSUME NEW ls \in Seq(Text), NEW hs \in Seq(Hunks), NEW k \in Nat, k < Len(hs),
         NEW s \in Seq(Text), Balanced(ls, hs, k, s), NEW c \in Nat,
         NEW i \in Places(s, hs[k + 1].old, c)
  PROVE  Balanced(ls, hs, k + 1, SubSeq(s, 1, i) \o hs[k + 1].new \o Rest(s, i, hs[k + 1].old))
<1> DEFINE old == hs[k + 1].old
           new == hs[k + 1].new
           x == SubSeq(s, 1, i)
           y == Rest(s, i, old)
<1>1. k + 1 \in 1..Len(hs)
  OBVIOUS
<1>2. /\ old \in Seq(Text) /\ new \in Seq(Text)
      /\ Olds(hs)[k + 1] = old /\ News(hs)[k + 1] = new
  BY <1>1, TextsOfHunks
<1>3. x \in Seq(Text) /\ y \in Seq(Text) /\ s = x \o old \o y
  BY <1>2, CutInThree
<1>4. PICK a, b : /\ Joins(Olds(hs), k, a) /\ Joins(News(hs), k, b)
                  /\ \A t \in Text : Times(t, s) + Times(t, a[k]) = Times(t, ls) + Times(t, b[k])
  BY DEF Balanced
<1>5. PICK a2 : /\ Joins(Olds(hs), k + 1, a2) /\ a2[k + 1] = a[k] \o old
                /\ a[k] \in Seq(Text)
  BY <1>2, <1>4, JoinsLonger
<1>6. PICK b2 : /\ Joins(News(hs), k + 1, b2) /\ b2[k + 1] = b[k] \o new
                /\ b[k] \in Seq(Text)
  BY <1>2, <1>4, JoinsLonger
<1> DEFINE ak == a[k]
           bk == b[k]
           an == a2[k + 1]
           bn == b2[k + 1]
<1> HIDE DEF old, new, x, y
<1>7. ak \in Seq(Text) /\ bk \in Seq(Text) /\ an = ak \o old /\ bn = bk \o new
  BY <1>5, <1>6
<1> HIDE DEF ak, bk, an, bn
<1> DEFINE xo == x \o old
           xn == x \o new
           r == xn \o y
<1>8. xo \in Seq(Text) /\ xn \in Seq(Text) /\ s = xo \o y
  BY <1>2, <1>3, TextJoined
<1>9. r = xn \o y
  OBVIOUS
<1>10. xo = x \o old /\ xn = x \o new
  OBVIOUS
<1> HIDE DEF xo, xn, r
<1>11. ASSUME NEW t \in Text
       PROVE  Times(t, r) + Times(t, an) = Times(t, ls) + Times(t, bn)
  <2> DEFINE N(q) == Times(t, q)
  <2>1. \A q, z \in Seq(Text) : N(q \o z) = N(q) + N(z) /\ N(q) \in Nat
    BY TimesJoined
  <2>2. N(s) + N(ak) = N(ls) + N(bk)
    BY <1>4 DEF ak, bk
  <2> HIDE DEF N
  <2>3. N(s) = N(xo) + N(y) /\ N(r) = N(xn) + N(y)
    BY <1>3, <1>8, <1>9, <2>1
  <2>4. N(xo) = N(x) + N(old) /\ N(xn) = N(x) + N(new)
    BY <1>2, <1>3, <1>10, <2>1
  <2>5. N(an) = N(ak) + N(old) /\ N(bn) = N(bk) + N(new)
    BY <1>2, <1>7, <2>1
  <2>6. /\ N(x) \in Nat /\ N(y) \in Nat /\ N(old) \in Nat /\ N(new) \in Nat
        /\ N(ak) \in Nat /\ N(bk) \in Nat /\ N(ls) \in Nat
    BY <1>2, <1>3, <1>7, <2>1
  <2>7. N(r) + N(an) = N(ls) + N(bn)
    <3>1. N(s) = (N(x) + N(old)) + N(y) /\ N(r) = (N(x) + N(new)) + N(y)
      BY <2>3, <2>4
    <3>2. ((N(x) + N(old)) + N(y)) + N(ak) = N(ls) + N(bk)
      BY <2>2, <3>1
    <3>3. ((N(x) + N(new)) + N(y)) + (N(ak) + N(old)) = N(ls) + (N(bk) + N(new))
      BY <2>6, <3>2, SMTT(60)
    <3> QED
      BY <2>5, <3>1, <3>3
  <2> QED
    BY <2>7 DEF N
<1>12. Balanced(ls, hs, k + 1, r)
  BY <1>5, <1>6, <1>11 DEF Balanced, an, bn
<1> QED
  BY <1>12 DEF r, xn, old, new, x, y

\* Without a hunk, nothing is taken out or put in.
LEMMA BalancedFirst ==
  ASSUME NEW ls \in Seq(Text), NEW hs \in Seq(Hunks)
  PROVE  Balanced(ls, hs, 0, ls)
<1> DEFINE u == [i \in 0..0 |-> <<>>]
<1>1. <<>> \in Seq(Text)
  BY EmptySeq
<1>2. \A texts : Joins(texts, 0, u)
  <2>1. u \in [0..0 -> Seq(Text)] /\ u[0] = <<>>
    BY <1>1
  <2> QED
    BY <2>1 DEF Joins
<1> QED
  BY <1>2 DEF Balanced

\* Nothing placed yet.
LEMMA ResultFirst ==
  ASSUME NEW ls \in Seq(Text), NEW hs \in Seq(Hunks)
  PROVE  Result(ls, hs, 0, ls, 0)
<1> DEFINE p == [i \in 1..0 |-> 0]
           u == [i \in 0..0 |-> <<>>]
<1>1. <<>> \in Seq(Text) /\ Len(<<>>) = 0
  BY EmptySeq
<1>2. u \in [0..0 -> Seq(Text)] /\ u[0] = <<>>
  BY <1>1
<1>3. Fit(ls, hs, 0, p) /\ Foremost(ls, hs, 0, p) /\ Spells(ls, hs, 0, p, u)
  BY <1>2 DEF Fit, Foremost, Spells
<1>4. EndOf(p, hs, 0) + 1 = 1
  BY DEF EndOf
<1>5. ls = u[0] \o SubSeq(ls, EndOf(p, hs, 0) + 1, Len(ls)) /\ 0 = Len(u[0])
  <2>1. SubSeq(ls, 1, Len(ls)) = ls /\ <<>> \o ls = ls
    BY SubSeqFull, ConcatEmptySeq
  <2> QED
    BY <1>1, <1>2, <1>4, <2>1
<1> HIDE DEF p, u
<1> QED
  BY <1>3, <1>5 DEF Result
-----------------------------------------------------------------------------
(***************************************************************************)
(* The types of the variables, for patches and files of any size.          *)
(***************************************************************************)
Line == [text: Text, eol: Eol]
Contents == Seq(Line) \cup {Absent}

UpdateOp == [kind: {"update"}, hunks: Seq(Hunks)]
AddOp == [kind: {"add"}, lines: Seq(Text)]
DeleteOp == [kind: {"delete"}]
Operations == UpdateOp \cup AddOp \cup DeleteOp

TextTypes ==
  /\ before \in Contents /\ current \in Contents
  /\ patch \in Seq(Operations)
  /\ pc \in {"parse", "invalid", "next", "place", "mismatch", "done"}
  /\ lines \in Seq(Text) /\ trailing \in BOOLEAN /\ cursor \in Nat
  /\ hunks \in Seq(Hunks) /\ source \in [lines: Seq(Text), hunks: Seq(Hunks)]
  /\ fellBack \in BOOLEAN

\* The hunks that are left are the last ones of the update.  If none was placed
\* behind, the lines are the result of the earliest places for the others; if one
\* was, there are no places for them in their order.
Left(hs, h, k) == k + Len(h) = Len(hs) /\ \A i \in 1..Len(h) : h[i] = hs[k + i]

Placing ==
  /\ pc = "place" =>
       \E k \in Nat :
         /\ Left(source.hunks, hunks, k)
         /\ IF fellBack THEN NoneFit(source.lines, source.hunks, k)
            ELSE Result(source.lines, source.hunks, k, lines, cursor)
         /\ Balanced(source.lines, source.hunks, k, lines)
  /\ pc = "mismatch" /\ hunks # <<>> =>
       NoneFit(source.lines, source.hunks, Len(source.hunks))
  /\ pc \notin {"place", "mismatch"} => hunks = <<>>

\* A file of one kind of newline stays so, and does not become empty: only then
\* do the kind of its newlines and the newline at its end determine each other.
AllEol(f, e) == \A i \in DOMAIN f : f[i].eol = e

EolKept ==
  /\ pc = "place" => current # Absent /\ trailing = EndsWithNewline(current)
  /\ before # Absent /\ pc \notin {"parse", "invalid"} =>
       \A i \in DOMAIN patch : patch[i].kind # "add"
  /\ before # Absent /\ current # Absent =>
       \A e \in {"lf", "crlf"} :
         before # <<>> /\ AllEol(before, e) => current # <<>> /\ AllEol(current, e)

IInv == TextTypes /\ Placing /\ EolKept

-----------------------------------------------------------------------------
\* The bounded sets of the model are among the unbounded types.
LEMMA ListsAreTexts ==
  ASSUME NEW n \in Nat
  PROVE  Texts(n) \subseteq Seq(Text)
<1> SUFFICES ASSUME NEW x \in Texts(n) PROVE x \in Seq(Text)
  OBVIOUS
<1>1. PICK k \in 0..n : x \in [1..k -> Text]
  BY DEF Texts
<1> QED
  BY <1>1, SeqDef, k \in Nat

LEMMA ListsOfHunks ==
  ASSUME NEW n \in Nat, NEW o \in Updates(n)
  PROVE  o \in UpdateOp
<1>1. PICK h \in UNION {[1..k -> Hunk] : k \in 1..n} : o = [kind |-> "update", hunks |-> h]
  BY DEF Updates
<1>2. PICK k \in 1..n : h \in [1..k -> Hunk]
  BY <1>1
<1>3. Texts(HunkLines) \subseteq Seq(Text)
  BY ListsAreTexts, PatchAssumption
<1>4. Hunk \subseteq Hunks
  BY <1>3 DEF Hunk, Hunks
<1>5. h \in [1..k -> Hunks]
  BY <1>2, <1>4
<1>6. h \in Seq(Hunks)
  BY <1>5, SeqDef, k \in Nat
<1> QED
  BY <1>1, <1>6 DEF UpdateOp

LEMMA FilesAreLines ==
  ASSUME NEW f \in File
  PROVE  f \in Seq(Line)
<1>1. f \in UNION {[1..k -> [text: Text, eol: Eol]] : k \in 0..MaxLines}
  BY DEF File
<1>2. PICK k \in 0..MaxLines : f \in [1..k -> Line]
  BY <1>1 DEF Line
<1>3. k \in Nat
  BY PatchAssumption
<1> QED
  BY <1>2, <1>3, SeqDef

LEMMA PatchIsOperations ==
  ASSUME NEW x \in Patch
  PROVE  x \in Seq(Operations)
<1>1. ASSUME NEW n \in Nat, NEW o \in Updates(n) PROVE o \in Operations
  BY <1>1, ListsOfHunks DEF Operations
<1>2. Adds \cup Deletes \subseteq Operations
  <2>1. Texts(1) \subseteq Seq(Text)
    BY ListsAreTexts
  <2> QED
    BY <2>1 DEF Adds, Deletes, Operations, AddOp, DeleteOp
<1>3. MaxHunks \in Nat /\ 1 \in Nat
  BY PatchAssumption
<1>4. Plain \subseteq Operations
  BY <1>1, <1>2, <1>3 DEF Plain
<1>5. CASE \E o \in Operations : x = <<o>>
  BY <1>5
<1>6. CASE \E o, p \in Operations : x = <<o, p>>
  BY <1>6
<1>7. (\E o \in Operations : x = <<o>>) \/ (\E o, p \in Operations : x = <<o, p>>)
  <2>1. CASE x \in {<<o>> : o \in Updates(MaxHunks) \cup Adds \cup Deletes}
    BY <1>1, <1>2, <1>3, <2>1
  <2>2. CASE x \in {<<o, p>> : o \in Deletes \cup Adds, p \in Plain}
    BY <1>2, <1>4, <2>2
  <2>3. CASE x \in {<<o, p>> : o \in Updates(1), p \in Deletes}
    BY <1>1, <1>2, <1>3, <2>3
  <2> QED
    BY <2>1, <2>2, <2>3 DEF Patch
<1> QED
  BY <1>5, <1>6, <1>7

\* The lines put together again: what they are, and their newlines.
LEMMA JoinedLines ==
  ASSUME NEW ls \in Seq(Text), NEW newline \in BOOLEAN, NEW e \in Eol
  PROVE  /\ Joined(ls, newline, e) \in Seq(Line)
         /\ newline => Joined(ls, newline, e) # <<>> /\ AllEol(Joined(ls, newline, e), e)
<1> DEFINE n == Len(ls)
           all == [i \in 1..n |-> [text |-> ls[i],
                                   eol |-> IF i < n \/ newline THEN e ELSE "none"]]
<1>1. n \in Nat /\ \A i \in 1..n : ls[i] \in Text
  BY ElementOfSeq
<1>2. all \in Seq(Line) /\ Len(all) = n /\ DOMAIN all = 1..n
  <2>1. \A i \in 1..n : all[i] \in Line
    BY <1>1 DEF Line, Eol
  <2>2. all \in [1..n -> Line]
    BY <2>1
  <2> QED
    BY <1>1, <2>2
<1>3. newline => \A i \in 1..n : all[i].eol = e
  OBVIOUS
<1>4. CASE n = 0
  <2>1. Joined(ls, newline, e) = IF newline THEN <<[text |-> Blank, eol |-> e]>> ELSE <<>>
    BY <1>4 DEF Joined
  <2>2. [text |-> Blank, eol |-> e] \in Line
    BY DEF Line, Text
  <2> QED
    BY <2>1, <2>2 DEF AllEol
<1>5. CASE n # 0 /\ ls[n] = Blank /\ ~newline
  <2>1. Joined(ls, newline, e) = SubSeq(all, 1, n - 1)
    BY <1>5 DEF Joined
  <2> HIDE DEF all
  <2>2. SubSeq(all, 1, n - 1) \in Seq(Line)
    <3>1. n - 1 \in Nat /\ n - 1 <= Len(all) /\ 0 + 1 = 1 /\ 0 \in Nat
      BY <1>1, <1>2, <1>5
    <3> HIDE DEF n
    <3> QED
      BY <1>2, <3>1, Piece
  <2> QED
    BY <1>5, <2>1, <2>2
<1>6. CASE n # 0 /\ ~(ls[n] = Blank /\ ~newline)
  <2>1. Joined(ls, newline, e) = all
    BY <1>6 DEF Joined
  <2> HIDE DEF all
  <2>2. all # <<>>
    BY <1>2, <1>6
  <2> QED
    BY <1>2, <1>3, <2>1, <2>2 DEF AllEol
<1> QED
  BY <1>4, <1>5, <1>6

\* The lines of a file, without their newlines.
LEMMA LinesAreTexts ==
  ASSUME NEW f \in Seq(Line)
  PROVE  LinesOf(f) \in Seq(Text)
<1>1. Len(f) \in Nat /\ DOMAIN f = 1..Len(f) /\ \A i \in 1..Len(f) : f[i] \in Line
  BY ElementOfSeq
<1>2. LinesOf(f) \in [1..Len(f) -> Text]
  BY <1>1 DEF LinesOf, Line
<1> QED
  BY <1>1, <1>2

\* A file that is not empty and has one kind of newline ends with it.
LEMMA OneKind ==
  ASSUME NEW f \in Seq(Line), f # <<>>, NEW e \in {"lf", "crlf"}, AllEol(f, e)
  PROVE  EndsWithNewline(f) /\ (IF KeepsCrlf(f) THEN "crlf" ELSE "lf") = e
<1>1. Len(f) \in DOMAIN f
  BY EmptySeq
<1>2. f[Len(f)].eol = e
  BY <1>1 DEF AllEol
<1>3. KeepsCrlf(f) <=> e = "crlf"
  BY <1>1, <1>2 DEF KeepsCrlf, AnyCrlf, AllEol
<1> QED
  BY <1>2, <1>3 DEF EndsWithNewline
-----------------------------------------------------------------------------
(***************************************************************************)
(* The steps.                                                              *)
(***************************************************************************)
\* The types hold from the start, and in every step.
LEMMA InitTypes == Init => TextTypes
<1> SUFFICES ASSUME Init PROVE TextTypes
  OBVIOUS
<1>1. before \in Contents /\ current \in Contents
  BY FilesAreLines DEF Init, Contents
<1>2. patch \in Seq(Operations)
  BY PatchIsOperations DEF Init
<1>3. <<>> \in Seq(Text) /\ <<>> \in Seq(Hunks)
  BY EmptySeq
<1> QED
  BY <1>1, <1>2, <1>3 DEF Init, TextTypes

\* The first element of a sequence and the others.
LEMMA HeadAndTail ==
  ASSUME NEW S, NEW s \in Seq(S), s # <<>>
  PROVE  /\ Head(s) \in S /\ Tail(s) \in Seq(S) /\ Head(s) = s[1] /\ 1 \in 1..Len(s)
         /\ Len(Tail(s)) + 1 = Len(s) /\ \A i \in 1..Len(Tail(s)) : Tail(s)[i] = s[i + 1]
<1>1. Len(s) \in Nat \ {0}
  BY EmptySeq
<1>2. Head(s) = s[1]
  OBVIOUS
<1> QED
  BY <1>1, <1>2, HeadTailProperties

\* What one hunk does to the lines.
LEMMA PlaceAtTypes ==
  ASSUME TextTypes, pc = "place", hunks # <<>>, NEW c \in Nat,
         NEW i \in Places(lines, Head(hunks).old, c), PlaceAt(i)
  PROVE  /\ lines' \in Seq(Text) /\ cursor' \in Nat /\ hunks' \in Seq(Hunks)
         /\ Head(hunks) \in Hunks
<1> DEFINE h == Head(hunks)
<1>1. h \in Hunks /\ Tail(hunks) \in Seq(Hunks)
  BY HeadAndTail DEF TextTypes
<1>2. h.old \in Seq(Text) /\ h.new \in Seq(Text)
  BY <1>1 DEF Hunks
<1>3. /\ SubSeq(lines, 1, i) \in Seq(Text) /\ Rest(lines, i, h.old) \in Seq(Text)
      /\ i \in Nat
  BY <1>2, CutInThree DEF TextTypes
<1>4. /\ lines' = SubSeq(lines, 1, i) \o h.new \o Rest(lines, i, h.old)
      /\ cursor' = i + Len(h.new) /\ hunks' = Tail(hunks)
  BY DEF PlaceAt
<1> HIDE DEF h
<1>5. SubSeq(lines, 1, i) \o h.new \in Seq(Text)
  BY <1>2, <1>3, TextJoined
<1>6. lines' \in Seq(Text)
  BY <1>3, <1>4, <1>5, TextJoined
<1>7. cursor' \in Nat
  BY <1>2, <1>3, <1>4
<1> QED
  BY <1>1, <1>4, <1>6, <1>7 DEF h

\* PlaceHunk puts the hunk where its old lines are, at the cursor or behind it.
LEMMA PlaceHunkAt ==
  ASSUME TextTypes, PlaceHunk
  PROVE  /\ pc = "place" /\ hunks # <<>>
         /\ Places(lines, Head(hunks).old, cursor) # {}
         /\ PlaceAt(PlaceOf(lines, Head(hunks).old, cursor))
         /\ PlaceOf(lines, Head(hunks).old, cursor) \in Places(lines, Head(hunks).old, cursor)
         /\ UNCHANGED fellBack
<1>1. /\ pc = "place" /\ hunks # <<>> /\ UNCHANGED fellBack
      /\ Places(lines, Head(hunks).old, cursor) # {}
      /\ PlaceAt(PlaceOf(lines, Head(hunks).old, cursor))
  BY DEF PlaceHunk, PlaceOf
<1>2. Head(hunks).old \in Seq(Text)
  <2>1. Head(hunks) \in Hunks
    BY <1>1, HeadAndTail DEF TextTypes
  <2> QED
    BY <2>1 DEF Hunks
<1> QED
  BY <1>1, <1>2, PlaceFound DEF TextTypes

\* A hunk that is found only from the start of the file.
LEMMA PlaceBehindAt ==
  ASSUME TextTypes, PlaceBehind
  PROVE  /\ pc = "place" /\ hunks # <<>> /\ fellBack' = TRUE
         /\ Places(lines, Head(hunks).old, cursor) = {}
         /\ PlaceAt(FirstOf(Places(lines, Head(hunks).old, 0)))
         /\ FirstOf(Places(lines, Head(hunks).old, 0)) \in Places(lines, Head(hunks).old, 0)
<1>1. /\ pc = "place" /\ hunks # <<>> /\ fellBack' = TRUE
      /\ Places(lines, Head(hunks).old, cursor) = {}
      /\ Places(lines, Head(hunks).old, 0) # {}
      /\ PlaceAt(FirstOf(Places(lines, Head(hunks).old, 0)))
  BY DEF PlaceBehind
<1>2. Places(lines, Head(hunks).old, 0) \in SUBSET Nat
  BY DEF Places
<1> QED
  BY <1>1, <1>2, FirstIsLeast

LEMMA NextTypes == TextTypes /\ [Next]_vars => TextTypes'
<1> SUFFICES ASSUME TextTypes, [Next]_vars PROVE TextTypes'
  OBVIOUS
<1> USE DEF TextTypes
<1>1. CASE Parse
  BY <1>1 DEF Parse, update
<1>2. CASE AddFile
  <2>1. /\ current' = Joined(Head(patch).lines, Head(patch).lines # <<>>, "lf")
        /\ patch' = Tail(patch) /\ UNCHANGED <<before, pc, update>>
        /\ patch # <<>> /\ Head(patch).kind = "add"
    BY <1>2 DEF AddFile, Replaced, Next1
  <2>2. Head(patch) \in Operations /\ Tail(patch) \in Seq(Operations)
    BY <2>1, HeadAndTail
  <2>3. Head(patch).lines \in Seq(Text)
    BY <2>1, <2>2 DEF Operations, UpdateOp, AddOp, DeleteOp
  <2>4. current' \in Seq(Line)
    BY <2>1, <2>3, JoinedLines DEF Eol
  <2> QED
    BY <2>1, <2>2, <2>4 DEF Contents, update
<1>3. CASE DeleteFile
  <2>1. /\ current' = Absent /\ patch' = Tail(patch) /\ UNCHANGED <<before, pc, update>>
        /\ patch # <<>>
    BY <1>3 DEF DeleteFile, Replaced, Next1
  <2>2. Tail(patch) \in Seq(Operations)
    BY <2>1, HeadAndTail
  <2> QED
    BY <2>1, <2>2 DEF Contents, update
<1>4. CASE UpdateFile
  <2>1. CASE current = Absent
    BY <1>4, <2>1 DEF UpdateFile, update
  <2>2. CASE current # Absent
    <3>1. /\ patch # <<>> /\ Head(patch).kind = "update"
          /\ pc' = "place" /\ patch' = Tail(patch)
          /\ lines' = LinesOf(current) /\ trailing' = EndsWithNewline(current)
          /\ cursor' = 0 /\ hunks' = Head(patch).hunks /\ fellBack' = FALSE
          /\ source' = [lines |-> lines', hunks |-> hunks']
          /\ UNCHANGED <<before, current>>
      BY <1>4, <2>2 DEF UpdateFile, Next1
    <3>2. Head(patch) \in Operations /\ Tail(patch) \in Seq(Operations)
      BY <3>1, HeadAndTail
    <3>3. hunks' \in Seq(Hunks)
      BY <3>1, <3>2 DEF Operations, UpdateOp, AddOp, DeleteOp
    <3>4. lines' \in Seq(Text)
      BY <2>2, <3>1, LinesAreTexts DEF Contents
    <3>5. trailing' \in BOOLEAN
      BY <3>1 DEF EndsWithNewline
    <3> QED
      BY <3>1, <3>2, <3>3, <3>4, <3>5
  <2> QED
    BY <2>1, <2>2
<1>5. CASE PlaceHunk
  <2>1. lines' \in Seq(Text) /\ cursor' \in Nat /\ hunks' \in Seq(Hunks)
    BY <1>5, PlaceHunkAt, PlaceAtTypes
  <2>2. UNCHANGED <<before, patch, pc, current, trailing, source, fellBack>>
    BY <1>5, PlaceHunkAt DEF PlaceAt
  <2> QED
    BY <2>1, <2>2
<1>6. CASE PlaceBehind
  <2>1. lines' \in Seq(Text) /\ cursor' \in Nat /\ hunks' \in Seq(Hunks)
    BY <1>6, PlaceBehindAt, PlaceAtTypes, 0 \in Nat
  <2>2. UNCHANGED <<before, patch, pc, current, trailing, source>> /\ fellBack' = TRUE
    BY <1>6, PlaceBehindAt DEF PlaceAt
  <2> QED
    BY <2>1, <2>2
<1>7. CASE NotFound
  BY <1>7 DEF NotFound, update
<1>8. CASE UpdateDone
  <2>1. /\ pc' = "next" /\ UNCHANGED <<before, patch, update>>
        /\ current' = Joined(lines, trailing, IF KeepsCrlf(current) THEN "crlf" ELSE "lf")
    BY <1>8 DEF UpdateDone
  <2>2. current' \in Seq(Line)
    BY <2>1, JoinedLines DEF Eol
  <2> QED
    BY <2>1, <2>2 DEF Contents, update
<1>9. CASE Done
  BY <1>9 DEF Done, update
<1>10. CASE UNCHANGED vars
  BY <1>10 DEF vars, update
<1> QED
  BY <1>1, <1>2, <1>3, <1>4, <1>5, <1>6, <1>7, <1>8, <1>9, <1>10 DEF Next

\* The first of the hunks that are left is the next one.
LEMMA LeftNext ==
  ASSUME NEW hs \in Seq(Hunks), NEW h \in Seq(Hunks), h # <<>>, NEW k \in Nat, Left(hs, h, k)
  PROVE  /\ k < Len(hs) /\ k + 1 <= Len(hs) /\ Head(h) = hs[k + 1]
         /\ Left(hs, Tail(h), k + 1)
<1>1. /\ Tail(h) \in Seq(Hunks) /\ Head(h) = h[1] /\ 1 \in 1..Len(h)
      /\ Len(Tail(h)) + 1 = Len(h) /\ \A i \in 1..Len(Tail(h)) : Tail(h)[i] = h[i + 1]
  BY HeadAndTail
<1>2. k + Len(h) = Len(hs) /\ \A i \in 1..Len(h) : h[i] = hs[k + i]
  BY DEF Left
<1>3. Len(hs) \in Nat /\ Len(h) \in Nat /\ Len(Tail(h)) \in Nat
  BY <1>1
<1>4. Head(h) = hs[k + 1]
  BY <1>1, <1>2
<1>5. ASSUME NEW i \in 1..Len(Tail(h)) PROVE Tail(h)[i] = hs[(k + 1) + i]
  <2>1. i + 1 \in 1..Len(h) /\ k + (i + 1) = (k + 1) + i
    BY <1>1, <1>3
  <2> QED
    BY <1>1, <1>2, <2>1
<1>6. (k + 1) + Len(Tail(h)) = Len(hs) /\ k < Len(hs) /\ k + 1 <= Len(hs)
  BY <1>1, <1>2, <1>3
<1> QED
  BY <1>4, <1>5, <1>6 DEF Left

\* One hunk placed somewhere: those that are left, and the balance.
LEMMA PlacedOne ==
  ASSUME TextTypes, pc = "place", hunks # <<>>, NEW c \in Nat,
         NEW i \in Places(lines, Head(hunks).old, c), PlaceAt(i),
         NEW k \in Nat, Left(source.hunks, hunks, k),
         Balanced(source.lines, source.hunks, k, lines)
  PROVE  /\ k < Len(source.hunks) /\ Head(hunks) = source.hunks[k + 1]
         /\ Left(source'.hunks, hunks', k + 1)
         /\ Balanced(source'.lines, source'.hunks, k + 1, lines')
<1>1. source.hunks \in Seq(Hunks) /\ source.lines \in Seq(Text)
  BY DEF TextTypes
<1>2. /\ k < Len(source.hunks) /\ Head(hunks) = source.hunks[k + 1]
      /\ Left(source.hunks, Tail(hunks), k + 1)
  BY <1>1, LeftNext DEF TextTypes
<1>3. /\ lines' = SubSeq(lines, 1, i) \o Head(hunks).new \o Rest(lines, i, Head(hunks).old)
      /\ hunks' = Tail(hunks) /\ source' = source
  BY DEF PlaceAt
<1>4. i \in Places(lines, source.hunks[k + 1].old, c) /\ lines \in Seq(Text)
  BY <1>2 DEF TextTypes
<1>5. Balanced(source.lines, source.hunks, k + 1,
               SubSeq(lines, 1, i) \o source.hunks[k + 1].new
                 \o Rest(lines, i, source.hunks[k + 1].old))
  BY <1>1, <1>2, <1>4, BalancedNext
<1> QED
  BY <1>2, <1>3, <1>5

\* So does what is known while the hunks are placed ...
LEMMA InitPlacing == Init => Placing
  BY DEF Init, Placing

LEMMA NextPlacing == TextTypes /\ TextTypes' /\ Placing /\ [Next]_vars => Placing'
<1> SUFFICES ASSUME TextTypes, TextTypes', Placing, [Next]_vars PROVE Placing'
  OBVIOUS
<1>0. source.hunks \in Seq(Hunks) /\ source.lines \in Seq(Text) /\ cursor \in Nat
  BY DEF TextTypes
<1>1. CASE Parse
  BY <1>1 DEF Parse, update, Placing
<1>2. CASE AddFile
  BY <1>2 DEF AddFile, Replaced, Next1, update, Placing
<1>3. CASE DeleteFile
  BY <1>3 DEF DeleteFile, Replaced, Next1, update, Placing
<1>4. CASE UpdateFile
  <2>1. CASE current = Absent
    BY <1>4, <2>1 DEF UpdateFile, Next1, update, Placing
  <2>2. CASE current # Absent
    <3>1. /\ pc' = "place" /\ cursor' = 0 /\ fellBack' = FALSE
          /\ source' = [lines |-> lines', hunks |-> hunks']
      BY <1>4, <2>2 DEF UpdateFile
    <3>2. lines' \in Seq(Text) /\ hunks' \in Seq(Hunks)
      BY DEF TextTypes
    <3>3. source'.lines = lines' /\ source'.hunks = hunks'
      BY <3>1
    <3>4. Left(hunks', hunks', 0)
      <4>1. Len(hunks') \in Nat
        BY <3>2
      <4> QED
        BY <4>1 DEF Left
    <3>5. Result(lines', hunks', 0, lines', 0) /\ Balanced(lines', hunks', 0, lines')
      BY <3>2, ResultFirst, BalancedFirst
    <3>6. /\ Left(source'.hunks, hunks', 0)
          /\ Result(source'.lines, source'.hunks, 0, lines', cursor')
          /\ Balanced(source'.lines, source'.hunks, 0, lines')
      BY <3>1, <3>3, <3>4, <3>5
    <3> QED
      BY <3>1, <3>6, 0 \in Nat DEF Placing
  <2> QED
    BY <2>1, <2>2
<1>5. ASSUME pc = "place"
      PROVE  \E k \in Nat : /\ Left(source.hunks, hunks, k)
                            /\ IF fellBack THEN NoneFit(source.lines, source.hunks, k)
                               ELSE Result(source.lines, source.hunks, k, lines, cursor)
                            /\ Balanced(source.lines, source.hunks, k, lines)
  BY <1>5 DEF Placing
<1>6. CASE PlaceHunk
  <2> DEFINE i == PlaceOf(lines, Head(hunks).old, cursor)
  <2>1. /\ pc = "place" /\ hunks # <<>> /\ Places(lines, Head(hunks).old, cursor) # {}
        /\ PlaceAt(i) /\ i \in Places(lines, Head(hunks).old, cursor) /\ fellBack' = fellBack
    BY <1>6, PlaceHunkAt
  <2>2. PICK k \in Nat : /\ Left(source.hunks, hunks, k)
                         /\ IF fellBack THEN NoneFit(source.lines, source.hunks, k)
                            ELSE Result(source.lines, source.hunks, k, lines, cursor)
                         /\ Balanced(source.lines, source.hunks, k, lines)
    BY <1>5, <2>1
  <2>3. i = PlaceOf(lines, Head(hunks).old, cursor)
    OBVIOUS
  <2> HIDE DEF i
  <2>4. /\ k < Len(source.hunks) /\ Head(hunks) = source.hunks[k + 1]
        /\ Left(source'.hunks, hunks', k + 1)
        /\ Balanced(source'.lines, source'.hunks, k + 1, lines')
    BY <1>0, <2>1, <2>2, PlacedOne
  <2>5. /\ lines' = SubSeq(lines, 1, i) \o Head(hunks).new \o Rest(lines, i, Head(hunks).old)
        /\ cursor' = i + Len(Head(hunks).new) /\ source' = source /\ pc' = pc
    BY <2>1 DEF PlaceAt
  <2>6. CASE fellBack
    <3>1. NoneFit(source.lines, source.hunks, k + 1)
      BY <2>2, <2>6, NoneFitMore, k + 1 \in Nat, k <= k + 1
    <3> QED
      BY <2>1, <2>4, <2>5, <2>6, <3>1, k + 1 \in Nat DEF Placing
  <2>7. CASE ~fellBack
    <3>1. Result(source.lines, source.hunks, k, lines, cursor)
      BY <2>2, <2>7
    <3>2. /\ Places(lines, source.hunks[k + 1].old, cursor) # {}
          /\ i = PlaceOf(lines, source.hunks[k + 1].old, cursor)
      BY <2>1, <2>3, <2>4
    <3>3. Result(source.lines, source.hunks, k + 1,
                 SubSeq(lines, 1, i) \o source.hunks[k + 1].new
                   \o Rest(lines, i, source.hunks[k + 1].old),
                 i + Len(source.hunks[k + 1].new))
      BY <1>0, <2>4, <3>1, <3>2, ResultNext
    <3>4. Result(source'.lines, source'.hunks, k + 1, lines', cursor')
      BY <2>4, <2>5, <3>3
    <3> QED
      BY <2>1, <2>4, <2>5, <2>7, <3>4, k + 1 \in Nat DEF Placing
  <2> QED
    BY <2>6, <2>7
<1>7. ASSUME pc = "place", hunks # <<>>, Places(lines, Head(hunks).old, cursor) = {},
             NEW k \in Nat, Left(source.hunks, hunks, k),
             IF fellBack THEN NoneFit(source.lines, source.hunks, k)
             ELSE Result(source.lines, source.hunks, k, lines, cursor)
      PROVE  NoneFit(source.lines, source.hunks, k + 1) /\ k + 1 <= Len(source.hunks)
  <2>1. /\ k < Len(source.hunks) /\ k + 1 <= Len(source.hunks)
        /\ Head(hunks) = source.hunks[k + 1]
    BY <1>0, <1>7, LeftNext DEF TextTypes
  <2>2. CASE fellBack
    BY <1>7, <2>1, <2>2, NoneFitMore, k + 1 \in Nat, k <= k + 1
  <2>3. CASE ~fellBack
    <3>1. /\ Result(source.lines, source.hunks, k, lines, cursor)
          /\ Places(lines, source.hunks[k + 1].old, cursor) = {}
      BY <1>7, <2>1, <2>3
    <3> QED
      BY <1>0, <2>1, <3>1, NotAhead
  <2> QED
    BY <2>2, <2>3
<1>8. CASE PlaceBehind
  <2> DEFINE i == FirstOf(Places(lines, Head(hunks).old, 0))
  <2>1. /\ pc = "place" /\ hunks # <<>> /\ Places(lines, Head(hunks).old, cursor) = {}
        /\ PlaceAt(i) /\ i \in Places(lines, Head(hunks).old, 0) /\ fellBack' = TRUE
    BY <1>8, PlaceBehindAt
  <2> HIDE DEF i
  <2>2. PICK k \in Nat : /\ Left(source.hunks, hunks, k)
                         /\ IF fellBack THEN NoneFit(source.lines, source.hunks, k)
                            ELSE Result(source.lines, source.hunks, k, lines, cursor)
                         /\ Balanced(source.lines, source.hunks, k, lines)
    BY <1>5, <2>1
  <2>3. /\ Left(source'.hunks, hunks', k + 1)
        /\ Balanced(source'.lines, source'.hunks, k + 1, lines')
    BY <2>1, <2>2, PlacedOne, 0 \in Nat
  <2>4. NoneFit(source.lines, source.hunks, k + 1)
    BY <1>7, <2>1, <2>2
  <2>5. source' = source /\ pc' = pc
    BY <2>1 DEF PlaceAt
  <2>6. NoneFit(source'.lines, source'.hunks, k + 1)
    BY <2>4, <2>5
  <2> QED
    BY <2>1, <2>3, <2>5, <2>6, k + 1 \in Nat DEF Placing
<1>9. CASE NotFound
  <2>1. /\ pc = "place" /\ hunks # <<>> /\ Places(lines, Head(hunks).old, 0) = {}
        /\ pc' = "mismatch" /\ hunks' = hunks /\ source' = source
    BY <1>9 DEF NotFound, update
  <2>2. Places(lines, Head(hunks).old, cursor) = {}
    BY <1>0, <2>1 DEF Places
  <2>3. PICK k \in Nat : /\ Left(source.hunks, hunks, k)
                         /\ IF fellBack THEN NoneFit(source.lines, source.hunks, k)
                            ELSE Result(source.lines, source.hunks, k, lines, cursor)
                         /\ Balanced(source.lines, source.hunks, k, lines)
    BY <1>5, <2>1
  <2>4. NoneFit(source.lines, source.hunks, k + 1) /\ k + 1 <= Len(source.hunks)
    BY <1>7, <2>1, <2>2, <2>3
  <2>5. NoneFit(source.lines, source.hunks, Len(source.hunks))
    <3>1. Len(source.hunks) \in Nat /\ k + 1 \in Nat
      BY <1>0
    <3> QED
      BY <2>4, <3>1, NoneFitMore
  <2> QED
    BY <2>1, <2>5 DEF Placing
<1>10. CASE UpdateDone
  BY <1>10 DEF UpdateDone, update, Placing
<1>11. CASE Done
  BY <1>11 DEF Done, update, Placing
<1>12. CASE UNCHANGED vars
  BY <1>12 DEF vars, update, Placing
<1> QED
  BY <1>1, <1>2, <1>3, <1>4, <1>6, <1>8, <1>9, <1>10, <1>11, <1>12 DEF Next

\* ... and of the newlines.
LEMMA InitEolKept == Init => EolKept
  BY DEF Init, EolKept

LEMMA NextEolKept == TextTypes /\ EolKept /\ [Next]_vars => EolKept'
<1> SUFFICES ASSUME TextTypes, EolKept, [Next]_vars PROVE EolKept'
  OBVIOUS
<1>1. CASE Parse
  <2>1. UNCHANGED <<before, patch, current>> /\ pc' \in {"next", "invalid"}
    BY <1>1 DEF Parse
  <2>2. ASSUME pc' = "next", before # Absent, NEW i \in DOMAIN patch
        PROVE  patch[i].kind # "add"
    <3>1. PICK allowDelete \in BOOLEAN : Accepted(patch[i], allowDelete)
      BY <1>1, <2>2 DEF Parse
    <3>2. patch[i].kind # "add"
      <4>1. SUFFICES ASSUME patch[i].kind = "add" PROVE FALSE
        OBVIOUS
      <4>2. Accepted(patch[i], allowDelete) <=> before = Absent
        BY <4>1 DEF Accepted
      <4> QED
        BY <2>2, <3>1, <4>2
    <3> QED
      BY <3>2
  <2> QED
    BY <2>1, <2>2 DEF EolKept
<1>2. ASSUME patch # <<>>, patch' = Tail(patch), NEW i \in DOMAIN patch'
      PROVE  \E j \in DOMAIN patch : patch'[i] = patch[j]
  <2>1. /\ Tail(patch) \in Seq(Operations) /\ Len(Tail(patch)) + 1 = Len(patch)
        /\ \A x \in 1..Len(Tail(patch)) : Tail(patch)[x] = patch[x + 1]
        /\ Len(patch) \in Nat /\ Len(Tail(patch)) \in Nat
    BY <1>2, HeadAndTail DEF TextTypes
  <2>2. DOMAIN patch = 1..Len(patch) /\ DOMAIN patch' = 1..Len(Tail(patch))
    BY <1>2, <2>1 DEF TextTypes
  <2>3. i \in 1..Len(Tail(patch)) /\ i + 1 \in 1..Len(patch)
    BY <1>2, <2>1, <2>2
  <2> QED
    BY <1>2, <2>1, <2>2, <2>3
<1>3. CASE AddFile
  <2>1. /\ patch' = Tail(patch) /\ UNCHANGED <<before, pc>> /\ pc = "next"
        /\ patch # <<>> /\ Head(patch).kind = "add"
    BY <1>3 DEF AddFile, Replaced, Next1
  <2>2. Head(patch) = patch[1] /\ 1 \in DOMAIN patch
    BY <2>1, HeadAndTail DEF TextTypes
  <2>3. before = Absent
    BY <2>1, <2>2 DEF EolKept
  <2> QED
    BY <2>1, <2>3 DEF EolKept
<1>4. CASE DeleteFile
  <2>1. /\ patch' = Tail(patch) /\ UNCHANGED <<before, pc>> /\ pc = "next"
        /\ patch # <<>> /\ current' = Absent
    BY <1>4 DEF DeleteFile, Replaced, Next1
  <2>2. before # Absent => \A i \in DOMAIN patch : patch[i].kind # "add"
    BY <2>1 DEF EolKept
  <2>3. before' # Absent => \A i \in DOMAIN patch' : patch'[i].kind # "add"
    BY <1>2, <2>1, <2>2
  <2> QED
    BY <2>1, <2>3 DEF EolKept
<1>5. CASE UpdateFile
  <2>1. CASE current = Absent
    BY <1>5, <2>1 DEF UpdateFile, Next1, update, EolKept
  <2>2. CASE current # Absent
    <3>1. /\ patch' = Tail(patch) /\ UNCHANGED <<before, current>> /\ pc = "next"
          /\ patch # <<>> /\ trailing' = EndsWithNewline(current)
      BY <1>5, <2>2 DEF UpdateFile, Next1
    <3> QED
      BY <1>2, <2>2, <3>1 DEF EolKept
  <2> QED
    BY <2>1, <2>2
<1>6. CASE PlaceHunk
  BY <1>6 DEF PlaceHunk, PlaceAt, EolKept
<1>7. CASE PlaceBehind
  BY <1>7 DEF PlaceBehind, PlaceAt, EolKept
<1>8. CASE NotFound
  BY <1>8 DEF NotFound, EolKept
<1>9. CASE UpdateDone
  <2>1. /\ pc = "place" /\ pc' = "next" /\ UNCHANGED <<before, patch>>
        /\ current' = Joined(lines, trailing, IF KeepsCrlf(current) THEN "crlf" ELSE "lf")
    BY <1>9 DEF UpdateDone
  <2>2. current # Absent /\ trailing = EndsWithNewline(current)
    BY <2>1 DEF EolKept
  <2>3. ASSUME before # Absent, NEW e \in {"lf", "crlf"}, before # <<>>, AllEol(before, e)
        PROVE  current' # <<>> /\ AllEol(current', e)
    <3>1. current # <<>> /\ AllEol(current, e) /\ current \in Seq(Line)
      BY <2>2, <2>3 DEF EolKept, TextTypes, Contents
    <3>2. EndsWithNewline(current) /\ (IF KeepsCrlf(current) THEN "crlf" ELSE "lf") = e
      BY <3>1, OneKind
    <3>3. current' = Joined(lines, TRUE, e)
      BY <2>1, <2>2, <3>2 DEF TextTypes
    <3> QED
      BY <3>3, JoinedLines DEF TextTypes, Eol
  <2>4. before' # Absent => \A i \in DOMAIN patch' : patch'[i].kind # "add"
    BY <2>1 DEF EolKept
  <2>5. before' # Absent =>
          \A e \in {"lf", "crlf"} : before' # <<>> /\ AllEol(before', e)
                                     => current' # <<>> /\ AllEol(current', e)
    BY <2>1, <2>3
  <2> QED
    BY <2>1, <2>4, <2>5 DEF EolKept
<1>10. CASE Done
  BY <1>10 DEF Done, EolKept
<1>11. CASE UNCHANGED vars
  BY <1>11 DEF vars, update, EolKept
<1> QED
  BY <1>1, <1>3, <1>4, <1>5, <1>6, <1>7, <1>8, <1>9, <1>10, <1>11 DEF Next

-----------------------------------------------------------------------------
(***************************************************************************)
(* The theorems.                                                           *)
(***************************************************************************)
\* While hunks are placed (_apply_hunks), the lines are at any time the result of the
\* earliest places for those already placed, or those have none in their order; the
\* lines, what was taken out and what was put in balance; and a file with one kind of
\* newline keeps it through every operation (prepare_text_patch).
THEOREM PlacingInductive == Spec => []IInv
<1>1. Init => IInv
  BY InitTypes, InitPlacing, InitEolKept DEF IInv
<1>2. IInv /\ [Next]_vars => IInv'
  BY NextTypes, NextPlacing, NextEolKept DEF IInv
<1> QED
  BY <1>1, <1>2, PTL DEF Spec

\* At the end of an update this is the claim about the reference ...
LEMMA PlacedIfInv == IInv => PlacedWhereTheyFit
<1> SUFFICES ASSUME IInv PROVE PlacedWhereTheyFit
  OBVIOUS
<1> DEFINE ls == source.lines
           hs == source.hunks
           ps == Placements(ls, hs)
<1>1. ls \in Seq(Text) /\ hs \in Seq(Hunks)
  BY DEF IInv, TextTypes
<1>2. NoneFit(ls, hs, Len(hs)) <=> ps = {}
  BY <1>1, PlacementsAreFits DEF NoneFit
<1>3. pc = "mismatch" /\ hunks # <<>> => ps = {}
  BY <1>2 DEF IInv, Placing
<1>4. ASSUME pc = "place", hunks = <<>>
      PROVE  IF ps = {} THEN fellBack
             ELSE \E p \in Earliest(ps) : ~fellBack /\ lines = Patched(ls, hs, p)
  <2>1. PICK k \in Nat : /\ Left(hs, hunks, k)
                         /\ IF fellBack THEN NoneFit(ls, hs, k)
                            ELSE Result(ls, hs, k, lines, cursor)
    BY <1>4 DEF IInv, Placing
  <2>2. k = Len(hs)
    BY <1>1, <1>4, <2>1 DEF Left
  <2>3. CASE fellBack
    BY <1>2, <2>1, <2>2, <2>3
  <2>4. CASE ~fellBack
    <3>1. Result(ls, hs, Len(hs), lines, cursor)
      BY <2>1, <2>2, <2>4
    <3>2. PICK p \in Earliest(ps) : lines = Patched(ls, hs, p)
      BY <1>1, <3>1, ResultIsPatched
    <3>3. ps # {}
      BY <3>2 DEF Earliest
    <3> QED
      BY <2>4, <3>2, <3>3
  <2> QED
    BY <2>3, <2>4
<1> QED
  BY <1>3, <1>4 DEF PlacedWhereTheyFit

\* ... and the balance that of all its hunks.
LEMMA NothingElseIfInv == IInv => NothingElseChanges
<1> SUFFICES ASSUME IInv PROVE NothingElseChanges
  OBVIOUS
<1> DEFINE ls == source.lines
           hs == source.hunks
<1>1. ls \in Seq(Text) /\ hs \in Seq(Hunks)
  BY DEF IInv, TextTypes
<1> DEFINE Of(part) == FlattenSeq([i \in DOMAIN hs |-> part[i]])
           old == Of([i \in DOMAIN hs |-> hs[i].old])
           new == Of([i \in DOMAIN hs |-> hs[i].new])
<1>2. ASSUME pc = "place", hunks = <<>>
      PROVE  \A t \in Text : Times(t, lines) + Times(t, old) = Times(t, ls) + Times(t, new)
  <2>1. PICK k \in Nat : Left(hs, hunks, k) /\ Balanced(ls, hs, k, lines)
    BY <1>2 DEF IInv, Placing
  <2>2. k = Len(hs)
    BY <1>1, <1>2, <2>1 DEF Left
  <2>3. PICK a, b : /\ Joins(Olds(hs), k, a) /\ Joins(News(hs), k, b)
                    /\ \A t \in Text : Times(t, lines) + Times(t, a[k])
                                         = Times(t, ls) + Times(t, b[k])
    BY <2>1 DEF Balanced
  <2>4. FlattenSeq(Olds(hs)) = a[k] /\ FlattenSeq(News(hs)) = b[k]
    BY <1>1, <2>2, <2>3, TextsOfHunks, FlattenIs
  <2>5. old = FlattenSeq(Olds(hs)) /\ new = FlattenSeq(News(hs))
    <3>1. /\ [i \in DOMAIN hs |-> [j \in DOMAIN hs |-> hs[j].old][i]] = Olds(hs)
          /\ [i \in DOMAIN hs |-> [j \in DOMAIN hs |-> hs[j].new][i]] = News(hs)
      BY DEF Olds, News
    <3> QED
      BY <3>1
  <2> HIDE DEF old, new
  <2> QED
    BY <2>3, <2>4, <2>5
<1>3. ASSUME pc = "done", before # Absent, current # Absent, NEW e \in {"lf", "crlf"},
             before # <<>>, \A i \in DOMAIN before : before[i].eol = e,
             NEW i \in DOMAIN current
      PROVE  current[i].eol = e
  BY <1>3 DEF IInv, EolKept, AllEol
<1> HIDE DEF Of
<1> QED
  BY <1>2, <1>3 DEF NothingElseChanges, Of

\* Hunks that fit into the file in their order are placed at the first place for each
\* of them; only if they do not, one is placed behind, or the patch refused
\* (_find_subsequence from the cursor, and only then from the start).
THEOREM PlacedWhereTheyFitHolds == Spec => []PlacedWhereTheyFit
  BY PlacingInductive, PlacedIfInv, PTL

\* No line is lost or doubled that the hunks do not remove or insert, wherever they are
\* placed, and a file with one kind of newline has no other afterwards.
THEOREM NothingElseChangesHolds == Spec => []NothingElseChanges
  BY PlacingInductive, NothingElseIfInv, PTL
=============================================================================
