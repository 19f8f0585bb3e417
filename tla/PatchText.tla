----------------------------- MODULE PatchText -----------------------------
(***************************************************************************)
(* How the text of a patch becomes the new content of a file               *)
(* (workspace/text_ops.py): parse_codex_patch, prepare_text_patch, the     *)
(* placing of hunks and the conversion of line endings.  Operations on     *)
(* different files do not meet, so there is one file here.                 *)
(***************************************************************************)
EXTENDS Naturals, FiniteSets, Sequences, SequencesExt

CONSTANTS Word,        \* lines that are not empty
          Blank,       \* the empty line
          Absent,      \* no file
          MaxLines,    \* bound: lines of the file
          HunkLines,   \* bound: lines of a hunk
          MaxHunks     \* bound: hunks of an update

ASSUME PatchAssumption == {MaxLines, HunkLines, MaxHunks} \subseteq Nat

VARIABLES
  before,    \* the file as it was read
  patch,     \* the operations that are still to be carried out
  pc,
  current,   \* what the file is to become
  lines,     \* the lines of the file during an update
  trailing,  \* whether the file ended with a newline
  cursor,    \* behind the last hunk placed
  hunks,     \* the hunks that are still to be placed
  source,    \* history: the lines, and hunks, at the start of the update
  fellBack   \* history: a hunk was not found behind the cursor

update == <<lines, trailing, cursor, hunks, source, fellBack>>
vars == <<before, patch, pc, current, update>>

Text == Word \cup {Blank}
Texts(n) == UNION {[1..k -> Text] : k \in 0..n}

(***************************************************************************)
(* Files.  Each line but the last ends with a newline; an empty last line  *)
(* without one is no line at all.                                          *)
(***************************************************************************)
Eol == {"lf", "crlf", "none"}

WellFormed(f) ==
  \A i \in DOMAIN f : f[i].eol = "none" => i = Len(f) /\ f[i].text # Blank

File == {f \in UNION {[1..k -> [text: Text, eol: Eol]] : k \in 0..MaxLines} :
           WellFormed(f)}

LinesOf(f) == [i \in DOMAIN f |-> f[i].text]
EndsWithNewline(f) == f # <<>> /\ f[Len(f)].eol # "none"

\* normalize_line_endings, mode preserve
AnyCrlf(f) == \E i \in DOMAIN f : f[i].eol = "crlf"
KeepsCrlf(f) == AnyCrlf(f) /\ \A i \in DOMAIN f : f[i].eol # "lf"

\* _join_lines, and the encoding of the text with one kind of newline
Joined(ls, newline, eol) ==
  LET n == Len(ls)
      all == [i \in 1..n |-> [text |-> ls[i],
                              eol |-> IF i < n \/ newline THEN eol ELSE "none"]]
  IN IF n = 0 THEN IF newline THEN <<[text |-> Blank, eol |-> eol]>> ELSE <<>>
     ELSE IF ls[n] = Blank /\ ~newline THEN SubSeq(all, 1, n - 1) ELSE all

(***************************************************************************)
(* Patches.                                                                *)
(***************************************************************************)
\* _build_hunk: what it expects, and what it puts in its place
Hunk ==
  LET Marked == [mark: {"context", "remove", "insert"}, text: Text]
      Old(m) == LinesOf(SelectSeq(m, LAMBDA l : l.mark # "insert"))
      New(m) == LinesOf(SelectSeq(m, LAMBDA l : l.mark # "remove"))
  IN {h \in [old: Texts(HunkLines), new: Texts(HunkLines)] :
        \E k \in 1..HunkLines : \E m \in [1..k -> Marked] : h.old = Old(m) /\ h.new = New(m)}

Updates(n) == {[kind |-> "update", hunks |-> h] : h \in UNION {[1..k -> Hunk] : k \in 1..n}}
Adds == {[kind |-> "add", lines |-> l] : l \in Texts(1)}
Deletes == {[kind |-> "delete"]}
Plain == Updates(1) \cup Adds \cup Deletes

Patch == {<<o>> : o \in Updates(MaxHunks) \cup Adds \cup Deletes}
           \cup {<<o, p>> : o \in Deletes \cup Adds, p \in Plain}
           \cup {<<o, p>> : o \in Updates(1), p \in Deletes}

Init ==
  /\ before \in File \cup {Absent} /\ patch \in Patch /\ pc = "parse" /\ current = before
  /\ lines = <<>> /\ trailing = FALSE /\ cursor = 0 /\ hunks = <<>>
  /\ source = [lines |-> <<>>, hunks |-> <<>>] /\ fellBack = FALSE

\* parse_codex_patch looks at the file as it is, not as earlier operations leave it
Accepted(o, allowDelete) ==
  CASE o.kind = "add" -> before = Absent
    [] o.kind = "update" -> before # Absent
    [] o.kind = "delete" -> before # Absent /\ allowDelete

Parse ==
  /\ pc = "parse"
  /\ \E allowDelete \in BOOLEAN :
       pc' = IF \A i \in DOMAIN patch : Accepted(patch[i], allowDelete)
             THEN "next" ELSE "invalid"
  /\ UNCHANGED <<before, patch, current, update>>

Next1(kind) == pc = "next" /\ patch # <<>> /\ Head(patch).kind = kind
Replaced(file) == /\ current' = file /\ patch' = Tail(patch)
                  /\ UNCHANGED <<before, pc, update>>

AddFile == Next1("add") /\ Replaced(Joined(Head(patch).lines, Head(patch).lines # <<>>, "lf"))
DeleteFile == Next1("delete") /\ Replaced(Absent)

\* the file may have been deleted by an operation before
UpdateFile ==
  /\ Next1("update")
  /\ IF current = Absent
     THEN pc' = "mismatch" /\ UNCHANGED <<patch, update>>
     ELSE /\ pc' = "place" /\ patch' = Tail(patch)
          /\ lines' = LinesOf(current) /\ trailing' = EndsWithNewline(current)
          /\ cursor' = 0 /\ hunks' = Head(patch).hunks /\ fellBack' = FALSE
          /\ source' = [lines |-> lines', hunks |-> hunks']
  /\ UNCHANGED <<before, current>>

(***************************************************************************)
(* _apply_hunks.                                                           *)
(***************************************************************************)
\* _find_subsequence: the places from start on where needle is in the lines
Places(ls, needle, start) ==
  {i \in start..Len(ls) : /\ i + Len(needle) <= Len(ls)
                          /\ SubSeq(ls, i + 1, i + Len(needle)) = needle}

LastOf(places) == CHOOSE i \in places : \A j \in places : i >= j
FirstOf(places) == CHOOSE i \in places : \A j \in places : i <= j

RestCut(ls, i, old) == SubSeq(ls, i + Len(old) + 2, Len(ls))
Rest(ls, i, old) == SubSeq(ls, i + Len(old) + 1, Len(ls))

PlaceAt(i) ==
  LET h == Head(hunks)
  IN /\ lines' = SubSeq(lines, 1, i) \o h.new \o Rest(lines, i, h.old)
     /\ cursor' = i + Len(h.new)
     /\ hunks' = Tail(hunks)
     /\ UNCHANGED <<before, patch, pc, current, trailing, source>>

PlaceHunk ==
  /\ pc = "place" /\ hunks # <<>>
  /\ LET old == Head(hunks).old  ahead == Places(lines, old, cursor)
     IN /\ ahead # {}
        /\ PlaceAt(IF old = <<>> THEN cursor ELSE FirstOf(ahead))
  /\ UNCHANGED fellBack

\* from the start of the file, if it is not found behind the hunk before
PlaceBehind ==
  /\ pc = "place" /\ hunks # <<>> /\ cursor > 0
  /\ LET old == Head(hunks).old  anywhere == Places(lines, old, 0)
     IN /\ Places(lines, old, cursor) = {} /\ anywhere # {}
        /\ PlaceAt(FirstOf(anywhere))
  /\ fellBack' = TRUE

NotFound ==
  /\ pc = "place" /\ hunks # <<>> /\ Places(lines, Head(hunks).old, 0) = {}
  /\ pc' = "mismatch"
  /\ UNCHANGED <<before, patch, current, update>>

UpdateDone ==
  /\ pc = "place" /\ hunks = <<>> /\ pc' = "next"
  /\ current' = Joined(lines, trailing, IF KeepsCrlf(current) THEN "crlf" ELSE "lf")
  /\ UNCHANGED <<before, patch, update>>

Done == pc = "next" /\ patch = <<>> /\ pc' = "done" /\ UNCHANGED <<before, patch, current, update>>

Next == \/ Parse \/ AddFile \/ DeleteFile \/ UpdateFile
        \/ PlaceHunk \/ PlaceBehind \/ NotFound \/ UpdateDone \/ Done

Spec == Init /\ [][Next]_vars

(***************************************************************************)
(* The reference: hunks in the order of the file, apart from each other.   *)
(***************************************************************************)
EndOf(p, hs, i) == IF i = 0 THEN 0 ELSE p[i] + Len(hs[i].old)

Placements(ls, hs) ==
  {p \in [DOMAIN hs -> 0..Len(ls)] :
     \A i \in DOMAIN hs :
       IF hs[i].old = <<>> THEN p[i] = EndOf(p, hs, i - 1)
       ELSE p[i] \in Places(ls, hs[i].old, EndOf(p, hs, i - 1))}

Patched(ls, hs, p) ==
  LET Upto[i \in 0..Len(hs)] ==
        IF i = 0 THEN <<>>
        ELSE Upto[i - 1] \o SubSeq(ls, EndOf(p, hs, i - 1) + 1, p[i]) \o hs[i].new
  IN Upto[Len(hs)] \o SubSeq(ls, EndOf(p, hs, Len(hs)) + 1, Len(ls))

Earliest(ps) == {p \in ps : \A q \in ps : \A i \in DOMAIN p : p[i] <= q[i]}

\* If the hunks fit into the file in their order, the result is that of the first
\* place for each of them; only if they do not, a hunk is placed behind, or the
\* patch refused.  Placing one hunk after the other never misses a solution.
PlacedWhereTheyFit ==
  LET ps == Placements(source.lines, source.hunks)
  IN /\ pc = "mismatch" /\ hunks # <<>> => ps = {}
     /\ pc = "place" /\ hunks = <<>> =>
          IF ps = {} THEN fellBack
          ELSE \E p \in Earliest(ps) : ~fellBack /\ lines = Patched(source.lines, source.hunks, p)

Times(t, ls) == Cardinality({i \in DOMAIN ls : ls[i] = t})

\* Wherever the hunks are placed, no line is lost or doubled that they do not
\* remove or insert; and a file with one kind of newline has no other afterwards.
NothingElseChanges ==
  /\ pc = "place" /\ hunks = <<>> =>
       LET Of(part) == FlattenSeq([i \in DOMAIN source.hunks |-> part[i]])
           old == Of([i \in DOMAIN source.hunks |-> source.hunks[i].old])
           new == Of([i \in DOMAIN source.hunks |-> source.hunks[i].new])
       IN \A t \in Text :
            Times(t, lines) + Times(t, old) = Times(t, source.lines) + Times(t, new)
  /\ pc = "done" /\ before # Absent /\ current # Absent =>
       \A e \in {"lf", "crlf"} :
         (before # <<>> /\ \A i \in DOMAIN before : before[i].eol = e)
            => \A i \in DOMAIN current : current[i].eol = e
=============================================================================
