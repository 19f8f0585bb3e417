-------------------------- MODULE WorkspaceReading --------------------------
(***************************************************************************)
(* read_files, search and inspect (services/workspaces.py): what fits the  *)
(* byte budgets of a request.  A page of a file ends at the first line that*)
(* exceeds the budget of the file; then the whole response is cut down,    *)
(* piece by piece, until it fits the budget of the response.  A client     *)
(* follows next_start_line until it has the whole file, while commands of  *)
(* the workspace change it.                                                *)
(* A line is its width, the bytes of "12: text" and a newline.             *)
(***************************************************************************)
EXTENDS Naturals, Sequences, SequencesExt, FiniteSetsExt

CONSTANTS File, None,
          Width, MaxLines,   \* bounds: width of a line, lines of a file
          Budget,            \* bound: byte budgets of requests
          MaxEdits, MaxCalls, MaxInspects \* bounds: edits by commands, requests,
                             \* and how many of the first of them may be inspect

ASSUME ReadingAssumption ==
  /\ Width \subseteq Nat \ {0} /\ Budget \subseteq Nat
  /\ {MaxLines, MaxEdits, MaxCalls, MaxInspects} \subseteq Nat

Text == UNION {[1..n -> Width] : n \in 0..MaxLines}
Total(widths) == LET sum[i \in 0..Len(widths)] == IF i = 0 THEN 0 ELSE sum[i - 1] + widths[i]
                 IN sum[Len(widths)]

VARIABLES
  text,      \* the lines of each file, or None
  edits,     \* how often each file was changed: stands for its sha256
  asked,     \* the request being served and what was found for it, or None
  answer,    \* the response, after it was fitted
  next,      \* the client: the line of each file to go on with
  sha,       \* the version that its lines are from
  lines,     \* the lines it has
  done,      \* the files it has to the end
  calls

client == <<next, sha, lines, done>>
vars == <<text, edits, asked, answer, client, calls>>

Nothing == [files |-> <<>>, searches |-> <<>>, tree |-> 0, treeCut |-> FALSE,
            truncated |-> FALSE]

Init ==
  /\ text \in [File -> Text] /\ edits = [f \in File |-> 0]
  /\ asked = None /\ answer = Nothing
  /\ next = [f \in File |-> 1] /\ sha = [f \in File |-> 0]
  /\ lines = [f \in File |-> <<>>] /\ done = {} /\ calls = 0

(***************************************************************************)
(* One page of a file: _read_file_content.                                 *)
(***************************************************************************)
Selected(all, start, max) == SubSeq(all, start, Min({start + max - 1, Len(all)}))

\* as many of the selected lines as the budget holds
ShownStrictly(selected, budget) ==
  LET n == Max({k \in 0..Len(selected) : k = 0 \/ Total(SubSeq(selected, 1, k)) < budget})
  IN SubSeq(selected, 1, n)
Shown(selected, budget) ==
  LET n == Max({k \in 0..Len(selected) : Total(SubSeq(selected, 1, k)) <= budget})
  IN SubSeq(selected, 1, n)

NextOfSelection(start, selected, shown) == start + Len(selected)
NextLine(start, selected, shown) == start + Len(shown)

Numbered(shown, start) == [i \in DOMAIN shown |-> [no |-> start + i - 1, width |-> shown[i]]]

\* an absent file is an entry of its own, without content
ReadFile(f, start, max, budget) ==
  IF text[f] = None
  THEN [path |-> f, start |-> start, content |-> <<>>, truncated |-> FALSE,
        next |-> None, sha |-> None]
  ELSE LET selected == Selected(text[f], start, max)
           shown == Shown(selected, budget)
           cut == Len(shown) < Len(selected) \/ start - 1 + Len(selected) < Len(text[f])
       IN [path |-> f, start |-> start, content |-> Numbered(shown, start),
           truncated |-> cut,
           next |-> IF cut THEN NextLine(start, selected, shown) ELSE None,
           sha |-> edits[f]]

(***************************************************************************)
(* Fitting a response: the last file is emptied, then left out; then the   *)
(* last match loses its snippet, its line, and is left out; then the tree  *)
(* and the searches follow.  Nothing else runs meanwhile, so it is one     *)
(* step.  A response that is empty and still too large is refused (None):  *)
(* an empty search carries its query, which may be longer than the budget. *)
(***************************************************************************)
\* in JSON the newline of each line takes one byte more
PageBytes(page) == 1 + Total([i \in DOMAIN page.content |-> page.content[i].width + 1])
MatchBytes(m) == 1 + (IF m.line THEN 1 ELSE 0) + (IF m.snippet THEN 1 ELSE 0)
SearchBytes(s) == s.query + Total([i \in DOMAIN s.matches |-> MatchBytes(s.matches[i])])
Bytes(r) == 1 + r.tree + Total([i \in DOMAIN r.files |-> PageBytes(r.files[i])])
                       + Total([i \in DOMAIN r.searches |-> SearchBytes(r.searches[i])])

WithLast(s, element) == [s EXCEPT ![Len(s)] = element]

Blank(page) == [page EXCEPT !.content = <<>>, !.truncated = TRUE, !.next = page.start]
BlankOnly(page) == [page EXCEPT !.content = <<>>]
Emptied(page) == Blank(page)

ShrunkFiles(files) ==
  IF Last(files).content # <<>> THEN WithLast(files, Emptied(Last(files))) ELSE Front(files)

ShrunkMatches(matches) ==
  LET m == Last(matches)
  IN IF m.snippet THEN WithLast(matches, [m EXCEPT !.snippet = FALSE])
     ELSE IF m.line THEN WithLast(matches, [m EXCEPT !.line = FALSE])
     ELSE Front(matches)
ShrunkSearch(s) == [s EXCEPT !.matches = ShrunkMatches(@), !.cut = TRUE]

Shrunk(r) ==
  LET hit == {q \in DOMAIN r.searches : r.searches[q].matches # <<>>}
      less == CASE r.files # <<>> -> [r EXCEPT !.files = ShrunkFiles(@)]
                [] r.files = <<>> /\ hit # {} -> [r EXCEPT !.searches[Max(hit)] = ShrunkSearch(@)]
                [] r.files = <<>> /\ hit = {} /\ r.tree > 0 ->
                     [r EXCEPT !.tree = @ - 1, !.treeCut = TRUE]
                [] OTHER -> [r EXCEPT !.searches = Front(@)]
  IN [less EXCEPT !.truncated = TRUE]

IsEmpty(r) == r.files = <<>> /\ r.searches = <<>> /\ r.tree = 0

RECURSIVE Fitted(_, _)
Fitted(r, bytes) == CASE Bytes(r) <= bytes -> r
                      [] Bytes(r) > bytes /\ IsEmpty(r) -> None
                      [] OTHER -> Fitted(Shrunk(r), bytes)
RECURSIVE FittedSearch(_, _)
FittedSearch(s, bytes) == CASE SearchBytes(s) <= bytes -> s
                            [] SearchBytes(s) > bytes /\ s.matches = <<>> -> None
                            [] OTHER -> FittedSearch(ShrunkSearch(s), bytes)

(***************************************************************************)
(* The requests.                                                           *)
(***************************************************************************)
Truncated(s) == \E i \in DOMAIN s : s[i].truncated

Serve(request, response) ==
  /\ asked = None /\ calls < MaxCalls /\ calls' = calls + 1
  /\ asked' = [paths |-> request.paths, perFile |-> request.perFile, bytes |-> request.bytes,
               found |-> response]
  /\ answer' = Fitted(response, request.bytes) /\ answer' # None
  /\ UNCHANGED <<text, edits, client>>

\* the files that the client continues with the same line
Paths == {p \in UNION {[1..n -> File] : n \in 1..Cardinality(File)} :
            \A i, j \in DOMAIN p : (p[i] = p[j] => i = j) /\ next[p[i]] = next[p[j]]}

ReadFiles ==
  \E paths \in Paths, max \in 1..MaxLines, perFile, bytes \in Budget :
    LET files == [i \in DOMAIN paths |-> ReadFile(paths[i], next[paths[i]], max, perFile)]
    IN Serve([paths |-> paths, perFile |-> perFile, bytes |-> bytes],
             [Nothing EXCEPT !.files = files, !.truncated = Truncated(files)])

\* what ripgrep finds for a query, file by file; the files may have changed since
Hit == [path : File, no : 1..MaxLines]
Hits == {h \in UNION {[1..n -> Hit] : n \in 0..2} :
           Len(h) = 2 => h[1].path # h[2].path \/ h[1].no < h[2].no}
Results == {q \in [1..2 -> Hits] : Len(q[1]) + Len(q[2]) <= 2}

\* each hit is a match with its line and, unless the file is gone, a snippet;
\* the output of ripgrep, a line or a snippet may have been clipped
Search(query, hits, limit, clipped, bytes) ==
  LET match(h) == [hit |-> h, line |-> TRUE, snippet |-> text[h.path] # None]
      n == Min({limit, Len(hits)})
  IN FittedSearch([query |-> query, matches |-> [i \in 1..n |-> match(hits[i])],
                   cut |-> n = limit \/ clipped], bytes)

\* inspect reads the files with a match, around the first one
FirstHits(hits, limit) ==
  LET first == {i \in DOMAIN hits : \A j \in 1..(i - 1) : hits[j].path # hits[i].path}
  IN [i \in 1..Min({limit, Cardinality(first)}) |->
        hits[Max({k \in first : Cardinality(first \cap (1..k)) <= i})]]

\* a search that does not fit even when it is empty makes the request fail
\* (searches, tree and files have one limit here; query q is q bytes long)
Inspect ==
  /\ calls < MaxInspects
  /\ \E results \in Results, clipped \in BOOLEAN, tree \in 0..1, limit \in 1..2,
        context \in 0..1, perFile, bytes \in Budget :
       LET searches == [q \in 1..2 |-> Search(q, results[q], limit, clipped, bytes)]
           hits(q) == [i \in DOMAIN searches[q].matches |-> searches[q].matches[i].hit]
           related == FirstHits(hits(1) \o hits(2), limit)
           files == [i \in DOMAIN related |->
                       ReadFile(related[i].path, Max({1, related[i].no - context}),
                                MaxLines, perFile)]
       IN /\ \A q \in 1..2 : searches[q] # None
          /\ Serve([paths |-> <<>>, perFile |-> perFile, bytes |-> bytes],
                   [files |-> files, searches |-> searches, tree |-> tree,
                    treeCut |-> tree = limit,
                    truncated |-> \/ tree = limit \/ Truncated(files)
                                  \/ \E q \in 1..2 : searches[q].cut])

(***************************************************************************)
(* The client follows next_start_line, and starts again with another       *)
(* version of a file.                                                      *)
(***************************************************************************)
Useful == {i \in DOMAIN answer.files :
             LET p == answer.files[i]
             IN p.path \notin done /\ p.sha # None /\ p.start = next[p.path]}
Fits(p) == p.start = 1 \/ p.sha = sha[p.path]
PageOf(f) == answer.files[CHOOSE i \in Useful : answer.files[i].path = f]

Send ==
  /\ asked # None
  /\ LET got == {answer.files[i].path : i \in Useful}
         fit == {f \in got : Fits(PageOf(f))}
     IN /\ lines' = [f \in File |-> IF f \in fit THEN lines[f] \o PageOf(f).content
                                    ELSE IF f \in got THEN <<>> ELSE lines[f]]
        /\ next' = [f \in File |-> IF f \in got \ fit THEN 1
                                   ELSE IF f \in fit /\ PageOf(f).truncated THEN PageOf(f).next
                                   ELSE next[f]]
        /\ sha' = [f \in File |-> IF f \in fit THEN PageOf(f).sha ELSE sha[f]]
        /\ done' = done \cup {f \in fit : ~PageOf(f).truncated}
  /\ asked' = None /\ answer' = Nothing
  /\ UNCHANGED <<text, edits, calls>>

\* a command rewrites or deletes a file
Edit ==
  /\ asked = None
  /\ \E f \in File, new \in Text \cup {None} :
       /\ MapThenSumSet(LAMBDA g : edits[g], File) < MaxEdits /\ new # text[f]
       /\ text' = [text EXCEPT ![f] = new] /\ edits' = [edits EXCEPT ![f] = @ + 1]
  /\ UNCHANGED <<asked, answer, client, calls>>

Next == ReadFiles \/ Inspect \/ Send \/ Edit

Spec == Init /\ [][Next]_vars

(***************************************************************************)
(* What must hold.                                                         *)
(***************************************************************************)
\* README.md, reading: a client that continues with next_start_line has, of the
\* version it reads, the lines from the first on, each once and under its own
\* number, whatever budgets it asked with and whatever was cut; and if the
\* file was not said to be truncated, it has all of it.
PagesAreTheFile ==
  \A f \in File : sha[f] = edits[f] /\ text[f] # None =>
    /\ lines[f] = Numbered(SubSeq(text[f], 1, Len(lines[f])), 1)
    /\ IF f \in done THEN Len(lines[f]) = Len(text[f]) ELSE next[f] = Len(lines[f]) + 1

\* README.md, reading: a retry with a budget that holds the line gets on, as long
\* as the budget of the response holds a whole page of that size.
Line(f) == text[f][next[f]]
RoomFor(f) ==
  /\ next[f] <= Len(text[f]) => Line(f) <= asked.perFile
  /\ 2 + 2 * asked.perFile <= asked.bytes
RetryAdvances ==
  [][\A f \in File : asked # None /\ asked'= None /\ asked.paths = <<f>> /\ text[f] # None =>
       (RoomFor(f) => next'[f] # next[f] \/ f \in done')]_vars

\* Whatever is left out to fit the budget is the end of something, is left out
\* because the response was too large, and is flagged where a client looks for
\* it: an emptied file says where to go on, and a shortened list says so itself.
LossIsFlagged ==
  LET found == asked.found IN
  asked # None =>
    /\ Bytes(answer) <= asked.bytes
    /\ answer # found => Bytes(found) > asked.bytes /\ answer.truncated
    /\ \A i \in DOMAIN answer.files :
         LET p == answer.files[i]
         IN p # found.files[i] => p.content = <<>> /\ p.truncated /\ p.next = p.start
    /\ answer.tree < found.tree => answer.treeCut
    /\ \A q \in DOMAIN answer.searches :
         LET s == answer.searches[q]  all == found.searches[q].matches
         IN /\ s.matches # all => s.cut
            /\ \A i \in DOMAIN s.matches : s.matches[i].hit = all[i].hit
=============================================================================
