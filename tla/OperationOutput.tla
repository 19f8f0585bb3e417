--------------------------- MODULE OperationOutput ---------------------------
(***************************************************************************)
(* The output of one command (workspace/operations.py): two readers        *)
(* (_drain_stream) empty the pipes of the command and append to its log    *)
(* files, up to a limit that both share, while a client pages through the  *)
(* files (logs).  Readers share the lock of the operation with _finish and *)
(* hold it while a thread writes progress.  Disks fill up, the command is  *)
(* killed, readers are cancelled when their grace period is over.          *)
(* A byte is the number of its position in the stream.  Bytes make units:  *)
(* characters of one or more bytes, and escape sequences.                  *)
(***************************************************************************)
EXTENDS Naturals, Sequences, FiniteSetsExt, SequencesExt

CONSTANTS stdout, stderr,    \* the two streams
          Limit,             \* max_output_bytes
          Pipe,              \* what a pipe and its StreamReader hold
          Continuing,        \* of each stream: the bytes that go on with the unit before
          Escaped,           \* of each stream: the bytes of escape sequences
          PlainOutput,       \* plain_output of the request
          Replaced,          \* what a client has of a byte that was decoded to U+FFFD ...
          Removed,           \* ... or that was stripped with an escape sequence
          MaxBytes           \* bound: bytes written in all

ASSUME OutputAssumption ==
  /\ stdout # stderr /\ Limit \in Nat /\ Pipe \in Nat \ {0} /\ MaxBytes \in Nat
  /\ PlainOutput \in BOOLEAN /\ Replaced # Removed /\ {Replaced, Removed} \cap Nat = {}
  /\ \A s \in {stdout, stderr} :
       Continuing[s] \subseteq Nat \ {0, 1} /\ Escaped[s] \subseteq Nat

Stream == {stdout, stderr}

VARIABLES
  child,      \* the processes of the command: running or gone
  goal,       \* how much each stream is to get
  written,    \* bytes written by them to each stream
  pipe,       \* what is in each pipe
  reader,     \* where the task of each reader stands
  chunk,      \* what it has read and not yet stored
  open,       \* its handle
  file,       \* the log files
  stored,     \* runtime.stored_bytes
  truncated,  \* ..._truncated of the record
  state,      \* of the record
  fetched,    \* what the client has of each byte that its pages covered
  eof,        \* what it was told about the end of each stream
  borders,    \* history: the offsets at which its pages began and ended
  failed      \* history: streams whose log could not be opened or written

log == <<open, file, stored, truncated, failed>>
client == <<fetched, eof, borders>>
vars == <<child, goal, written, pipe, reader, chunk, log, state, client>>

Init ==
  /\ child = "running" /\ state = "running" /\ stored = 0
  /\ goal \in [Stream -> 0..MaxBytes]
  /\ goal[stdout] + goal[stderr] <= MaxBytes
  /\ written = [s \in Stream |-> 0]
  /\ pipe = [s \in Stream |-> <<>>] /\ chunk = [s \in Stream |-> <<>>]
  /\ file = [s \in Stream |-> <<>>] /\ fetched = [s \in Stream |-> <<>>]
  /\ reader = [s \in Stream |-> "start"] /\ open = [s \in Stream |-> FALSE]
  /\ truncated = [s \in Stream |-> FALSE] /\ eof = [s \in Stream |-> FALSE]
  /\ failed = {} /\ borders = [s \in Stream |-> {0}]

Moves(s, place) == reader' = [reader EXCEPT ![s] = place]
Finished(s) == reader[s] \in {"done", "dead", "cancelled"}

\* runtime.lock: held across an await only while a reader writes progress
LockFree == \A s \in Stream : reader[s] # "saving"

(***************************************************************************)
(* The command.                                                            *)
(***************************************************************************)
\* it blocks while the pipe is full
Write(s) ==
  /\ child = "running" /\ written[s] < goal[s] /\ Len(pipe[s]) < Pipe
  /\ written' = [written EXCEPT ![s] = @ + 1]
  /\ pipe' = [pipe EXCEPT ![s] = Append(@, written[s] + 1)]
  /\ UNCHANGED <<child, goal, reader, chunk, log, state, client>>

\* by itself, or killed: canceled, at the deadline, at a shutdown
Exit ==
  /\ child = "running" /\ \A s \in Stream : written[s] = goal[s]
  /\ child' = "gone"
  /\ UNCHANGED <<goal, written, pipe, reader, chunk, log, state, client>>

Kill ==
  /\ child = "running" /\ child' = "gone"
  /\ UNCHANGED <<goal, written, pipe, reader, chunk, log, state, client>>

(***************************************************************************)
(* A reader.                                                               *)
(***************************************************************************)
\* the log is opened once; a reader without a log drains all the same
Open(s) ==
  /\ reader[s] = "start" /\ Moves(s, "read")
  /\ \E ok \in BOOLEAN : /\ open' = [open EXCEPT ![s] = ok]
                         /\ failed' = IF ok THEN failed ELSE failed \cup {s}
  /\ UNCHANGED <<child, goal, written, pipe, chunk, file, stored, truncated,
                 state, client>>

Read(s) ==
  /\ reader[s] = "read" /\ pipe[s] # <<>>
  /\ \E n \in 1..Len(pipe[s]) :
       /\ chunk' = [chunk EXCEPT ![s] = SubSeq(pipe[s], 1, n)]
       /\ pipe' = [pipe EXCEPT ![s] = SubSeq(@, n + 1, Len(@))]
  /\ Moves(s, "store")
  /\ UNCHANGED <<child, goal, written, log, state, client>>

ReadEnd(s) ==
  /\ reader[s] = "read" /\ pipe[s] = <<>> /\ child = "gone"
  /\ Moves(s, "done")
  /\ open' = [open EXCEPT ![s] = FALSE]
  /\ UNCHANGED <<child, goal, written, pipe, chunk, file, stored, truncated,
                 failed, state, client>>

\* the part of a chunk that both logs together still have room for
AcceptedPerStream(s) == SubSeq(chunk[s], 1, Min({Limit - Len(file[s]), Len(chunk[s])}))
Accepted(s) == SubSeq(chunk[s], 1, Min({Max({0, Limit - stored}), Len(chunk[s])}))

CutSilently(s) == FALSE
Cut(s) == Len(Accepted(s)) < Len(chunk[s])

\* the reader goes on, at the limit too, perhaps after a write of the record
StopsAtLimit(s) == IF Cut(s) THEN {"done"} ELSE {"read", "saving"}
GoesOn(s) == {"read", "saving"}

Drained(s) ==
  /\ reader[s] = "store" /\ LockFree
  /\ chunk' = [chunk EXCEPT ![s] = <<>>]
  /\ UNCHANGED <<child, goal, written, pipe, state, client>>

Store(s) ==
  /\ Drained(s)
  /\ IF open[s]
     THEN /\ file' = [file EXCEPT ![s] = @ \o Accepted(s)]
          /\ stored' = stored + Len(Accepted(s))
     ELSE UNCHANGED <<file, stored>>
  /\ truncated' = [truncated EXCEPT ![s] = @ \/ Cut(s) \/ ~open[s]]
  /\ \E place \in GoesOn(s) : Moves(s, place)
  /\ UNCHANGED <<open, failed>>

\* writing or flushing raises after some bytes; closing the handle may raise
\* again, which ends the reader
StoreFails(s) ==
  /\ Drained(s) /\ open[s] /\ Accepted(s) # <<>>
  /\ \E n \in 0..Len(Accepted(s)) :
       file' = [file EXCEPT ![s] = @ \o SubSeq(Accepted(s), 1, n)]
  /\ open' = [open EXCEPT ![s] = FALSE] /\ failed' = failed \cup {s}
  /\ \/ /\ truncated' = [truncated EXCEPT ![s] = TRUE]
        /\ \E place \in GoesOn(s) : Moves(s, place)
     \/ /\ Moves(s, "dead") /\ UNCHANGED truncated
  /\ UNCHANGED stored

\* the thread that writes the record has returned
Saved(s) ==
  /\ reader[s] = "saving" /\ Moves(s, "read")
  /\ UNCHANGED <<child, goal, written, pipe, chunk, log, state, client>>

(***************************************************************************)
(* The end.                                                                *)
(***************************************************************************)
Stop(readers) ==
  /\ reader' = [s \in Stream |-> IF s \in readers THEN "cancelled" ELSE reader[s]]
  /\ chunk' = [s \in Stream |-> <<>>] /\ open' = [s \in Stream |-> FALSE]
  /\ state' = "terminal"

\* readers that are not done within the grace period are cancelled, and _finish
\* takes the lock that they release
Finish ==
  /\ child = "gone" /\ state = "running"
  /\ Stop({s \in Stream : ~Finished(s)})
  /\ UNCHANGED <<child, goal, written, pipe, file, stored, truncated, failed, client>>

\* the gateway dies, and the job with it; the next one records "interrupted"
\* in the last record that was written
Restart ==
  /\ state = "running" /\ child' = "gone"
  /\ Stop(Stream)
  /\ truncated' \in [Stream -> BOOLEAN] /\ \A s \in Stream : truncated'[s] => truncated[s]
  /\ UNCHANGED <<goal, written, pipe, file, stored, failed, client>>

(***************************************************************************)
(* logs: a page from the offset that the last one returned.                *)
(***************************************************************************)
AtEnd(s, next) == next >= Len(file[s])
LogEnded(s, next) == state = "terminal" /\ next >= Len(file[s])

\* the offset is inside the unit that byte i belongs to
Splits(s, offset, i) ==
  IF offset < i THEN (offset + 1)..i \subseteq Continuing[s]
                ELSE (i + 1)..(offset + 1) \subseteq Continuing[s]

\* A page is decoded and stripped by itself: of a character that it holds only in
\* part nothing but replacement characters is left, of an escape sequence the
\* part stays in the text.
Decoded(s, first, last) ==
  [k \in 1..(last - first) |->
     LET i == first + k
         whole == ~Splits(s, first, i) /\ ~Splits(s, last, i)
     IN CASE i \in Escaped[s] /\ PlainOutput /\ whole -> Removed
          [] i \notin Escaped[s] /\ ~whole            -> Replaced
          [] OTHER                                    -> file[s][i]]

Poll(s) ==
  /\ ~eof[s]
  /\ \E n \in 1..Limit :
       LET offset == Len(fetched[s])
           next == Min({offset + n, Len(file[s])})
       IN /\ fetched' = [fetched EXCEPT ![s] = @ \o Decoded(s, offset, next)]
          /\ eof' = [eof EXCEPT ![s] = LogEnded(s, next)]
          /\ borders' = [borders EXCEPT ![s] = @ \cup {next}]
  /\ UNCHANGED <<child, goal, written, pipe, reader, chunk, log, state>>

Reader(s) == Open(s) \/ Read(s) \/ ReadEnd(s) \/ Saved(s) \/ Store(s) \/ StoreFails(s)

Next == \/ \E s \in Stream : Write(s) \/ Reader(s) \/ Poll(s)
        \/ Exit \/ Kill \/ Finish \/ Restart

\* The command writes what it has to when it can, the event loop runs the
\* readers and its lock, first in first out, passes over none of them; threads return.
Fairness ==
  /\ WF_vars(Exit)
  /\ \A s \in Stream : /\ WF_vars(Write(s))
                       /\ WF_vars(Open(s) \/ Read(s) \/ ReadEnd(s) \/ Saved(s))
                       /\ SF_vars(Store(s) \/ StoreFails(s))

Spec == Init /\ [][Next]_vars /\ Fairness

(***************************************************************************)
(* What must hold.                                                         *)
(***************************************************************************)
FirstBytes(n) == [i \in 1..n |-> i]
BytesStored == Len(file[stdout]) + Len(file[stderr])

\* The logs hold the beginning of what the command wrote, together no more than
\* the limit, and what is missing is accounted for: if a reader reached the
\* end of its stream, the log is complete unless it is marked as truncated, and
\* it is marked so only when the limit was used up or the log failed.
OutputIsAccounted ==
  /\ failed = {} => BytesStored = stored /\ stored <= Limit
  /\ \A s \in Stream :
       /\ file[s] = FirstBytes(Len(file[s]))
       /\ reader[s] = "done" =>
            /\ ~truncated[s] => Len(file[s]) = written[s]
            /\ truncated[s] => s \in failed \/ stored = Limit

Split(s, i) == \E offset \in borders[s] : Splits(s, offset, i)

\* The pages of a client that asks from the offset it was given cover the
\* beginning of the log without gap or repetition, and when it is told that this
\* was the end, all that the log will ever hold.  It has every byte of it in
\* its place; only a character that the border of a page cut is lost to it, and
\* only an escape sequence that no border cut is stripped.
PagesAreTheLog ==
  \A s \in Stream :
    /\ Len(fetched[s]) <= Len(file[s])
    /\ eof[s] => Len(fetched[s]) = Len(file[s])
    /\ \A i \in 1..Len(fetched[s]) :
         /\ fetched[s][i] \in {file[s][i], Replaced, Removed}
         /\ fetched[s][i] = Replaced <=> i \notin Escaped[s] /\ Split(s, i)
         /\ fetched[s][i] = Removed <=> i \in Escaped[s] /\ PlainOutput /\ ~Split(s, i)

\* PLAN.md 5.4 (line 306): logs are read on by offset.  That a client which does so
\* gets every character of the log is more than the code does.
EveryCharacterIsRead ==
  \A s \in Stream : \A i \in 1..Len(fetched[s]) : fetched[s][i] # Replaced

\* PLAN.md 6: a command is never blocked for ever by a full pipe, at the limit
\* and after a failed write neither, so it always gets to its end without the
\* help of its deadline.  The exception is a reader that died because closing
\* its log failed too.
NeverBlocks == <>(child = "gone" \/ \E s \in Stream : reader[s] = "dead")
=============================================================================
