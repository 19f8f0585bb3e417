------------------------- MODULE RegistryRefinement -------------------------
(***************************************************************************)
(* The registry of every gateway process implements the operation ledger.  *)
(* Requests of which the process has read several operations, left behind  *)
(* by overlapping processes or after an unreadable state file, stay out of *)
(* the ledger: its index can name only one of them.                        *)
(***************************************************************************)
EXTENDS OperationRegistry

\* Between the construction of the manager and the acquisition of the mutex
\* the process answers no request: its ledger is still closed.
Visible(g) == phase[g] \notin {"off", "loaded", "exited"}

StatusOf(g) == CASE phase[g] \in {"off", "loaded"} -> "closed"
                 [] Visible(g)                    -> "open"
                 [] OTHER                         -> "over"

Listed(g, o) == records[g][o] # "absent" /\ ident[o] \notin clashing[g]

StateOf(g) ==
  [o \in Op |-> IF Visible(g) /\ Listed(g, o) THEN records[g][o] ELSE "absent"]

AnswerOf(g) ==
  [i \in Index |-> IF Visible(g) /\ i \notin clashing[g] THEN index[g][i] ELSE None]

Ledger(g) == INSTANCE OperationLedger WITH
  Settled <- Terminal, status <- StatusOf(g), state <- StateOf(g),
  answer <- AnswerOf(g)

LedgerInit == \A g \in Gateway : Ledger(g)!Init

LedgerStep == \A g \in Gateway : [Ledger(g)!Next]_(Ledger(g)!ledger)

\* Every process keeps the promises of a ledger: a request is answered by one
\* operation, which settles once and is retired before it can be repeated.
\* This is \A g \in Gateway : Ledger(g)!Spec with the quantifier moved inside.
ImplementsLedger == LedgerInit /\ [][LedgerStep]_vars
=============================================================================
