-------------------------- MODULE OperationLedger --------------------------
(***************************************************************************)
(* What one gateway process promises to its clients about command          *)
(* operations, without threads, locks, files or tasks: a ledger of         *)
(* operations and the request each one answers.                            *)
(*                                                                         *)
(* It opens with the settled operations of earlier processes.  A request   *)
(* that has no operation gets a new one, running; an operation settles     *)
(* once; settled operations are retired, and only then is their request    *)
(* free again.  The ledger closes when the process ends.                   *)
(***************************************************************************)
CONSTANTS Op, Index, Settled, None

VARIABLES
  status,  \* "closed", "open", "over"
  state,   \* "absent", "running" or a member of Settled
  answer   \* the operation that answers a request, or None

ledger == <<status, state, answer>>

Init ==
  /\ status = "closed"
  /\ state = [o \in Op |-> "absent"]
  /\ answer = [i \in Index |-> None]

\* Every operation of the ledger answers exactly one request.
Consistent(st, an) ==
  /\ \A o \in Op : st[o] = "absent" <=> \A i \in Index : an[i] # o
  /\ \A i, j \in Index : an[i] = an[j] /\ an[i] # None => i = j

Open ==
  /\ status = "closed"
  /\ status' = "open"
  /\ state' \in [Op -> Settled \cup {"absent"}]
  /\ answer' \in [Index -> Op \cup {None}]
  /\ Consistent(state', answer')

\* Settled operations are retired, and at most one request is taken on.
Serve ==
  /\ status = "open"
  /\ \E retired \in SUBSET {o \in Op : state[o] \in Settled} :
       LET kept == [o \in Op |-> IF o \in retired THEN "absent" ELSE state[o]]
           free == [i \in Index |-> IF answer[i] \in retired THEN None ELSE answer[i]]
       IN
       \/ state' = kept /\ answer' = free
       \/ \E i \in Index, o \in Op :
            /\ free[i] = None
            /\ state[o] = "absent"
            /\ state' = [kept EXCEPT ![o] = "running"]
            /\ answer' = [free EXCEPT ![i] = o]
  /\ UNCHANGED status

Settle ==
  /\ status = "open"
  /\ \E o \in Op, s \in Settled :
       state[o] = "running" /\ state' = [state EXCEPT ![o] = s]
  /\ UNCHANGED <<status, answer>>

Close ==
  /\ status' = "over"
  /\ status # "over"
  /\ state' = [o \in Op |-> "absent"]
  /\ answer' = [i \in Index |-> None]

Next == Open \/ Serve \/ Settle \/ Close

Spec == Init /\ [][Next]_ledger
=============================================================================
