--------------------------- MODULE MCOperationOutput ---------------------------
(***************************************************************************)
(* OperationOutput with a character of two bytes at the beginning of one   *)
(* stream and an escape sequence of two bytes at that of the other.        *)
(***************************************************************************)
EXTENDS OperationOutput

MCContinuing == [s \in Stream |-> {2}]
MCEscaped == [s \in Stream |-> IF s = stderr THEN {1, 2} ELSE {}]
=============================================================================
