----------------------------- MODULE ResultFile -----------------------------
(***************************************************************************)
(* What the instrument promises about its test results: a list that a      *)
(* result, once asked to be kept, joins as a whole or not at all, and that *)
(* only a delete empties.  ResultLog implements it on two files of a card. *)
(***************************************************************************)
EXTENDS Sequences, Integers

CONSTANTS Results, Clear, None, TOTAL_SIZE

VARIABLES kept,      \* the results that a later boot will find
          request    \* the result to be kept, Clear for a delete, or None

vars == <<kept, request>>

Init == kept = <<>> /\ request = None

AskKeep  == /\ request = None
            /\ Len(kept) < TOTAL_SIZE
            /\ request' \in Results
            /\ UNCHANGED kept
AskClear == request = None /\ request' = Clear /\ UNCHANGED kept

Done == /\ request # None
        /\ kept' = IF request = Clear THEN <<>> ELSE Append(kept, request)
        /\ request' = None

(* the power goes, or there is no card *)
Lost == request # None /\ request' = None /\ UNCHANGED kept

Next == AskKeep \/ AskClear \/ Done \/ Lost
Spec == Init /\ [][Next]_vars
=============================================================================
