------------------------------ MODULE MCPrompts ------------------------------
(* Instances of Prompts for TLC: a node that knows the other, and not back. *)
EXTENDS Prompts

CONSTANTS n1, n2

OneWay == [n \in Nodes |-> IF n = n1 THEN {n2} ELSE {}]

OneRestarts == [n \in Nodes |-> IF n = n2 THEN 1 ELSE 0]

(* Sound for invariants: no definition tells one request from another.      *)
Interchangeable == Permutations(Requests)
=============================================================================
