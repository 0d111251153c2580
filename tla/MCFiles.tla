------------------------------ MODULE MCFiles ------------------------------
(* Files with two processes: one makes the writes a and b, the other c. *)
EXTENDS Files

CONSTANTS a, b, c

MCProcOf == [j \in {a, b, c} |-> IF j = c THEN 2 ELSE 1]
Symmetry == Permutations({a, b})
=============================================================================
