------------------------------ MODULE MCPipeline ------------------------------
(* TLC instances of Pipeline: a node that joins two, and a chain of two. *)
EXTENDS Pipeline, TLC

CONSTANTS a, b, c
Join == [n \in {a, b, c} |-> IF n = c THEN {a, b} ELSE {}]
Chain == [n \in {a, b} |-> IF n = b THEN {a} ELSE {}]

ParentSymmetry == Permutations({a, b})
=============================================================================
