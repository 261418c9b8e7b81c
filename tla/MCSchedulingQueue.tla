------------------------- MODULE MCSchedulingQueue -------------------------
(* TLC instance of SchedulingQueue: two stages of different priority.      *)
EXTENDS SchedulingQueue

CONSTANTS s1, s2
MCPriority == [s \in {s1, s2} |-> IF s = s1 THEN 1 ELSE 0]
=============================================================================
