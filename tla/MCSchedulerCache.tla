-------------------------- MODULE MCSchedulerCache --------------------------
(* TLC instances of SchedulerCache. SameName gives a worker its UID as its *)
(* name; AgentName is what a worker agent registers, "worker-" + UID.      *)
EXTENDS SchedulerCache, TLC

CONSTANTS u1, u2, n1, n2
SameName == [u \in {u1, u2} |-> u]
AgentName == [u \in {u1, u2} |-> IF u = u1 THEN n1 ELSE n2]

StageSymmetry == Permutations(Stages)
=============================================================================
