--------------------------- MODULE ExclusiveWork ---------------------------
(***************************************************************************)
(* What a work queue promises its callers, without a queue, a lock or a    *)
(* condition variable: a set of keys that still need work, and for every   *)
(* worker the key it is working on, never the same key twice at a time.    *)
(* WorkQueue implements this specification.                                *)
(***************************************************************************)
CONSTANTS Items, Workers, NoItem

VARIABLES
  open,     \* new work is accepted
  pending,  \* the keys that were marked and not taken since
  busy      \* the key every worker is working on, or NoItem

vars == <<open, pending, busy>>

Init ==
  /\ open = TRUE
  /\ pending = {}
  /\ busy = [w \in Workers |-> NoItem]

Mark(i) ==
  /\ open
  /\ pending' = pending \cup {i}
  /\ UNCHANGED <<open, busy>>

Take(w, i) ==
  /\ busy[w] = NoItem
  /\ i \in pending
  /\ \A v \in Workers : busy[v] # i
  /\ pending' = pending \ {i}
  /\ busy' = [busy EXCEPT ![w] = i]
  /\ UNCHANGED open

Finish(w) ==
  /\ busy[w] # NoItem
  /\ busy' = [busy EXCEPT ![w] = NoItem]
  /\ UNCHANGED <<open, pending>>

Close ==
  /\ open' = FALSE
  /\ UNCHANGED <<pending, busy>>

Next ==
  \/ \E i \in Items : Mark(i)
  \/ \E w \in Workers, i \in Items : Take(w, i)
  \/ \E w \in Workers : Finish(w)
  \/ Close

Spec == Init /\ [][Next]_vars
=============================================================================
