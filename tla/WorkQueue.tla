----------------------------- MODULE WorkQueue -----------------------------
(***************************************************************************)
(* The de-duplicating work queue of pkg/util/workqueue/queue.go that every *)
(* controller and the worker agent take their keys from. Each section the  *)
(* code runs under q.cond.L is one action; everything between two such     *)
(* sections interleaves. q.cond is modelled as the set of goroutines       *)
(* asleep in Wait: Signal removes one of them, Broadcast all of them, and  *)
(* a goroutine that was removed still has to run its next locked section.  *)
(*                                                                         *)
(* The goroutines: Workers loop Get, sync, Done until Get reports the      *)
(* shutdown; Drainers call ShutDownWithDrain once; Stoppers call ShutDown  *)
(* once; anybody may call Add at any time.                                 *)
(***************************************************************************)
EXTENDS Naturals, Sequences

CONSTANTS
  Items,     \* the keys
  Workers,   \* goroutines that take keys
  Drainers,  \* goroutines that call ShutDownWithDrain
  Stoppers,  \* goroutines that call ShutDown
  NoItem     \* no key

ASSUME WorkQueueAssumption ==
  /\ Workers # {}
  /\ NoItem \notin Items
  /\ Workers \cap Drainers = {}
  /\ Workers \cap Stoppers = {}
  /\ Drainers \cap Stoppers = {}

VARIABLES
  queue,         \* the order in which keys are handed out
  dirty,         \* keys that need processing
  processing,    \* keys handed out and not Done
  shuttingDown,
  drain,
  waiting,       \* goroutines asleep in q.cond.Wait
  pc,            \* where each goroutine is
  work           \* the key a worker holds between Get and Done

qvars == <<queue, dirty, processing>>
vars == <<queue, dirty, processing, shuttingDown, drain, waiting, pc, work>>

Goroutines == Workers \cup Drainers \cup Stoppers

\* A worker is about to run Get's loop, holds a key, or saw the shutdown.
WorkerPC == {"get", "work", "exit"}

\* A shutdown caller: before setDrain, before shutdown(), and for a drainer
\* the three locked sections of its waiting loop.
CallerPC == {"start", "down", "isProcessing", "shouldDrain",
             "waitForProcessing", "returned"}

InQueue(i) == \E n \in 1..Len(queue) : queue[n] = i

----------------------------------------------------------------------------
(* sync.Cond *)

Signal ==
  \/ waiting = {} /\ waiting' = {}
  \/ \E g \in waiting : waiting' = waiting \ {g}

Broadcast == waiting' = {}

Wait(g) == waiting' = waiting \cup {g}

Awake(g) == g \notin waiting

Go(g, label) == pc' = [pc EXCEPT ![g] = label]

----------------------------------------------------------------------------
Init ==
  /\ queue = <<>>
  /\ dirty = {}
  /\ processing = {}
  /\ shuttingDown = FALSE
  /\ drain = FALSE
  /\ waiting = {}
  /\ pc = [g \in Goroutines |-> IF g \in Workers THEN "get" ELSE "start"]
  /\ work = [w \in Workers |-> NoItem]

(* Add: ignored while shutting down or when the key is already dirty; a    *)
(* key in processing is only marked, Done puts it back on the queue.       *)
AddWhileProcessing_mutant(i) ==
  /\ ~shuttingDown /\ i \notin dirty
  /\ dirty' = dirty \cup {i}
  /\ queue' = Append(queue, i)
  /\ Signal
  /\ UNCHANGED <<processing, shuttingDown, drain, pc, work>>

AddNoSignal_mutant(i) ==
  /\ ~shuttingDown /\ i \notin dirty
  /\ dirty' = dirty \cup {i}
  /\ IF i \in processing THEN UNCHANGED queue ELSE queue' = Append(queue, i)
  /\ UNCHANGED <<processing, shuttingDown, drain, waiting, pc, work>>

Add(i) ==
  /\ ~shuttingDown
  /\ i \notin dirty
  /\ dirty' = dirty \cup {i}
  /\ \/ i \in processing /\ UNCHANGED <<queue, waiting>>
     \/ i \notin processing /\ queue' = Append(queue, i) /\ Signal
  /\ UNCHANGED <<processing, shuttingDown, drain, pc, work>>

(* Get *)
GetWaits(w) ==
  /\ pc[w] = "get" /\ Awake(w)
  /\ queue = <<>> /\ ~shuttingDown
  /\ Wait(w)
  /\ UNCHANGED <<qvars, shuttingDown, drain, pc, work>>

GetShutdown(w) ==
  /\ pc[w] = "get" /\ Awake(w)
  /\ queue = <<>> /\ shuttingDown
  /\ Go(w, "exit")
  /\ UNCHANGED <<qvars, shuttingDown, drain, waiting, work>>

GetKeepsDirty_mutant(w) ==
  /\ pc[w] = "get" /\ Awake(w)
  /\ queue # <<>>
  /\ queue' = Tail(queue)
  /\ processing' = processing \cup {Head(queue)}
  /\ work' = [work EXCEPT ![w] = Head(queue)]
  /\ Go(w, "work")
  /\ UNCHANGED <<dirty, shuttingDown, drain, waiting>>

GetItem(w) ==
  /\ pc[w] = "get" /\ Awake(w)
  /\ queue # <<>>
  /\ queue' = Tail(queue)
  /\ processing' = processing \cup {Head(queue)}
  /\ dirty' = dirty \ {Head(queue)}
  /\ work' = [work EXCEPT ![w] = Head(queue)]
  /\ Go(w, "work")
  /\ UNCHANGED <<shuttingDown, drain, waiting>>

(* Done: a key that was marked while in processing goes back on the queue. *)
DoneForgetsDirty_mutant(w) ==
  /\ pc[w] = "work"
  /\ processing' = processing \ {work[w]}
  /\ UNCHANGED queue
  /\ Signal
  /\ work' = [work EXCEPT ![w] = NoItem]
  /\ Go(w, "get")
  /\ UNCHANGED <<dirty, shuttingDown, drain>>

Done(w) ==
  /\ pc[w] = "work"
  /\ processing' = processing \ {work[w]}
  /\ \/ work[w] \in dirty /\ queue' = Append(queue, work[w]) /\ Signal
     \/ work[w] \notin dirty /\ processing' = {} /\ Signal /\ UNCHANGED queue
     \/ work[w] \notin dirty /\ processing' # {} /\ UNCHANGED <<queue, waiting>>
  /\ work' = [work EXCEPT ![w] = NoItem]
  /\ Go(w, "get")
  /\ UNCHANGED <<dirty, shuttingDown, drain>>

----------------------------------------------------------------------------
(* ShutDown and ShutDownWithDrain both start with setDrain, then shutdown. *)
SetDrain(c) ==
  /\ pc[c] = "start"
  /\ drain' = (c \in Drainers)
  /\ Go(c, "down")
  /\ UNCHANGED <<qvars, shuttingDown, waiting, work>>

Shutdown(c) ==
  /\ pc[c] = "down"
  /\ shuttingDown' = TRUE
  /\ Broadcast
  /\ Go(c, IF c \in Drainers THEN "isProcessing" ELSE "returned")
  /\ UNCHANGED <<qvars, drain, work>>

(* for q.isProcessing() && q.shouldDrain() { q.waitForProcessing() }       *)
IsProcessing(d) ==
  /\ pc[d] = "isProcessing" /\ Awake(d)
  /\ Go(d, IF processing # {} THEN "shouldDrain" ELSE "returned")
  /\ UNCHANGED <<qvars, shuttingDown, drain, waiting, work>>

ShouldDrain(d) ==
  /\ pc[d] = "shouldDrain"
  /\ Go(d, IF drain THEN "waitForProcessing" ELSE "returned")
  /\ UNCHANGED <<qvars, shuttingDown, drain, waiting, work>>

\* waitForProcessing re-tests under the lock before it sleeps, so that a
\* Done between the two sections is not missed.
WaitForProcessingNoTest_mutant(d) ==
  /\ pc[d] = "waitForProcessing"
  /\ Wait(d)
  /\ Go(d, "isProcessing")
  /\ UNCHANGED <<qvars, shuttingDown, drain, work>>

WaitForProcessing(d) ==
  /\ pc[d] = "waitForProcessing"
  /\ \/ processing = {} /\ UNCHANGED waiting
     \/ processing # {} /\ Wait(d)
  /\ Go(d, "isProcessing")
  /\ UNCHANGED <<qvars, shuttingDown, drain, work>>

----------------------------------------------------------------------------
Get(w) == GetWaits(w) \/ GetShutdown(w) \/ GetItem(w)

Draining(d) == IsProcessing(d) \/ ShouldDrain(d) \/ WaitForProcessing(d)

Next ==
  \/ \E i \in Items : Add(i)
  \/ \E w \in Workers : Get(w)
  \/ \E w \in Workers : Done(w)
  \/ \E c \in Drainers \cup Stoppers : SetDrain(c)
  \/ \E c \in Drainers \cup Stoppers : Shutdown(c)
  \/ \E d \in Drainers : Draining(d)

Spec == Init /\ [][Next]_vars

\* The Go scheduler runs every runnable goroutine; a worker's sync returns
\* (Done is deferred). Nobody has to call Add or start a shutdown.
Fairness ==
  /\ \A w \in Workers : WF_vars(Get(w)) /\ WF_vars(Done(w))
  /\ \A c \in Drainers \cup Stoppers : WF_vars(Shutdown(c))
  /\ \A d \in Drainers : WF_vars(Draining(d))

FairSpec == Spec /\ Fairness

----------------------------------------------------------------------------
(* Properties *)

\* Every variable keeps its type: keys in the queue's fields, a program
\* counter and a key for every goroutine.
TypeOK ==
  /\ queue \in Seq(Items)
  /\ dirty \subseteq Items
  /\ processing \subseteq Items
  /\ shuttingDown \in BOOLEAN
  /\ drain \in BOOLEAN
  /\ waiting \subseteq Goroutines
  /\ pc \in [Goroutines -> WorkerPC \cup CallerPC]
  /\ work \in [Workers -> Items \cup {NoItem}]

\* The comment on Type.queue: every element of queue is dirty and not in
\* processing, and none is there twice.
QueueIsDirtyNotProcessing ==
  /\ \A n \in 1..Len(queue) : queue[n] \in dirty /\ queue[n] \notin processing
  /\ \A m, n \in 1..Len(queue) : queue[m] = queue[n] => m = n

\* The other direction, which makes Add's early returns safe: a dirty key is
\* on the queue or will be put there by the Done of the worker holding it.
DirtyIsReachable == \A i \in dirty : InQueue(i) \/ i \in processing

\* The processing set is what the workers hold, and no key is held twice:
\* two syncs of one object never overlap.
OneWorkerPerItem ==
  /\ \A i \in Items :
       i \in processing <=> \E w \in Workers : pc[w] = "work" /\ work[w] = i
  /\ \A v, w \in Workers :
       pc[v] = "work" /\ pc[w] = "work" /\ work[v] = work[w] => v = w

\* The queue's consistency as one invariant.
QueueConsistent ==
  QueueIsDirtyNotProcessing /\ DirtyIsReachable /\ OneWorkerPerItem

\* No lost wakeup, although workers and drainers sleep on one condition
\* variable and Signal wakes only one of them: while the queue holds a key
\* some worker is awake and has not exited.
WorkMeansAwakeWorker ==
  queue # <<>> => \E w \in Workers : Awake(w) /\ pc[w] # "exit"

\* What the proof of the two invariants above needs beside them: a worker
\* holds a key exactly while it is between Get and Done; only workers sleep
\* before the shutdown and only drainers after it; nobody exits before it.
GoroutinesConsistent ==
  /\ \A w \in Workers : pc[w] \in WorkerPC
  /\ \A c \in Drainers \cup Stoppers : pc[c] \in CallerPC
  /\ \A w \in Workers : pc[w] = "work" <=> work[w] # NoItem
  /\ \A w \in Workers : w \in waiting => pc[w] = "get" /\ ~shuttingDown
  /\ \A w \in Workers : pc[w] = "exit" => shuttingDown
  /\ \A c \in Drainers \cup Stoppers :
       c \in waiting \/ pc[c] \notin {"start", "down"} => shuttingDown

\* The inductive invariant.
IInv == TypeOK /\ QueueConsistent /\ WorkMeansAwakeWorker /\ GoroutinesConsistent

\* Every accepted key is handed to a worker, also when the queue is shut down
\* before that, and also when it was added while its sync was running.
EveryKeyIsTaken == \A i \in Items : (i \in dirty) ~> (i \notin dirty)

\* ShutDownWithDrain returns: its caller never sleeps through the last Done.
DrainReturns ==
  \A d \in Drainers : (pc[d] = "down") ~> (pc[d] = "returned")

\* The queue implements the abstract promise.
Abstract == INSTANCE ExclusiveWork WITH
  open <- ~shuttingDown,
  pending <- dirty,
  busy <- work

AbstractSpec == Abstract!Spec
=============================================================================
