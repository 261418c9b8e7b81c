--------------------------- MODULE DelayingQueue ---------------------------
(***************************************************************************)
(* The delaying and rate-limiting layers over WorkQueue: AddAfter and      *)
(* AddRateLimited hand an entry to the waitingLoop goroutine through a     *)
(* bounded channel, and the loop adds the key to the queue when its time   *)
(* has come (delaying_queue.go, rate_limiting_queue.go,                    *)
(* default_rate_limiters.go). The callers are the controllers' workers,    *)
(* which retry a failed sync with AddRateLimited before the deferred Done  *)
(* and Forget the key after a successful one. They stop the queue with     *)
(* ShutDown; nothing calls ShutDownWithDrain on it.                        *)
(*                                                                         *)
(* Time is a bounded counter. A sync only asks for another one while the   *)
(* delay still ends before Horizon, so no entry waits for a time that      *)
(* never comes.                                                            *)
(***************************************************************************)
EXTENDS WorkQueue, FiniteSets

CONSTANTS
  BaseDelay, MaxDelay,  \* of ItemExponentialFailureRateLimiter
  BucketDelays,         \* what BucketRateLimiter may ask for (external)
  RequeueDelays,        \* what a successful sync may ask for
  ChannelCap,           \* capacity of waitingForAddCh (1000 in the code)
  Horizon,              \* bound on the clock
  MaxFailures           \* bound on the failures of one key between two Forgets

ASSUME DelayingQueueAssumption ==
  /\ BaseDelay \in Nat /\ MaxDelay \in Nat
  /\ Horizon \in Nat /\ MaxFailures \in Nat
  /\ ChannelCap \in Nat \ {0}
  /\ BucketDelays \subseteq Nat /\ BucketDelays # {}
  /\ RequeueDelays \subseteq Nat

VARIABLES
  now,              \* the clock
  failures,         \* the item limiter's failure count of every key
  waitingForAddCh,  \* entries sent and not received by the loop
  waitingForQueue,  \* the loop's heap with waitingEntryByData: key -> readyAt
  loop,             \* where waitingLoop is
  loopNow,          \* the time it read at the top (0 once it is not read again)
  stopCh,           \* stopCh is closed
  adder,            \* what a worker's AddAfter is about to send, or NoEntry
  synced,           \* the worker reported the outcome of its sync
  owed              \* history: keys whose sync asked for another one not begun since

dvars == <<now, failures, waitingForAddCh, waitingForQueue, loop, loopNow,
           stopCh, adder, synced, owed>>
allvars == <<vars, dvars>>

NoEntry == [data |-> NoItem, readyAt |-> 0]
LoopPC == {"top", "ready", "select", "drain", "exit"}

MaxOf(S) == CHOOSE x \in S : \A y \in S : y <= x
MinOf(S) == CHOOSE x \in S : \A y \in S : x <= y

\* ItemExponentialFailureRateLimiter.When, capped at maxDelay, and the larger
\* of it and the bucket's answer (MaxOfRateLimiter.When).
When(i, bucket) ==
  MaxOf({MinOf({BaseDelay * 2^failures[i], MaxDelay}), bucket})

InChannel(i) == \E n \in 1..Len(waitingForAddCh) : waitingForAddCh[n].data = i

----------------------------------------------------------------------------
DInit ==
  /\ Init
  /\ now = 0
  /\ failures = [i \in Items |-> 0]
  /\ waitingForAddCh = <<>>
  /\ waitingForQueue = [i \in {} |-> 0]
  /\ loop = "top"
  /\ loopNow = 0
  /\ stopCh = FALSE
  /\ adder = [w \in Workers |-> NoEntry]
  /\ synced = [w \in Workers |-> FALSE]
  /\ owed = {}

Tick ==
  /\ now < Horizon
  /\ now' = now + 1
  /\ UNCHANGED <<vars, failures, waitingForAddCh, waitingForQueue, loop,
                 loopNow, stopCh, adder, synced, owed>>

(* AddAfter returns at once when the queue is shutting down and adds at    *)
(* once when the delay is not positive; else it sends an entry.            *)
AddAfter(w, delay) ==
  /\ now + delay <= Horizon
  /\ \/ /\ shuttingDown
        /\ UNCHANGED <<vars, adder, owed>>
     \/ /\ ~shuttingDown /\ delay = 0
        /\ IF work[w] \in dirty THEN UNCHANGED vars ELSE Add(work[w])
        /\ owed' = owed \cup {work[w]}
        /\ UNCHANGED adder
     \/ /\ ~shuttingDown /\ delay > 0
        /\ adder' = [adder EXCEPT ![w] = [data |-> work[w], readyAt |-> now + delay]]
        /\ owed' = owed \cup {work[w]}
        /\ UNCHANGED vars

\* The worker has synced its key and reports the outcome.
Reports(w, count) ==
  /\ pc[w] = "work" /\ ~synced[w]
  /\ failures' = [failures EXCEPT ![work[w]] = count]
  /\ synced' = [synced EXCEPT ![w] = TRUE]
  /\ UNCHANGED <<now, waitingForAddCh, waitingForQueue, loop, loopNow, stopCh>>

(* The sync failed: AddRateLimited.                                        *)
AddRateLimited(w) ==
  /\ Reports(w, failures[work[w]] + 1)
  /\ failures[work[w]] < MaxFailures
  /\ \E bucket \in BucketDelays : AddAfter(w, When(work[w], bucket))

(* The sync succeeded: Forget.                                             *)
Forget(w) ==
  /\ Reports(w, 0)
  /\ UNCHANGED <<vars, adder, owed>>

(* The sync found nothing to do, the object being gone: no call at all.    *)
SyncEnds(w) ==
  /\ Reports(w, failures[work[w]])
  /\ UNCHANGED <<vars, adder, owed>>

(* The cron trigger's sync succeeded and asks for its next turn: Forget    *)
(* and AddAfter.                                                           *)
ForgetAndAddAfter(w) ==
  /\ Reports(w, 0)
  /\ \E delay \in RequeueDelays : AddAfter(w, delay)

\* The select of AddAfter: blocks while the channel is full, unless stopCh is
\* closed, in which case either ready branch may be taken.
SendIgnoresStop_mutant(w) ==
  /\ adder[w] # NoEntry
  /\ Len(waitingForAddCh) < ChannelCap
  /\ waitingForAddCh' = Append(waitingForAddCh, adder[w])
  /\ adder' = [adder EXCEPT ![w] = NoEntry]
  /\ UNCHANGED <<vars, now, failures, waitingForQueue, loop, loopNow, stopCh,
                 synced, owed>>

SendWaitFor(w) ==
  /\ adder[w] # NoEntry
  /\ \/ /\ Len(waitingForAddCh) < ChannelCap
        /\ waitingForAddCh' = Append(waitingForAddCh, adder[w])
     \/ stopCh /\ UNCHANGED waitingForAddCh
  /\ adder' = [adder EXCEPT ![w] = NoEntry]
  /\ UNCHANGED <<vars, now, failures, waitingForQueue, loop, loopNow, stopCh,
                 synced, owed>>

\* The deferred Done runs when the sync and its AddRateLimited have returned.
DDone(w) ==
  /\ synced[w] /\ adder[w] = NoEntry
  /\ Done(w)
  /\ synced' = [synced EXCEPT ![w] = FALSE]
  /\ UNCHANGED <<now, failures, waitingForAddCh, waitingForQueue, loop,
                 loopNow, stopCh, adder, owed>>

DGet(w) ==
  /\ Get(w)
  /\ owed' = owed \ {work'[w]}
  /\ UNCHANGED <<now, failures, waitingForAddCh, waitingForQueue, loop,
                 loopNow, stopCh, adder, synced>>

DAdd(i) == Add(i) /\ UNCHANGED dvars

\* delayingType.ShutDown: the queue's ShutDown first, then close(stopCh).
DShutDown(c) == (SetDrain(c) \/ Shutdown(c)) /\ UNCHANGED dvars

CloseStopCh ==
  /\ ~stopCh
  /\ \E s \in Stoppers : pc[s] = "returned"
  /\ stopCh' = TRUE
  /\ UNCHANGED <<vars, now, failures, waitingForAddCh, waitingForQueue, loop,
                 loopNow, adder, synced, owed>>

----------------------------------------------------------------------------
(* waitingLoop *)

\* q.Add as the loop calls it: nothing happens when the queue refuses the key.
LoopAdd(i) == IF shuttingDown \/ i \in dirty THEN UNCHANGED vars ELSE Add(i)

Without(f, i) == [j \in DOMAIN f \ {i} |-> f[j]]

\* insert: an entry the key already has only moves to an earlier time.
Insert(entry) ==
  waitingForQueue' = [i \in DOMAIN waitingForQueue \cup {entry.data} |->
    IF i # entry.data THEN waitingForQueue[i]
    ELSE IF i \in DOMAIN waitingForQueue
         THEN MinOf({waitingForQueue[i], entry.readyAt})
         ELSE entry.readyAt]

LoopTop ==
  /\ loop = "top"
  /\ loop' = IF shuttingDown THEN "exit" ELSE "ready"
  /\ loopNow' = IF shuttingDown THEN loopNow ELSE now
  /\ UNCHANGED <<vars, now, failures, waitingForAddCh, waitingForQueue,
                 stopCh, adder, synced, owed>>

\* Pop the head of the heap while its time is not after loopNow.
Heads == {i \in DOMAIN waitingForQueue :
            \A j \in DOMAIN waitingForQueue : waitingForQueue[i] <= waitingForQueue[j]}

LoopAddReady ==
  /\ loop = "ready"
  /\ \E i \in Heads :
       /\ waitingForQueue[i] <= loopNow
       /\ LoopAdd(i)
       /\ waitingForQueue' = Without(waitingForQueue, i)
  /\ UNCHANGED <<now, failures, waitingForAddCh, loop, loopNow, stopCh, adder,
                 synced, owed>>

LoopNoneReady ==
  /\ loop = "ready"
  /\ \A i \in Heads : waitingForQueue[i] > loopNow
  /\ loop' = "select"
  /\ loopNow' = 0
  /\ UNCHANGED <<vars, now, failures, waitingForAddCh, waitingForQueue,
                 stopCh, adder, synced, owed>>

\* The heartbeat, the timer of the first entry and stopCh end the select.
LoopWakeNoTimer_mutant ==
  /\ loop = "select"
  /\ stopCh /\ loop' = "exit"
  /\ UNCHANGED <<vars, now, failures, waitingForAddCh, waitingForQueue,
                 loopNow, stopCh, adder, synced, owed>>

LoopWake ==
  /\ loop = "select"
  /\ \/ stopCh /\ loop' = "exit"
     \/ loop' = "top"                                   \* heartbeat
     \/ /\ \E i \in Heads : waitingForQueue[i] <= now   \* nextReadyAt
        /\ loop' = "top"
  /\ UNCHANGED <<vars, now, failures, waitingForAddCh, waitingForQueue,
                 loopNow, stopCh, adder, synced, owed>>

LoopReceiveIgnoresDue_mutant ==
  /\ loop \in {"select", "drain"}
  /\ waitingForAddCh # <<>>
  /\ LET entry == Head(waitingForAddCh)
     IN IF entry.readyAt > now THEN Insert(entry) ELSE UNCHANGED waitingForQueue
  /\ UNCHANGED vars
  /\ waitingForAddCh' = Tail(waitingForAddCh)
  /\ loop' = "drain"
  /\ UNCHANGED <<now, failures, loopNow, stopCh, adder, synced, owed>>

\* The receive of the select and of the drain loop that follows it.
LoopReceive ==
  /\ loop \in {"select", "drain"}
  /\ waitingForAddCh # <<>>
  /\ LET entry == Head(waitingForAddCh)
     IN \/ entry.readyAt > now /\ Insert(entry) /\ UNCHANGED vars
        \/ entry.readyAt <= now /\ LoopAdd(entry.data) /\ UNCHANGED waitingForQueue
  /\ waitingForAddCh' = Tail(waitingForAddCh)
  /\ loop' = "drain"
  /\ UNCHANGED <<now, failures, loopNow, stopCh, adder, synced, owed>>

LoopDrained ==
  /\ loop = "drain"
  /\ waitingForAddCh = <<>>
  /\ loop' = "top"
  /\ UNCHANGED <<vars, now, failures, waitingForAddCh, waitingForQueue,
                 loopNow, stopCh, adder, synced, owed>>

WaitingLoop ==
  LoopTop \/ LoopAddReady \/ LoopNoneReady \/ LoopWake \/ LoopReceive \/ LoopDrained

----------------------------------------------------------------------------
DNext ==
  \/ Tick
  \/ \E i \in Items : DAdd(i)
  \/ \E w \in Workers :
       \/ DGet(w) \/ DDone(w)
       \/ AddRateLimited(w) \/ Forget(w) \/ SyncEnds(w) \/ ForgetAndAddAfter(w)
       \/ SendWaitFor(w)
  \/ \E s \in Stoppers : DShutDown(s)
  \/ CloseStopCh
  \/ WaitingLoop

DSpec == DInit /\ [][DNext]_allvars

\* Goroutines that can run do run, and time passes. Go's select chooses at
\* random among the ready cases, so a receive that is ready again and again is
\* taken (SF); a blocked send is served in turn.
DFairness ==
  /\ WF_allvars(Tick)
  /\ \A w \in Workers : WF_allvars(DGet(w)) /\ WF_allvars(DDone(w))
  /\ \A w \in Workers :
       /\ WF_allvars(AddRateLimited(w) \/ Forget(w) \/ SyncEnds(w) \/ ForgetAndAddAfter(w))
       /\ SF_allvars(SendWaitFor(w))
  /\ \A s \in Stoppers : WF_allvars(DShutDown(s) /\ pc[s] = "down")
  /\ WF_allvars(CloseStopCh)
  /\ WF_allvars(WaitingLoop)
  /\ SF_allvars(LoopReceive)

DFairSpec == DSpec /\ DFairness

----------------------------------------------------------------------------
(* Properties *)

EntryType == [data : Items, readyAt : 0..Horizon]

\* Every variable keeps its type; the channel never exceeds its capacity and
\* the loop never works with a time from the future.
DTypeOK ==
  /\ TypeOK
  /\ now \in 0..Horizon /\ loopNow \in 0..now
  /\ failures \in [Items -> 0..MaxFailures]
  /\ waitingForAddCh \in Seq(EntryType) /\ Len(waitingForAddCh) <= ChannelCap
  /\ DOMAIN waitingForQueue \subseteq Items
  /\ \A i \in DOMAIN waitingForQueue : waitingForQueue[i] \in 0..Horizon
  /\ loop \in LoopPC
  /\ stopCh \in BOOLEAN /\ synced \in [Workers -> BOOLEAN]
  /\ adder \in [Workers -> EntryType \cup {NoEntry}]
  /\ owed \subseteq Items

\* The sync a worker asked for is always somewhere while the queue is open: in the
\* hands of AddAfter, in the channel, in the loop's heap or in the queue.
\* Merging two entries of a key and dropping the key's second Add lose none.
RetryIsSomewhere ==
  \A i \in owed :
    \/ shuttingDown
    \/ i \in dirty
    \/ i \in DOMAIN waitingForQueue
    \/ InChannel(i)
    \/ \E w \in Workers : adder[w].data = i

\* ... and every sync that was asked for, by a failed one or by the cron
\* trigger, happens, unless the queue shuts down.
FailedSyncIsRetried ==
  \A i \in Items : (i \in owed) ~> (i \notin owed \/ shuttingDown)

\* An entry is never moved to a later time: a key keeps the earliest of the
\* times it was asked for until it is added.
EntriesOnlyMoveEarlier ==
  [][\A i \in DOMAIN waitingForQueue :
       i \in DOMAIN waitingForQueue' => waitingForQueue'[i] <= waitingForQueue[i]]_allvars

\* ShutDown unblocks AddAfter: no worker stays in it for ever.
AddAfterReturns ==
  \A w \in Workers : (adder[w] # NoEntry) ~> (adder[w] = NoEntry)
=============================================================================
