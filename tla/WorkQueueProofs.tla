-------------------------- MODULE WorkQueueProofs --------------------------
(***************************************************************************)
(* Proofs about the work queue and the delaying layer over it, for any     *)
(* sets of keys, workers and callers of the two shutdowns and any delays   *)
(* and bounds. Of WorkQueue: the type invariant, the consistency of queue, *)
(* dirty and processing, the absence of lost wakeups, and the refinement   *)
(* of ExclusiveWork, all from the inductive invariant IInv. Of             *)
(* DelayingQueue: it only does to the queue what WorkQueue's callers do,   *)
(* so that everything proved of WorkQueue holds of it; the sync a worker   *)
(* asked for is never lost between AddAfter, the channel, the heap and the *)
(* queue; an entry only moves to an earlier time.                          *)
(***************************************************************************)
EXTENDS Integers, DelayingQueue, TLAPS

\* Head and Tail of a queue of keys.
LEMMA HeadTail ==
  ASSUME NEW s \in Seq(Items), s # <<>>
  PROVE  /\ Len(s) \in Nat /\ Len(s) >= 1
         /\ Head(s) = s[1] /\ Head(s) \in Items
         /\ Tail(s) \in Seq(Items) /\ Len(Tail(s)) = Len(s) - 1
         /\ \A n \in 1..Len(Tail(s)) : Tail(s)[n] = s[n + 1]
  OBVIOUS

\* Appending a key.
LEMMA AppendProps ==
  ASSUME NEW s \in Seq(Items), NEW i \in Items
  PROVE  /\ Append(s, i) \in Seq(Items)
         /\ Append(s, i) # <<>>
         /\ Len(s) \in Nat
         /\ Len(Append(s, i)) = Len(s) + 1
         /\ \A n \in 1..Len(s) : Append(s, i)[n] = s[n]
         /\ Append(s, i)[Len(s) + 1] = i
  OBVIOUS

\* The types, and where each goroutine can be.
LEMMA InitIInv == Init => IInv
  <1> SUFFICES ASSUME Init PROVE IInv
    OBVIOUS
  <1>1. TypeOK
    <2>1. pc \in [Goroutines -> WorkerPC \cup CallerPC]
      BY DEF Init, WorkerPC, CallerPC
    <2>2. shuttingDown \in BOOLEAN /\ drain \in BOOLEAN
      BY DEF Init
    <2>3. work \in [Workers -> Items \cup {NoItem}]
      BY DEF Init
    <2>4. queue \in Seq(Items) /\ dirty \subseteq Items
          /\ processing \subseteq Items /\ waiting \subseteq Goroutines
      BY DEF Init
    <2> QED BY <2>1, <2>2, <2>3, <2>4 DEF TypeOK
  <1>2. QueueConsistent
    BY DEF Init, QueueConsistent, QueueIsDirtyNotProcessing, DirtyIsReachable,
           OneWorkerPerItem, Goroutines
  <1>3. WorkMeansAwakeWorker
    BY DEF Init, WorkMeansAwakeWorker
  <1>4. GoroutinesConsistent
    BY WorkQueueAssumption DEF Init, GoroutinesConsistent, Goroutines, WorkerPC, CallerPC
  <1> QED BY <1>1, <1>2, <1>3, <1>4 DEF IInv

\* What Signal may do to the sleepers.
LEMMA SignalWakes ==
  ASSUME Signal
  PROVE  /\ waiting' \subseteq waiting
         /\ waiting # {} => \E g \in waiting : waiting' = waiting \ {g}
  BY DEF Signal

\* Add: the key is queued unless a worker holds it, and a worker is woken.
LEMMA AddStep ==
  ASSUME IInv, NEW i \in Items, Add(i)
  PROVE  IInv'
  <1> USE DEF IInv
  <1>1. /\ waiting' \subseteq waiting
        /\ queue' = queue \/ queue' = Append(queue, i)
    BY SignalWakes DEF Add
  <1>2. TypeOK'
    BY <1>1, AppendProps DEF Add, TypeOK
  <1>3. QueueIsDirtyNotProcessing'
    <2>1. CASE i \in processing
      BY <2>1 DEF Add, QueueConsistent, QueueIsDirtyNotProcessing
    <2>2. CASE i \notin processing
      <3>1. /\ queue' = Append(queue, i) /\ dirty' = dirty \cup {i}
            /\ processing' = processing /\ i \notin dirty
            /\ queue \in Seq(Items)
        BY <2>2 DEF Add, TypeOK
      <3>2. \A n \in 1..Len(queue') :
              \/ n \in 1..Len(queue) /\ queue'[n] = queue[n] /\ queue[n] \in dirty
              \/ n = Len(queue) + 1 /\ queue'[n] = i
        BY <3>1, AppendProps DEF QueueConsistent, QueueIsDirtyNotProcessing
      <3> QED BY <2>2, <3>1, <3>2 DEF QueueConsistent, QueueIsDirtyNotProcessing
    <2> QED BY <2>1, <2>2
  <1>4. DirtyIsReachable'
    <2>1. CASE i \in processing
      BY <2>1 DEF Add, QueueConsistent, DirtyIsReachable, InQueue
    <2>2. CASE i \notin processing
      <3>1. queue' = Append(queue, i) /\ dirty' = dirty \cup {i}
        BY <2>2 DEF Add
      <3>2. InQueue(i)'
        BY <3>1, AppendProps DEF InQueue, TypeOK
      <3>3. ASSUME NEW j \in dirty, InQueue(j) PROVE InQueue(j)'
        BY <3>1, <3>3, AppendProps DEF InQueue, TypeOK
      <3> QED BY <3>1, <3>2, <3>3 DEF Add, QueueConsistent, DirtyIsReachable
    <2> QED BY <2>1, <2>2
  <1>5. OneWorkerPerItem'
    BY DEF Add, QueueConsistent, OneWorkerPerItem
  <1>6. GoroutinesConsistent'
    BY <1>1 DEF Add, GoroutinesConsistent
  <1>7. WorkMeansAwakeWorker'
    <2>1. CASE i \in processing
      BY <2>1 DEF Add, WorkMeansAwakeWorker, Awake
    <2>2. CASE i \notin processing
      <3>1. waiting \subseteq Workers
        BY DEF Add, GoroutinesConsistent, TypeOK, Goroutines
      <3>2. \A w \in Workers : pc'[w] # "exit"
        BY DEF Add, GoroutinesConsistent
      <3>3. \E w \in Workers : w \notin waiting'
        BY <2>2, <3>1, WorkQueueAssumption, SignalWakes DEF Add
      <3> QED BY <3>2, <3>3 DEF WorkMeansAwakeWorker, Awake
    <2> QED BY <2>1, <2>2
  <1> QED BY <1>2, <1>3, <1>4, <1>5, <1>6, <1>7 DEF QueueConsistent

\* Get finds the queue empty and sleeps, or sees the shutdown and returns.
LEMMA GetEmptyStep ==
  ASSUME IInv, NEW w \in Workers, GetWaits(w) \/ GetShutdown(w)
  PROVE  IInv'
  <1> USE DEF IInv
  <1>1. /\ queue' = queue /\ dirty' = dirty /\ processing' = processing
        /\ work' = work /\ shuttingDown' = shuttingDown /\ queue = <<>>
        /\ drain' = drain
        /\ pc[w] = "get"
    BY DEF GetWaits, GetShutdown, qvars
  <1>2. TypeOK'
    BY <1>1 DEF GetWaits, GetShutdown, Wait, Go, TypeOK, Goroutines, WorkerPC
  <1>3. \A v \in Workers : pc'[v] = "work" <=> pc[v] = "work"
    BY <1>1 DEF GetWaits, GetShutdown, Go, TypeOK, Goroutines
  <1>4. QueueConsistent'
    BY <1>1, <1>3 DEF QueueConsistent, QueueIsDirtyNotProcessing,
                      DirtyIsReachable, InQueue, OneWorkerPerItem
  <1>5. WorkMeansAwakeWorker'
    BY <1>1 DEF WorkMeansAwakeWorker
  <1>6. GoroutinesConsistent'
    <2>1. CASE GetWaits(w)
      BY <1>1, <2>1, WorkQueueAssumption DEF GetWaits, Wait, GoroutinesConsistent
    <2>2. CASE GetShutdown(w)
      BY <1>1, <2>2, WorkQueueAssumption
         DEF GetShutdown, Go, Awake, GoroutinesConsistent, TypeOK, Goroutines, WorkerPC
    <2> QED BY <2>1, <2>2
  <1> QED BY <1>2, <1>4, <1>5, <1>6

\* Get takes the head of the queue.
LEMMA GetItemStep ==
  ASSUME IInv, NEW w \in Workers, GetItem(w)
  PROVE  IInv'
  <1> USE DEF IInv
  <1> DEFINE i == Head(queue)
  <1>1. /\ queue # <<>> /\ pc[w] = "get" /\ w \notin waiting
        /\ queue' = Tail(queue)
        /\ processing' = processing \cup {i}
        /\ dirty' = dirty \ {i}
        /\ work' = [work EXCEPT ![w] = i]
        /\ pc' = [pc EXCEPT ![w] = "work"]
        /\ UNCHANGED <<shuttingDown, drain, waiting>>
    BY DEF GetItem, Go, Awake
  <1>2. /\ queue \in Seq(Items)
        /\ pc \in [Goroutines -> WorkerPC \cup CallerPC]
        /\ work \in [Workers -> Items \cup {NoItem}]
        /\ w \in Goroutines
    BY DEF TypeOK, Goroutines
  <1>3. /\ Len(queue) \in Nat /\ Len(queue) >= 1
        /\ i = queue[1] /\ i \in Items
        /\ queue' \in Seq(Items) /\ Len(queue') = Len(queue) - 1
        /\ \A n \in 1..Len(queue') : queue'[n] = queue[n + 1]
    BY <1>1, <1>2, HeadTail
  <1>4. i \in dirty /\ i \notin processing
    BY <1>3 DEF QueueConsistent, QueueIsDirtyNotProcessing
  <1> HIDE DEF i
  <1>5. TypeOK'
    BY <1>1, <1>3 DEF TypeOK, WorkerPC, Goroutines
  <1>6. QueueIsDirtyNotProcessing'
    <2>1. \A n \in 1..Len(queue') : n + 1 \in 1..Len(queue) /\ 1 \in 1..Len(queue)
      BY <1>3
    <2> QED BY <1>1, <1>3, <2>1 DEF QueueConsistent, QueueIsDirtyNotProcessing
  <1>7. DirtyIsReachable'
    <2> SUFFICES ASSUME NEW j \in dirty', j \notin processing'
                 PROVE  InQueue(j)'
      BY DEF DirtyIsReachable
    <2>1. j \in dirty /\ j # i /\ j \notin processing
      BY <1>1
    <2>2. PICK n \in 1..Len(queue) : queue[n] = j
      BY <2>1 DEF QueueConsistent, DirtyIsReachable, InQueue
    <2>3. n # 1 /\ n - 1 \in 1..Len(queue')
      BY <2>1, <2>2, <1>3
    <2>4. queue'[n - 1] = j
      BY <2>2, <2>3, <1>3
    <2> QED BY <2>3, <2>4 DEF InQueue
  <1>8. /\ \A v \in Workers : v # w => pc'[v] = pc[v] /\ work'[v] = work[v]
        /\ pc'[w] = "work" /\ work'[w] = i
    BY <1>1, <1>2 DEF Goroutines
  <1>9. OneWorkerPerItem'
    BY <1>1, <1>4, <1>8 DEF QueueConsistent, OneWorkerPerItem, TypeOK
  <1>10. GoroutinesConsistent'
    BY <1>1, <1>2, <1>3, <1>8, WorkQueueAssumption
       DEF GoroutinesConsistent, WorkerPC, CallerPC, Goroutines
  <1>11. WorkMeansAwakeWorker'
    BY <1>1, <1>8 DEF WorkMeansAwakeWorker, Awake
  <1> QED BY <1>5, <1>6, <1>7, <1>9, <1>10, <1>11 DEF QueueConsistent

\* Done hands a key that was marked meanwhile back to the queue.
LEMMA DoneStep ==
  ASSUME IInv, NEW w \in Workers, Done(w)
  PROVE  IInv'
  <1> USE DEF IInv
  <1> DEFINE i == work[w]
  <1>1. /\ pc[w] = "work"
        /\ processing' = processing \ {i}
        /\ work' = [work EXCEPT ![w] = NoItem]
        /\ pc' = [pc EXCEPT ![w] = "get"]
        /\ UNCHANGED <<dirty, shuttingDown, drain>>
        /\ waiting' \subseteq waiting
        /\ i \in dirty => queue' = Append(queue, i)
        /\ i \notin dirty => queue' = queue
    BY SignalWakes DEF Done, Go
  <1>2. /\ queue \in Seq(Items)
        /\ pc \in [Goroutines -> WorkerPC \cup CallerPC]
        /\ work \in [Workers -> Items \cup {NoItem}]
        /\ w \in Goroutines
    BY DEF TypeOK, Goroutines
  <1>3. i \in Items /\ i \in processing
    BY <1>1, <1>2 DEF GoroutinesConsistent, QueueConsistent, OneWorkerPerItem
  <1>4. /\ \A v \in Workers : v # w => pc'[v] = pc[v] /\ work'[v] = work[v]
        /\ pc'[w] = "get" /\ work'[w] = NoItem
        /\ w \notin waiting'
    BY <1>1, <1>2 DEF GoroutinesConsistent
  <1>5. ~InQueue(i)
    BY <1>3 DEF InQueue, QueueConsistent, QueueIsDirtyNotProcessing
  <1> HIDE DEF i
  <1>6. /\ Append(queue, i) \in Seq(Items)
        /\ Len(queue) \in Nat
        /\ Len(Append(queue, i)) = Len(queue) + 1
        /\ \A n \in 1..Len(queue) : Append(queue, i)[n] = queue[n]
        /\ Append(queue, i)[Len(queue) + 1] = i
    BY <1>2, <1>3, AppendProps
  <1>7. TypeOK'
    BY <1>1, <1>2, <1>6 DEF TypeOK, WorkerPC
  <1>8. QueueIsDirtyNotProcessing'
    <2>1. CASE i \in dirty
      <3>1. \A n \in 1..Len(queue') :
              \/ n \in 1..Len(queue) /\ queue'[n] = queue[n] /\ queue[n] # i
              \/ n = Len(queue) + 1 /\ queue'[n] = i
        BY <1>1, <1>5, <1>6, <2>1 DEF InQueue
      <3> QED BY <3>1, <2>1, <1>1, <1>6 DEF QueueConsistent, QueueIsDirtyNotProcessing
    <2>2. CASE i \notin dirty
      BY <2>2, <1>1 DEF QueueConsistent, QueueIsDirtyNotProcessing
    <2> QED BY <2>1, <2>2
  <1>9. DirtyIsReachable'
    <2> SUFFICES ASSUME NEW j \in dirty, j \notin processing'
                 PROVE  InQueue(j)'
      BY <1>1 DEF DirtyIsReachable
    <2>1. CASE j = i
      BY <2>1, <1>1, <1>6 DEF InQueue
    <2>2. CASE j # i
      <3>1. InQueue(j)
        BY <2>2, <1>1 DEF QueueConsistent, DirtyIsReachable
      <3> QED BY <3>1, <1>1, <1>6 DEF InQueue
    <2> QED BY <2>1, <2>2
  <1>10. OneWorkerPerItem'
    <2>1. \A v \in Workers : pc[v] = "work" /\ work[v] = i => v = w
      BY <1>1 DEF QueueConsistent, OneWorkerPerItem, i
    <2>3. \A v \in Workers : pc'[v] = "work" <=> pc[v] = "work" /\ v # w
      BY <1>4
    <2>4. ASSUME NEW j \in Items
          PROVE  j \in processing' <=> \E v \in Workers : pc'[v] = "work" /\ work'[v] = j
      <3>1. j \in processing <=> \E v \in Workers : pc[v] = "work" /\ work[v] = j
        BY DEF QueueConsistent, OneWorkerPerItem
      <3>2. CASE j = i
        BY <3>2, <1>1, <1>4, <2>1, <2>3
      <3>3. CASE j # i
        BY <3>1, <3>3, <1>1, <1>4, <2>3 DEF i
      <3> QED BY <3>2, <3>3
    <2>5. \A u, v \in Workers :
            pc'[u] = "work" /\ pc'[v] = "work" /\ work'[u] = work'[v] => u = v
      BY <1>4, <2>3 DEF QueueConsistent, OneWorkerPerItem
    <2> QED BY <2>4, <2>5 DEF OneWorkerPerItem
  <1>11. GoroutinesConsistent'
    BY <1>1, <1>2, <1>4, WorkQueueAssumption
       DEF GoroutinesConsistent, WorkerPC, CallerPC, Goroutines
  <1>12. WorkMeansAwakeWorker'
    BY <1>4 DEF WorkMeansAwakeWorker, Awake
  <1> QED BY <1>7, <1>8, <1>9, <1>10, <1>11, <1>12 DEF QueueConsistent

\* The shutdown callers leave the keys and the workers alone.
LEMMA CallerStep ==
  ASSUME IInv, NEW c \in Drainers \cup Stoppers,
         SetDrain(c) \/ Shutdown(c) \/ (c \in Drainers /\ Draining(c))
  PROVE  IInv'
  <1> USE DEF IInv
  <1>1. /\ queue' = queue /\ dirty' = dirty /\ processing' = processing
        /\ work' = work
        /\ \E label \in CallerPC : pc' = [pc EXCEPT ![c] = label]
    BY DEF SetDrain, Shutdown, Draining, IsProcessing, ShouldDrain,
           WaitForProcessing, Go, qvars, CallerPC
  <1>2. /\ pc \in [Goroutines -> WorkerPC \cup CallerPC]
        /\ c \in Goroutines /\ c \notin Workers
        /\ \A w \in Workers : w \in Goroutines
    BY WorkQueueAssumption DEF TypeOK, Goroutines
  <1>3. /\ pc' \in [Goroutines -> WorkerPC \cup CallerPC]
        /\ pc'[c] \in CallerPC
        /\ \A g \in Goroutines : g # c => pc'[g] = pc[g]
    BY <1>1, <1>2
  <1>4. \A w \in Workers : pc'[w] = pc[w]
    BY <1>2, <1>3
  <1>5. shuttingDown' \in BOOLEAN /\ drain' \in BOOLEAN
    <2>1. CASE SetDrain(c)
      <3>1. drain' = (c \in Drainers) /\ shuttingDown' = shuttingDown
        BY <2>1 DEF SetDrain
      <3>2. (c \in Drainers) \in BOOLEAN
        OBVIOUS
      <3> QED BY <3>1, <3>2, Zenon DEF TypeOK
    <2>2. CASE Shutdown(c)
      BY <2>2, Zenon DEF TypeOK, Shutdown
    <2>3. CASE Draining(c)
      BY <2>3 DEF TypeOK, Draining, IsProcessing, ShouldDrain, WaitForProcessing
    <2> QED BY <2>1, <2>2, <2>3
  <1>6. /\ waiting' \subseteq waiting \cup {c}
        /\ shuttingDown => shuttingDown'
        /\ c \in waiting' => shuttingDown'
        /\ pc'[c] \notin {"start", "down"} => shuttingDown'
        /\ shuttingDown' => shuttingDown \/ waiting' = {}
    <2>1. CASE SetDrain(c)
      BY <2>1, <1>2 DEF SetDrain, Go, TypeOK, GoroutinesConsistent
    <2>2. CASE Shutdown(c)
      BY <2>2 DEF Shutdown, Broadcast
    <2>3. CASE c \in Drainers /\ Draining(c)
      <3>1. shuttingDown /\ shuttingDown' = shuttingDown
        BY <2>3 DEF Draining, IsProcessing, ShouldDrain, WaitForProcessing,
                    GoroutinesConsistent
      <3>2. waiting' \subseteq waiting \cup {c}
        BY <2>3 DEF Draining, IsProcessing, ShouldDrain, WaitForProcessing, Wait
      <3> QED BY <3>1, <3>2
    <2> QED BY <2>1, <2>2, <2>3
  <1>7. TypeOK'
    BY <1>1, <1>2, <1>3, <1>5, <1>6 DEF TypeOK
  <1>8. QueueConsistent'
    BY <1>1, <1>4 DEF QueueConsistent, QueueIsDirtyNotProcessing,
                      DirtyIsReachable, InQueue, OneWorkerPerItem
  <1>9. WorkMeansAwakeWorker'
    BY <1>1, <1>2, <1>4, <1>6 DEF WorkMeansAwakeWorker, Awake
  <1>10. GoroutinesConsistent'
    <2>1. \A d \in Drainers \cup Stoppers : d \in Goroutines
      BY DEF Goroutines
    <2>2. \A w \in Workers :
            /\ pc'[w] \in WorkerPC
            /\ pc'[w] = "work" <=> work'[w] # NoItem
            /\ pc'[w] = "exit" => shuttingDown'
            /\ w \in waiting' => pc'[w] = "get" /\ ~shuttingDown'
      BY <1>1, <1>2, <1>4, <1>6 DEF GoroutinesConsistent
    <2>3. \A d \in Drainers \cup Stoppers :
            /\ pc'[d] \in CallerPC
            /\ d \in waiting' \/ pc'[d] \notin {"start", "down"} => shuttingDown'
      BY <1>3, <1>6, <2>1 DEF GoroutinesConsistent
    <2> QED BY <2>2, <2>3 DEF GoroutinesConsistent
  <1> QED BY <1>7, <1>8, <1>9, <1>10

\* IInv is inductive.
LEMMA NextIInv == IInv /\ [Next]_vars => IInv'
  <1> SUFFICES ASSUME IInv, [Next]_vars PROVE IInv'
    OBVIOUS
  <1>1. ASSUME NEW i \in Items, Add(i) PROVE IInv'
    BY <1>1, AddStep
  <1>2. ASSUME NEW w \in Workers, Get(w) PROVE IInv'
    BY <1>2, GetEmptyStep, GetItemStep DEF Get
  <1>3. ASSUME NEW w \in Workers, Done(w) PROVE IInv'
    BY <1>3, DoneStep
  <1>4. ASSUME NEW c \in Drainers \cup Stoppers,
               SetDrain(c) \/ Shutdown(c) \/ (c \in Drainers /\ Draining(c))
        PROVE  IInv'
    BY <1>4, CallerStep
  <1>5. ASSUME UNCHANGED vars PROVE IInv'
    BY <1>5 DEF vars, IInv, TypeOK, QueueConsistent, QueueIsDirtyNotProcessing,
                DirtyIsReachable, InQueue, OneWorkerPerItem,
                WorkMeansAwakeWorker, Awake, GoroutinesConsistent
  <1> QED BY <1>1, <1>2, <1>3, <1>4, <1>5 DEF Next

\* The inductive invariant holds in every reachable state.
LEMMA Invariance == Spec => []IInv
  BY InitIInv, NextIInv, PTL DEF Spec

\* Type correctness of the queue, for any number of keys and goroutines.
THEOREM TypeCorrect == Spec => []TypeOK
  <1>1. IInv => TypeOK
    BY DEF IInv
  <1> QED BY <1>1, Invariance, PTL

\* The comment on Type.queue holds, no dirty key is forgotten, and no two
\* workers ever hold the same key.
THEOREM Consistency == Spec => []QueueConsistent
  <1>1. IInv => QueueConsistent
    BY DEF IInv
  <1> QED BY <1>1, Invariance, PTL

\* No wakeup is lost: a queued key never finds all workers asleep or gone.
THEOREM NoLostWakeup == Spec => []WorkMeansAwakeWorker
  <1>1. IInv => WorkMeansAwakeWorker
    BY DEF IInv
  <1> QED BY <1>1, Invariance, PTL

\* Every step of the queue is a step of ExclusiveWork or changes nothing it
\* sees. Taking a key needs IInv: the head of the queue is pending, and no
\* worker is busy with it.
LEMMA StepSimulation == IInv /\ [Next]_vars => [Abstract!Next]_(Abstract!vars)
  <1> SUFFICES ASSUME IInv, [Next]_vars PROVE [Abstract!Next]_(Abstract!vars)
    OBVIOUS
  <1> USE DEF IInv
  <1>1. ASSUME NEW i \in Items, Add(i) PROVE Abstract!Mark(i)
    BY <1>1 DEF Add, Abstract!Mark
  <1>2. ASSUME NEW w \in Workers, GetItem(w)
        PROVE  \E i \in Items : Abstract!Take(w, i)
    <2>1. /\ queue \in Seq(Items) /\ queue # <<>>
          /\ pc[w] = "get"
      BY <1>2 DEF GetItem, TypeOK
    <2>2. /\ Head(queue) = queue[1] /\ 1 \in 1..Len(queue) /\ Head(queue) \in Items
      BY <2>1, HeadTail
    <2>3. Head(queue) \in dirty /\ Head(queue) \notin processing
      BY <2>2 DEF QueueConsistent, QueueIsDirtyNotProcessing
    <2>4. work[w] = NoItem
      BY <2>1 DEF GoroutinesConsistent
    <2>5. \A v \in Workers : work[v] # Head(queue)
      BY <2>2, <2>3, WorkQueueAssumption
         DEF GoroutinesConsistent, QueueConsistent, OneWorkerPerItem
    <2>6. Abstract!Take(w, Head(queue))
      BY <1>2, <2>3, <2>4, <2>5 DEF GetItem, Abstract!Take
    <2> QED BY <2>2, <2>6
  <1>3. ASSUME NEW w \in Workers, GetWaits(w) \/ GetShutdown(w)
        PROVE  UNCHANGED Abstract!vars
    BY <1>3 DEF GetWaits, GetShutdown, qvars, Abstract!vars
  <1>4. ASSUME NEW w \in Workers, Done(w) PROVE Abstract!Finish(w)
    BY <1>4 DEF Done, Abstract!Finish, GoroutinesConsistent
  <1>5. ASSUME NEW c \in Drainers \cup Stoppers, SetDrain(c) \/ Draining(c)
        PROVE  UNCHANGED Abstract!vars
    BY <1>5 DEF SetDrain, Draining, IsProcessing, ShouldDrain, WaitForProcessing,
                qvars, Abstract!vars
  <1>6. ASSUME NEW c \in Drainers \cup Stoppers, Shutdown(c) PROVE Abstract!Close
    BY <1>6 DEF Shutdown, qvars, Abstract!Close
  <1>7. ASSUME UNCHANGED vars PROVE UNCHANGED Abstract!vars
    BY <1>7 DEF vars, Abstract!vars
  <1> QED BY <1>1, <1>2, <1>3, <1>4, <1>5, <1>6, <1>7 DEF Next, Get, Abstract!Next

\* The work queue implements ExclusiveWork: however Add, Get, Done and the
\* shutdowns interleave, a key is taken only after it was marked and never
\* while another worker is busy with it.
THEOREM Refinement == Spec => AbstractSpec
  <1>1. Init => Abstract!Init
    BY DEF Init, Abstract!Init
  <1> QED
    BY <1>1, StepSimulation, Invariance, PTL DEF Spec, AbstractSpec, Abstract!Spec

----------------------------------------------------------------------------
(* The queue under the delaying layer *)

LEMMA LoopAddIsNext ==
  ASSUME NEW i \in Items, LoopAdd(i)
  PROVE  [Next]_vars
  BY DEF LoopAdd, Next

LEMMA AddAfterIsNext ==
  ASSUME NEW w \in Workers, work[w] \in Items, NEW delay, AddAfter(w, delay)
  PROVE  [Next]_vars
  BY DEF AddAfter, Next

\* A worker that has not reported yet holds a key.
LEMMA HoldsKey ==
  ASSUME IInv, NEW w \in Workers, pc[w] = "work"
  PROVE  work[w] \in Items
  BY DEF IInv, TypeOK, GoroutinesConsistent

\* The entries on their way have keys.
KeysOK ==
  /\ waitingForAddCh \in Seq(EntryType)
  /\ DOMAIN waitingForQueue \subseteq Items

LEMMA EveryStepIsNext == IInv /\ KeysOK /\ [DNext]_allvars => [Next]_vars
  <1> SUFFICES ASSUME IInv, KeysOK, [DNext]_allvars PROVE [Next]_vars
    OBVIOUS
  <1>1. CASE \E i \in Items : DAdd(i)
    BY <1>1 DEF DAdd, Next
  <1>2. CASE \E w \in Workers : DGet(w) \/ DDone(w)
    BY <1>2 DEF DGet, DDone, Next
  <1>3. CASE \E w \in Workers : AddRateLimited(w) \/ ForgetAndAddAfter(w)
    <2>1. PICK w \in Workers : AddRateLimited(w) \/ ForgetAndAddAfter(w)
      BY <1>3
    <2>2. work[w] \in Items
      BY <2>1, HoldsKey DEF AddRateLimited, ForgetAndAddAfter, Reports
    <2> QED BY <2>1, <2>2, AddAfterIsNext DEF AddRateLimited, ForgetAndAddAfter
  <1>4. CASE \E w \in Workers : Forget(w) \/ SyncEnds(w) \/ SendWaitFor(w)
    BY <1>4 DEF Forget, SyncEnds, SendWaitFor
  <1>5. CASE \E s \in Stoppers : DShutDown(s)
    BY <1>5 DEF DShutDown, Next
  <1>6. CASE Tick \/ CloseStopCh \/ LoopTop \/ LoopNoneReady \/ LoopWake \/ LoopDrained
    BY <1>6 DEF Tick, CloseStopCh, LoopTop, LoopNoneReady, LoopWake, LoopDrained
  <1>7. CASE LoopAddReady
    BY <1>7, LoopAddIsNext DEF LoopAddReady, Heads, KeysOK
  <1>8. CASE LoopReceive
    <2>1. Head(waitingForAddCh).data \in Items
      <3>1. Head(waitingForAddCh) \in EntryType
        BY <1>8 DEF LoopReceive, KeysOK
      <3> QED BY <3>1 DEF EntryType
    <2> QED BY <1>8, <2>1, LoopAddIsNext DEF LoopReceive
  <1>9. CASE UNCHANGED allvars
    BY <1>9 DEF allvars
  <1> QED BY <1>1, <1>2, <1>3, <1>4, <1>5, <1>6, <1>7, <1>8, <1>9 DEF DNext, WaitingLoop

----------------------------------------------------------------------------
(* The inductive invariant *)

LEMMA MaxMin ==
  ASSUME NEW a \in Int, NEW b \in Int
  PROVE  /\ MaxOf({a, b}) \in {a, b} /\ MaxOf({a, b}) >= a /\ MaxOf({a, b}) >= b
         /\ MinOf({a, b}) \in {a, b} /\ MinOf({a, b}) <= a /\ MinOf({a, b}) <= b
  <1>1. \E x \in {a, b} : \A y \in {a, b} : y <= x
    OBVIOUS
  <1>2. \E x \in {a, b} : \A y \in {a, b} : x <= y
    OBVIOUS
  <1>3. MaxOf({a, b}) \in {a, b} /\ \A y \in {a, b} : y <= MaxOf({a, b})
    BY <1>1 DEF MaxOf
  <1>4. MinOf({a, b}) \in {a, b} /\ \A y \in {a, b} : MinOf({a, b}) <= y
    BY <1>2 DEF MinOf
  <1> QED BY <1>3, <1>4

\* The delay is at least the bucket's, and so never negative.
LEMMA WhenIsNat ==
  ASSUME NEW i \in Items, failures[i] \in Nat, NEW bucket \in BucketDelays
  PROVE  When(i, bucket) \in Nat /\ When(i, bucket) >= bucket
  <1> DEFINE p == BaseDelay * 2^failures[i]
             q == MinOf({p, MaxDelay})
  <1>1. 2^failures[i] \in Int
    OBVIOUS
  <1>2. p \in Int /\ MaxDelay \in Int /\ bucket \in Nat
    BY <1>1, DelayingQueueAssumption
  <1>3. When(i, bucket) = MaxOf({q, bucket})
    BY DEF When
  <1> HIDE DEF p
  <1>4. q \in Int
    BY <1>2, MaxMin
  <1> HIDE DEF q
  <1>5. MaxOf({q, bucket}) \in {q, bucket} /\ MaxOf({q, bucket}) >= bucket
    BY <1>2, <1>4, MaxMin
  <1> QED BY <1>2, <1>3, <1>4, <1>5

\* stopCh is only closed once the queue shuts down.
StopInv == stopCh => shuttingDown

\* A worker is in AddAfter only after its sync.
SlotInv == \A w \in Workers : adder[w] # NoEntry => synced[w]

DTypes ==
  /\ now \in 0..Horizon /\ loopNow \in 0..now
  /\ failures \in [Items -> 0..MaxFailures]
  /\ waitingForAddCh \in Seq(EntryType) /\ Len(waitingForAddCh) <= ChannelCap
  /\ DOMAIN waitingForQueue \subseteq Items
  /\ \A i \in DOMAIN waitingForQueue : waitingForQueue[i] \in 0..Horizon
  /\ loop \in LoopPC
  /\ stopCh \in BOOLEAN /\ synced \in [Workers -> BOOLEAN]
  /\ adder \in [Workers -> EntryType \cup {NoEntry}]
  /\ owed \subseteq Items

DIInv == IInv /\ DTypes /\ StopInv /\ SlotInv /\ RetryIsSomewhere
LEMMA DInitIInv == DInit => DIInv
  <1> SUFFICES ASSUME DInit PROVE DIInv
    OBVIOUS
  <1>1. IInv
    BY InitIInv DEF DInit
  <1>2. DTypes
    <2>1. now \in 0..Horizon /\ loopNow \in 0..now /\ failures \in [Items -> 0..MaxFailures]
      BY DelayingQueueAssumption DEF DInit
    <2>2. waitingForAddCh \in Seq(EntryType) /\ Len(waitingForAddCh) <= ChannelCap
      BY DelayingQueueAssumption DEF DInit
    <2>3. DOMAIN waitingForQueue = {} /\ owed = {} /\ loop \in LoopPC
      BY DEF DInit, LoopPC
    <2>4. stopCh \in BOOLEAN /\ synced \in [Workers -> BOOLEAN]
      BY Zenon DEF DInit
    <2>5. adder \in [Workers -> EntryType \cup {NoEntry}]
      BY DEF DInit
    <2> QED BY <2>1, <2>2, <2>3, <2>4, <2>5 DEF DTypes
  <1>3. StopInv /\ SlotInv /\ RetryIsSomewhere
    BY DEF DInit, StopInv, SlotInv, RetryIsSomewhere
  <1> QED BY <1>1, <1>2, <1>3 DEF DIInv

\* The queue keeps what is dirty; the entries on their way stay there.
QueueKept == (shuttingDown => shuttingDown') /\ dirty \subseteq dirty'

LEMMA QuietKeepsRetry ==
  ASSUME RetryIsSomewhere, QueueKept,
         UNCHANGED <<waitingForAddCh, waitingForQueue, adder>>,
         \A i \in owed' : i \in owed \/ shuttingDown' \/ i \in dirty'
  PROVE  RetryIsSomewhere'
  BY DEF QueueKept, RetryIsSomewhere, InChannel

LEMMA AddKept ==
  ASSUME NEW i, Add(i)
  PROVE  QueueKept /\ i \in dirty'
  BY DEF Add, QueueKept

LEMMA LoopAddKept ==
  ASSUME NEW i, LoopAdd(i)
  PROVE  QueueKept /\ (shuttingDown' \/ i \in dirty')
  <1>1. CASE shuttingDown \/ i \in dirty
    BY <1>1 DEF LoopAdd, vars, QueueKept
  <1>2. CASE ~(shuttingDown \/ i \in dirty)
    BY <1>2, AddKept DEF LoopAdd
  <1> QED BY <1>1, <1>2

LEMMA VarsKept ==
  ASSUME UNCHANGED vars
  PROVE  QueueKept
  BY DEF vars, QueueKept

\* The properties a step must re-establish beside the queue's own.
DPart == DTypes' /\ StopInv' /\ SlotInv' /\ RetryIsSomewhere'

\* The callers of the queue that do not touch the delaying layer.
LEMMA PlainSteps ==
  ASSUME DIInv,
         \/ Tick \/ UNCHANGED allvars
         \/ \E i \in Items : DAdd(i)
         \/ \E s \in Stoppers : DShutDown(s)
  PROVE  DPart
  <1>1. /\ QueueKept
        /\ UNCHANGED <<failures, waitingForAddCh, waitingForQueue, loop, loopNow, stopCh,
                       adder, synced, owed>>
        /\ now' = now \/ (now < Horizon /\ now' = now + 1)
    <2>1. CASE Tick
      BY <2>1, VarsKept DEF Tick
    <2>2. CASE UNCHANGED allvars
      BY <2>2, VarsKept DEF allvars, dvars
    <2>3. CASE \E i \in Items : DAdd(i)
      BY <2>3, AddKept DEF DAdd, dvars
    <2>4. CASE \E s \in Stoppers : DShutDown(s)
      BY <2>4 DEF DShutDown, dvars, SetDrain, Shutdown, qvars, QueueKept
    <2> QED BY <2>1, <2>2, <2>3, <2>4
  <1>2. DTypes'
    BY <1>1, DelayingQueueAssumption DEF DIInv, DTypes
  <1>3. RetryIsSomewhere'
    BY <1>1, QuietKeepsRetry DEF DIInv
  <1>4. SlotInv'
    BY <1>1 DEF DIInv, SlotInv
  <1> QED BY <1>1, <1>2, <1>3, <1>4 DEF DPart, QueueKept, DIInv, StopInv

\* Get takes a key and with it what was owed to it; Done.
LEMMA GetDoneSteps ==
  ASSUME DIInv, NEW w \in Workers, DGet(w) \/ DDone(w)
  PROVE  DPart
  <1>1. /\ UNCHANGED <<now, failures, waitingForAddCh, waitingForQueue, loop, loopNow, stopCh, adder>>
        /\ owed' \subseteq owed
        /\ synced' = synced \/ synced' = [synced EXCEPT ![w] = FALSE]
    BY DEF DGet, DDone
  <1>2. shuttingDown' = shuttingDown
    BY DEF DGet, DDone, Get, GetWaits, GetShutdown, GetItem, Done
  <1>3. DTypes'
    <2>1. synced' \in [Workers -> BOOLEAN]
      <3>1. synced \in [Workers -> BOOLEAN]
        BY DEF DIInv, DTypes
      <3> QED BY <1>1, <3>1
    <2> QED BY <1>1, <2>1 DEF DIInv, DTypes
  <1>4. \A i \in owed' : i \in dirty => i \in dirty'
    <2>1. CASE DGet(w) /\ GetItem(w)
      <3>1. work \in [Workers -> Items \cup {NoItem}]
        BY DEF DIInv, IInv, TypeOK
      <3>2. work'[w] = Head(queue) /\ dirty' = dirty \ {Head(queue)} /\ owed' = owed \ {work'[w]}
        BY <2>1, <3>1 DEF DGet, GetItem
      <3> QED BY <3>2
    <2>2. CASE (DGet(w) /\ ~GetItem(w)) \/ DDone(w)
      BY <2>2 DEF DGet, Get, GetWaits, GetShutdown, DDone, Done, qvars
    <2> QED BY <2>1, <2>2
  <1>5. RetryIsSomewhere'
    BY <1>1, <1>2, <1>4 DEF DIInv, RetryIsSomewhere, InChannel
  <1>6. SlotInv'
    <2>1. synced \in [Workers -> BOOLEAN] /\ adder' = adder
      BY <1>1 DEF DIInv, DTypes
    <2>2. synced' = synced \/ adder[w] = NoEntry
      BY DEF DGet, DDone
    <2> QED BY <1>1, <2>1, <2>2 DEF DIInv, SlotInv
  <1> QED BY <1>1, <1>2, <1>3, <1>5, <1>6 DEF DPart, DIInv, StopInv

\* AddAfter hands its key to the queue or has it in its hands.
LEMMA AddAfterKeeps ==
  ASSUME DIInv, NEW w \in Workers, adder[w] = NoEntry, work[w] \in Items, NEW delay \in Nat, AddAfter(w, delay),
         UNCHANGED <<now, waitingForAddCh, waitingForQueue>>
  PROVE  /\ QueueKept /\ RetryIsSomewhere'
         /\ adder' \in [Workers -> EntryType \cup {NoEntry}] /\ owed' \subseteq Items
  <1>0. /\ adder \in [Workers -> EntryType \cup {NoEntry}] /\ owed \subseteq Items /\ now \in 0..Horizon
        /\ RetryIsSomewhere
    BY DEF DIInv, DTypes
  <1>1. CASE shuttingDown /\ UNCHANGED <<vars, adder, owed>>
    <2>1. QueueKept
      BY <1>1, VarsKept
    <2>2. RetryIsSomewhere'
      BY <1>0, <1>1, <2>1, QuietKeepsRetry
    <2> QED BY <1>0, <1>1, <2>1, <2>2
  <1>2. CASE /\ IF work[w] \in dirty THEN UNCHANGED vars ELSE Add(work[w])
             /\ owed' = owed \cup {work[w]}
             /\ UNCHANGED adder
    <2>1. QueueKept /\ work[w] \in dirty'
      <3>1. CASE work[w] \in dirty
        BY <1>2, <3>1, VarsKept DEF vars
      <3>2. CASE work[w] \notin dirty
        BY <1>2, <3>2, AddKept
      <3> QED BY <3>1, <3>2
    <2>2. RetryIsSomewhere'
      BY <1>0, <1>2, <2>1, QuietKeepsRetry
    <2> QED BY <1>0, <1>2, <2>1, <2>2
  <1>3. CASE /\ adder' = [adder EXCEPT ![w] = [data |-> work[w], readyAt |-> now + delay]]
             /\ owed' = owed \cup {work[w]}
             /\ UNCHANGED vars
    <2> DEFINE e == [data |-> work[w], readyAt |-> now + delay]
    <2>1. e \in EntryType /\ e.data = work[w]
      <3>1. now + delay \in 0..Horizon
        BY <1>0, DelayingQueueAssumption DEF AddAfter
      <3> QED BY <3>1 DEF EntryType
    <2> HIDE DEF e
    <2>2. adder' = [adder EXCEPT ![w] = e]
      BY <1>3 DEF e
    <2>3. adder' \in [Workers -> EntryType \cup {NoEntry}]
      BY <1>0, <2>1, <2>2
    <2>4. adder'[w].data = work[w] /\ \A v \in Workers \ {w} : adder'[v] = adder[v]
      BY <1>0, <2>1, <2>2
    <2>5. QueueKept
      BY <1>3, VarsKept
    <2>6. ASSUME NEW i \in owed' 
          PROVE  \/ shuttingDown' \/ i \in dirty' \/ i \in DOMAIN waitingForQueue'
                 \/ InChannel(i)' \/ \E v \in Workers : adder'[v].data = i
      <3>1. CASE i = work[w]
        BY <2>4, <3>1
      <3>2. CASE i # work[w]
        <4>1. i \in owed
          BY <1>3, <3>2
        <4>2. NoEntry.data \notin Items
          BY WorkQueueAssumption DEF NoEntry
        <4>3. \A v \in Workers : adder[v].data = i => v # w
          BY <1>0, <4>1, <4>2
        <4> QED BY <1>0, <2>4, <2>5, <4>1, <4>3 DEF RetryIsSomewhere, InChannel, QueueKept
      <3> QED BY <3>1, <3>2
    <2>7. RetryIsSomewhere'
      BY <2>6 DEF RetryIsSomewhere
    <2> QED BY <1>0, <1>3, <2>3, <2>5, <2>7
  <1> QED BY <1>1, <1>2, <1>3 DEF AddAfter
\* The outcome of a sync.
LEMMA ReportSteps ==
  ASSUME DIInv, NEW w \in Workers,
         AddRateLimited(w) \/ Forget(w) \/ SyncEnds(w) \/ ForgetAndAddAfter(w)
  PROVE  DPart
  <1>0. DTypes /\ SlotInv /\ StopInv /\ RetryIsSomewhere
    BY DEF DIInv
  <1>1. PICK count : Reports(w, count) /\ count \in 0..MaxFailures
    <2>1. work[w] \in Items
      BY HoldsKey DEF AddRateLimited, Forget, SyncEnds, ForgetAndAddAfter, Reports, DIInv
    <2>2. failures[work[w]] \in 0..MaxFailures
      BY <1>0, <2>1 DEF DTypes
    <2>3. CASE AddRateLimited(w)
      <3>1. failures[work[w]] + 1 \in 0..MaxFailures
        BY <2>2, <2>3, DelayingQueueAssumption DEF AddRateLimited
      <3> QED BY <2>3, <3>1 DEF AddRateLimited
    <2>4. CASE Forget(w) \/ ForgetAndAddAfter(w)
      BY <2>4, DelayingQueueAssumption DEF Forget, ForgetAndAddAfter
    <2>5. CASE SyncEnds(w)
      BY <2>2, <2>5 DEF SyncEnds
    <2> QED BY <2>3, <2>4, <2>5
  <1>2. /\ pc[w] = "work" /\ synced[w] = FALSE
        /\ failures' = [failures EXCEPT ![work[w]] = count]
        /\ synced' = [synced EXCEPT ![w] = TRUE]
        /\ UNCHANGED <<now, waitingForAddCh, waitingForQueue, loop, loopNow, stopCh>>
    BY <1>0, <1>1 DEF Reports, DTypes
  <1>3. work[w] \in Items /\ adder[w] = NoEntry
    BY <1>0, <1>2, HoldsKey DEF DIInv, SlotInv
  <1>4. /\ QueueKept /\ RetryIsSomewhere'
        /\ adder' \in [Workers -> EntryType \cup {NoEntry}] /\ owed' \subseteq Items
    <2>1. CASE Forget(w) \/ SyncEnds(w)
      <3>1. UNCHANGED <<vars, adder, owed>>
        BY <2>1 DEF Forget, SyncEnds
      <3>2. QueueKept
        BY <3>1, VarsKept
      <3>3. RetryIsSomewhere'
        BY <1>0, <1>2, <3>1, <3>2, QuietKeepsRetry
      <3> QED BY <1>0, <3>1, <3>2, <3>3 DEF DTypes
    <2>2. CASE AddRateLimited(w)
      <3>1. PICK bucket \in BucketDelays : AddAfter(w, When(work[w], bucket))
        BY <2>2 DEF AddRateLimited
      <3>2. failures[work[w]] \in Nat
        BY <1>0, <1>3, DelayingQueueAssumption DEF DTypes
      <3>3. When(work[w], bucket) \in Nat
        BY <1>3, <3>2, WhenIsNat
      <3> QED BY <1>2, <1>3, <3>1, <3>3, AddAfterKeeps
    <2>3. CASE ForgetAndAddAfter(w)
      <3>1. PICK delay \in RequeueDelays : AddAfter(w, delay)
        BY <2>3 DEF ForgetAndAddAfter
      <3>2. delay \in Nat
        BY DelayingQueueAssumption
      <3> QED BY <1>2, <1>3, <3>1, <3>2, AddAfterKeeps
    <2> QED BY <2>1, <2>2, <2>3
  <1>5. failures' \in [Items -> 0..MaxFailures]
    BY <1>0, <1>1, <1>2, <1>3 DEF DTypes
  <1>6. synced' \in [Workers -> BOOLEAN] /\ synced'[w] /\ \A v \in Workers \ {w} : synced'[v] = synced[v]
    <2>1. synced \in [Workers -> BOOLEAN]
      BY <1>0 DEF DTypes
    <2> QED BY <1>2, <2>1
  <1>7. DTypes'
    BY <1>0, <1>2, <1>4, <1>5, <1>6 DEF DTypes
  <1>8. SlotInv'
    <2>1. \A v \in Workers \ {w} : adder'[v] = adder[v]
      BY <1>0 DEF DTypes, AddRateLimited, Forget, SyncEnds, ForgetAndAddAfter, AddAfter
    <2> QED BY <1>0, <1>6, <2>1 DEF SlotInv
  <1> QED BY <1>0, <1>2, <1>4, <1>7, <1>8 DEF DPart, QueueKept, StopInv

\* The select of AddAfter: the entry goes into the channel, or is dropped
\* because the queue was shut down.
LEMMA SendStep ==
  ASSUME DIInv, NEW w \in Workers, SendWaitFor(w)
  PROVE  DPart
  <1>0. DTypes /\ SlotInv /\ StopInv /\ RetryIsSomewhere
    BY DEF DIInv
  <1>1. /\ adder[w] # NoEntry /\ adder' = [adder EXCEPT ![w] = NoEntry]
        /\ UNCHANGED <<now, failures, waitingForQueue, loop, loopNow, stopCh, synced, owed>>
        /\ shuttingDown' = shuttingDown /\ dirty' = dirty
    BY DEF SendWaitFor, vars
  <1>2. adder \in [Workers -> EntryType \cup {NoEntry}] /\ adder[w] \in EntryType
    BY <1>0, <1>1 DEF DTypes
  <1>3. adder' \in [Workers -> EntryType \cup {NoEntry}]
        /\ adder'[w] = NoEntry /\ \A v \in Workers \ {w} : adder'[v] = adder[v]
    BY <1>1, <1>2
  <1>4. SlotInv'
    BY <1>0, <1>1, <1>3 DEF SlotInv
  <1>5. CASE stopCh /\ UNCHANGED waitingForAddCh
    <2>1. DTypes'
      BY <1>0, <1>1, <1>3, <1>5 DEF DTypes
    <2> QED BY <1>0, <1>1, <1>4, <1>5, <2>1 DEF DPart, StopInv, RetryIsSomewhere
  <1>6. CASE Len(waitingForAddCh) < ChannelCap /\ waitingForAddCh' = Append(waitingForAddCh, adder[w])
    <2>1. waitingForAddCh \in Seq(EntryType) /\ ChannelCap \in Nat
      BY <1>0, DelayingQueueAssumption DEF DTypes
    <2>2. /\ waitingForAddCh' \in Seq(EntryType) /\ Len(waitingForAddCh') = Len(waitingForAddCh) + 1
          /\ Len(waitingForAddCh) \in Nat
          /\ waitingForAddCh'[Len(waitingForAddCh) + 1] = adder[w]
          /\ \A n \in 1..Len(waitingForAddCh) : waitingForAddCh'[n] = waitingForAddCh[n]
      BY <1>2, <1>6, <2>1
    <2>3. Len(waitingForAddCh') <= ChannelCap
      BY <1>6, <2>1, <2>2
    <2>4. DTypes'
      BY <1>0, <1>1, <1>3, <2>2, <2>3 DEF DTypes
    <2>5. ASSUME NEW i \in owed
          PROVE  \/ shuttingDown' \/ i \in dirty' \/ i \in DOMAIN waitingForQueue'
                 \/ InChannel(i)' \/ \E v \in Workers : adder'[v].data = i
      <3>1. CASE adder[w].data = i
        BY <2>2, <3>1 DEF InChannel
      <3>2. CASE InChannel(i)
        BY <2>2, <3>2 DEF InChannel
      <3>3. CASE \E v \in Workers \ {w} : adder[v].data = i
        BY <1>3, <3>3
      <3> QED BY <1>0, <1>1, <3>1, <3>2, <3>3 DEF RetryIsSomewhere
    <2>6. RetryIsSomewhere'
      BY <1>1, <2>5 DEF RetryIsSomewhere
    <2> QED BY <1>0, <1>1, <1>4, <2>4, <2>6 DEF DPart, StopInv
  <1> QED BY <1>5, <1>6 DEF SendWaitFor

\* Only a ShutDown that has returned closes stopCh.
LEMMA CloseStep ==
  ASSUME DIInv, CloseStopCh
  PROVE  DPart
  <1>0. IInv /\ DTypes /\ SlotInv /\ StopInv /\ RetryIsSomewhere
    BY DEF DIInv
  <1>1. /\ stopCh' = TRUE /\ UNCHANGED vars
        /\ UNCHANGED <<now, failures, waitingForAddCh, waitingForQueue, loop, loopNow, adder, synced, owed>>
    BY DEF CloseStopCh
  <1>2. shuttingDown /\ shuttingDown'
    BY <1>0, <1>1 DEF CloseStopCh, IInv, GoroutinesConsistent, vars
  <1>3. stopCh' \in BOOLEAN
    BY <1>1, Zenon
  <1>4. DTypes'
    BY <1>0, <1>1, <1>3 DEF DTypes
  <1> QED BY <1>0, <1>1, <1>2, <1>4 DEF DPart, StopInv, SlotInv, RetryIsSomewhere
----------------------------------------------------------------------------
(* waitingLoop *)

\* insert puts the key at the earlier of its times.
LEMMA InsertIs ==
  ASSUME DTypes, NEW e \in EntryType, Insert(e)
  PROVE  /\ DOMAIN waitingForQueue' = DOMAIN waitingForQueue \cup {e.data}
         /\ e.data \in Items
         /\ \A i \in DOMAIN waitingForQueue' : waitingForQueue'[i] \in 0..Horizon
         /\ \A i \in DOMAIN waitingForQueue : waitingForQueue'[i] <= waitingForQueue[i]
  <1>1. e.data \in Items /\ e.readyAt \in 0..Horizon
    BY DEF EntryType
  <1>2. Horizon \in Nat /\ \A i \in DOMAIN waitingForQueue : waitingForQueue[i] \in 0..Horizon
    BY DelayingQueueAssumption DEF DTypes
  <1>3. DOMAIN waitingForQueue' = DOMAIN waitingForQueue \cup {e.data}
    BY DEF Insert
  <1>4. \A i \in DOMAIN waitingForQueue \ {e.data} : waitingForQueue'[i] = waitingForQueue[i]
    BY DEF Insert
  <1>5. e.data \notin DOMAIN waitingForQueue => waitingForQueue'[e.data] = e.readyAt
    BY DEF Insert
  <1>6. ASSUME e.data \in DOMAIN waitingForQueue
        PROVE  /\ waitingForQueue'[e.data] \in 0..Horizon
               /\ waitingForQueue'[e.data] <= waitingForQueue[e.data]
    <2> DEFINE a == waitingForQueue[e.data]
               b == e.readyAt
    <2>1. waitingForQueue'[e.data] = MinOf({a, b})
      BY <1>6 DEF Insert
    <2>2. a \in 0..Horizon /\ b \in 0..Horizon
      BY <1>1, <1>2, <1>6
    <2> HIDE DEF a, b
    <2>3. a \in Int /\ b \in Int
      BY <1>2, <2>2
    <2>4. MinOf({a, b}) \in {a, b} /\ MinOf({a, b}) <= a
      BY <2>3, MaxMin
    <2> QED BY <2>1, <2>2, <2>4 DEF a
  <1> QED BY <1>1, <1>2, <1>3, <1>4, <1>5, <1>6

LEMMA LoopAddReadyStep ==
  ASSUME DIInv, LoopAddReady
  PROVE  DPart
  <1>0. DTypes /\ SlotInv /\ StopInv /\ RetryIsSomewhere
    BY DEF DIInv
  <1>1. PICK i \in DOMAIN waitingForQueue :
          LoopAdd(i) /\ waitingForQueue' = Without(waitingForQueue, i)
    BY DEF LoopAddReady, Heads
  <1>2. UNCHANGED <<now, failures, waitingForAddCh, loop, loopNow, stopCh, adder, synced, owed>>
    BY DEF LoopAddReady
  <1>3. QueueKept /\ (shuttingDown' \/ i \in dirty')
    BY <1>1, LoopAddKept
  <1>4. /\ DOMAIN waitingForQueue' = DOMAIN waitingForQueue \ {i}
        /\ \A j \in DOMAIN waitingForQueue' : waitingForQueue'[j] = waitingForQueue[j]
    BY <1>1 DEF Without
  <1>5. DTypes'
    BY <1>0, <1>2, <1>4 DEF DTypes
  <1>6. RetryIsSomewhere'
    BY <1>0, <1>2, <1>3, <1>4 DEF RetryIsSomewhere, InChannel, QueueKept
  <1> QED BY <1>0, <1>2, <1>3, <1>5, <1>6 DEF DPart, StopInv, SlotInv, QueueKept

\* The received entry goes to the heap or to the queue.
LEMMA LoopReceiveStep ==
  ASSUME DIInv, LoopReceive
  PROVE  DPart
  <1>0. DTypes /\ SlotInv /\ StopInv /\ RetryIsSomewhere
    BY DEF DIInv
  <1> DEFINE e == Head(waitingForAddCh)
  <1>1. /\ waitingForAddCh # <<>> /\ waitingForAddCh' = Tail(waitingForAddCh) /\ loop' = "drain"
        /\ UNCHANGED <<now, failures, loopNow, stopCh, adder, synced, owed>>
    BY DEF LoopReceive
  <1>2. waitingForAddCh \in Seq(EntryType)
    BY <1>0 DEF DTypes
  <1>3. /\ e \in EntryType /\ e = waitingForAddCh[1] /\ Len(waitingForAddCh) \in Nat
        /\ waitingForAddCh' \in Seq(EntryType) /\ Len(waitingForAddCh') = Len(waitingForAddCh) - 1
        /\ \A n \in 1..Len(waitingForAddCh') : waitingForAddCh'[n] = waitingForAddCh[n + 1]
    BY <1>1, <1>2
  <1>4. \/ Insert(e) /\ UNCHANGED vars
        \/ LoopAdd(e.data) /\ UNCHANGED waitingForQueue
    BY DEF LoopReceive
  <1> HIDE DEF e
  <1>5. /\ QueueKept
        /\ shuttingDown' \/ e.data \in dirty' \/ e.data \in DOMAIN waitingForQueue'
        /\ DOMAIN waitingForQueue \subseteq DOMAIN waitingForQueue'
        /\ DOMAIN waitingForQueue' \subseteq Items
        /\ \A i \in DOMAIN waitingForQueue' : waitingForQueue'[i] \in 0..Horizon
    <2>1. CASE Insert(e) /\ UNCHANGED vars
      <3>1. /\ DOMAIN waitingForQueue' = DOMAIN waitingForQueue \cup {e.data} /\ e.data \in Items
            /\ \A i \in DOMAIN waitingForQueue' : waitingForQueue'[i] \in 0..Horizon
        BY <1>0, <1>3, <2>1, InsertIs
      <3>2. QueueKept
        BY <2>1, VarsKept
      <3> QED BY <1>0, <3>1, <3>2 DEF DTypes
    <2>2. CASE LoopAdd(e.data) /\ UNCHANGED waitingForQueue
      BY <1>0, <2>2, LoopAddKept DEF DTypes
    <2> QED BY <1>4, <2>1, <2>2
  <1>6. DTypes'
    <2>1. loop' \in LoopPC
      BY <1>1 DEF LoopPC
    <2>2. Len(waitingForAddCh') <= ChannelCap
      BY <1>0, <1>3, DelayingQueueAssumption DEF DTypes
    <2> QED BY <1>0, <1>1, <1>3, <1>5, <2>1, <2>2 DEF DTypes
  <1>7. ASSUME NEW i \in owed, InChannel(i) PROVE i = e.data \/ InChannel(i)'
    <2>1. PICK n \in 1..Len(waitingForAddCh) : waitingForAddCh[n].data = i
      BY <1>7 DEF InChannel
    <2>2. CASE n = 1
      BY <1>3, <2>1, <2>2
    <2>3. CASE n # 1
      <3>1. n - 1 \in 1..Len(waitingForAddCh') /\ (n - 1) + 1 = n
        BY <1>3, <2>3
      <3> QED BY <1>3, <2>1, <3>1 DEF InChannel
    <2> QED BY <2>2, <2>3
  <1>8. RetryIsSomewhere'
    BY <1>0, <1>1, <1>5, <1>7 DEF RetryIsSomewhere, QueueKept
  <1> QED BY <1>0, <1>1, <1>5, <1>6, <1>8 DEF DPart, StopInv, SlotInv, QueueKept

LEMMA LoopMovesStep ==
  ASSUME DIInv, LoopTop \/ LoopNoneReady \/ LoopWake \/ LoopDrained
  PROVE  DPart
  <1>0. DTypes /\ SlotInv /\ StopInv /\ RetryIsSomewhere
    BY DEF DIInv
  <1>1. /\ UNCHANGED vars
        /\ UNCHANGED <<now, failures, waitingForAddCh, waitingForQueue, stopCh, adder, synced, owed>>
    BY DEF LoopTop, LoopNoneReady, LoopWake, LoopDrained
  <1>2. loop' \in LoopPC
    BY DEF LoopTop, LoopNoneReady, LoopWake, LoopDrained, LoopPC
  <1>3. loopNow' \in {0, now, loopNow}
    BY DEF LoopTop, LoopNoneReady, LoopWake, LoopDrained
  <1>4. now \in Nat /\ loopNow \in 0..now
    BY <1>0, DelayingQueueAssumption DEF DTypes
  <1>5. loopNow' \in 0..now'
    BY <1>1, <1>3, <1>4
  <1>6. DTypes'
    BY <1>0, <1>1, <1>2, <1>5 DEF DTypes
  <1>7. QueueKept
    BY <1>1, VarsKept
  <1>8. RetryIsSomewhere'
    BY <1>0, <1>1, <1>7, QuietKeepsRetry
  <1> QED BY <1>0, <1>1, <1>6, <1>7, <1>8 DEF DPart, StopInv, SlotInv, QueueKept

----------------------------------------------------------------------------
(* Theorems *)

LEMMA DStep == DIInv /\ [DNext]_allvars => DIInv'
  <1> SUFFICES ASSUME DIInv, [DNext]_allvars PROVE DIInv'
    OBVIOUS
  <1>1. IInv /\ KeysOK
    BY DEF DIInv, DTypes, KeysOK
  <1>2. IInv'
    BY <1>1, EveryStepIsNext, NextIInv
  <1>3. DPart
    BY PlainSteps, GetDoneSteps, ReportSteps, SendStep, CloseStep, LoopAddReadyStep,
       LoopReceiveStep, LoopMovesStep DEF DNext, WaitingLoop
  <1> QED BY <1>2, <1>3 DEF DPart, DIInv

\* The inductive invariant of the delaying queue.
THEOREM DInvariance == DSpec => []DIInv
  BY DInitIInv, DStep, PTL DEF DSpec

\* Type correctness: the channel stays within its capacity and the loop never
\* works with a time from the future.
THEOREM DTypeCorrect == DSpec => []DTypeOK
  <1>1. DIInv => DTypeOK
    BY DEF DIInv, IInv, DTypes, DTypeOK
  <1> QED BY <1>1, DInvariance, PTL

\* The delaying layer and the controllers' workers only do to the queue what
\* its callers may: everything proved of WorkQueue holds under them.
THEOREM DelayingImplementsQueue == DSpec => Spec
  <1>1. DInit => Init
    BY DEF DInit
  <1>2. DIInv => IInv /\ KeysOK
    BY DEF DIInv, DTypes, KeysOK
  <1> QED BY <1>1, <1>2, EveryStepIsNext, DInvariance, PTL DEF DSpec, Spec

\* In particular two syncs of one key never overlap and no key is forgotten,
\* with retries and delayed additions racing the informers' events.
THEOREM DelayingConsistency == DSpec => []QueueConsistent /\ []WorkMeansAwakeWorker /\ AbstractSpec
  BY DelayingImplementsQueue, Consistency, NoLostWakeup, Refinement, PTL

\* While the queue is open, the sync a worker asked for is in the hands of
\* AddAfter, in the channel, in the heap or in the queue; no merge of two
\* entries, no refused Add and no full channel loses it.
THEOREM RetryIsNeverLost == DSpec => []RetryIsSomewhere
  <1>1. DIInv => RetryIsSomewhere
    BY DEF DIInv
  <1> QED BY <1>1, DInvariance, PTL

\* An entry of the heap is never moved to a later time.
THEOREM NeverLater == DSpec => EntriesOnlyMoveEarlier
  <1> DEFINE Earlier == \A i \in DOMAIN waitingForQueue :
               i \in DOMAIN waitingForQueue' => waitingForQueue'[i] <= waitingForQueue[i]
  <1>1. DIInv /\ [DNext]_allvars => [Earlier]_allvars
    <2> SUFFICES ASSUME DIInv, DNext PROVE Earlier
      OBVIOUS
    <2>1. DTypes /\ \A i \in DOMAIN waitingForQueue : waitingForQueue[i] \in Nat
      BY DelayingQueueAssumption DEF DIInv, DTypes
    <2>2. CASE UNCHANGED waitingForQueue
      BY <2>1, <2>2
    <2>3. CASE LoopAddReady
      BY <2>1, <2>3 DEF LoopAddReady, Without
    <2>4. CASE LoopReceive
      <3>1. Head(waitingForAddCh) \in EntryType
        BY <2>1, <2>4 DEF LoopReceive, DTypes
      <3>2. CASE Insert(Head(waitingForAddCh))
        BY <2>1, <3>1, <3>2, InsertIs
      <3> QED BY <2>2, <2>4, <3>2 DEF LoopReceive
    <2> QED BY <2>2, <2>3, <2>4
         DEF DNext, Tick, DAdd, DGet, DDone, AddRateLimited, Forget, SyncEnds,
             ForgetAndAddAfter, Reports, SendWaitFor, DShutDown, CloseStopCh, dvars,
             WaitingLoop, LoopTop, LoopNoneReady, LoopWake, LoopDrained
  <1> QED BY <1>1, DInvariance, PTL DEF DSpec, EntriesOnlyMoveEarlier

=============================================================================
