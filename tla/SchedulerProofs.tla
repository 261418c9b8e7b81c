-------------------------- MODULE SchedulerProofs --------------------------
(***************************************************************************)
(* Proofs about Scheduler, for any stages, workers, profile, lag and       *)
(* number of troubles. Every step but a restart is about one stage, so the *)
(* inductive invariant says the same of every stage, and a stage whose     *)
(* part of the state does not change keeps it (StageFrame).                *)
(***************************************************************************)
EXTENDS Scheduler, TLAPS

----------------------------------------------------------------------------
(* Types *)

SomeWorker == Workers \cup {NoWorker}
CacheEntry == [obj : Nat, assumed : BOOLEAN, on : SomeWorker]
WaitingStage ==
  [pending : SUBSET permitPlugins, chan : {"none", "empty", "allow", "reject"}]
Attempting(pcs) == [pc : pcs, s : Stages, obj : Nat, w : SomeWorker]
LoopPcs == {"schedule", "assume", "permit", "get", "requeue"}
BindingPcs == {"wait", "bind", "bound", "get", "requeue", "orphan"}

TypeOK ==
  /\ stages \in [Stages -> Object]
  /\ feed \in [Stages -> Seq(Object)] /\ told \in [Stages -> Seq(Object)]
  /\ cacheAt \in [Stages -> Nat] /\ queueAt \in [Stages -> Nat]
  /\ held \in Stages \cup {NoStage}
  /\ queue \in [Stages -> Nat]
  /\ cache \in [Stages -> CacheEntry]
  /\ workers \subseteq Workers
  /\ loop \in Attempting(LoopPcs) \cup {Popping}
  /\ bindings \subseteq Attempting(BindingPcs)
  /\ waiting \in [Stages -> WaitingStage]
  /\ exited \in BOOLEAN /\ writes \in Nat /\ troubles \in Nat
  /\ stranded \subseteq Stages /\ doubtful \subseteq Stages /\ tampered \subseteq Stages
  /\ merged \subseteq Stages /\ remade \subseteq Stages

\* What assume writes: one field of one object.
LEMMA Rewritten ==
  ASSUME NEW q \in Seq(Object), NEW i, NEW w \in SomeWorker
  PROVE  LET r == [q EXCEPT ![i].worker = w]
         IN /\ r \in Seq(Object) /\ Len(r) = Len(q)
            /\ \A j \in 1..Len(q) :
                 /\ r[j].state = q[j].state /\ r[j].gone = q[j].gone
                 /\ r[j].worker = IF j = i THEN w ELSE q[j].worker
  <1> DEFINE r == [q EXCEPT ![i].worker = w]
  <1>1. Len(q) \in Nat /\ DOMAIN q = 1..Len(q) /\ DOMAIN r = 1..Len(q)
    OBVIOUS
  <1>2. \A j \in 1..Len(q) : q[j] \in Object
    OBVIOUS
  <1>3. \A j \in 1..Len(q) : r[j] = IF j = i THEN [q[j] EXCEPT !.worker = w] ELSE q[j]
    BY <1>1
  <1>4. \A j \in 1..Len(q) : r[j] \in Object
    BY <1>2, <1>3 DEF Object, SomeWorker
  <1>5. r \in [1..Len(q) -> Object]
    BY <1>1, <1>4
  <1>6. r \in Seq(Object) /\ Len(r) = Len(q)
    BY <1>1, <1>5
  <1> QED BY <1>2, <1>3, <1>6 DEF Object

LEMMA HostsAreKnown ==
  ASSUME NEW s, NEW snapshot
  PROVE  scheduleStage(s, snapshot) \subseteq snapshot
  BY DEF scheduleStage, findWorkersThatPassFilters, selectHost

LEMMA PermitAnswers ==
  ASSUME NEW answer \in RunPermitPlugins
  PROVE  answer.status \in {"pass", "wait", "reject"} /\ answer.pending \subseteq permitPlugins
  BY DEF RunPermitPlugins

LEMMA NotCachedType == NotCached \in CacheEntry
  BY DEF NotCached, CacheEntry, SomeWorker

LEMMA ForgetType ==
  ASSUME TypeOK, NEW s \in Stages, NEW obj
  PROVE  ForgetStage(s, obj) \in [Stages -> CacheEntry]
  BY NotCachedType DEF ForgetStage, TypeOK

LEMMA CacheHandlerType ==
  ASSUME TypeOK, NEW s \in Stages, NEW i \in 1..Len(told[s])
  PROVE  /\ AddStage(s, i) \in [Stages -> CacheEntry]
         /\ UpdateStage(s, i) \in [Stages -> CacheEntry]
         /\ RemoveStage(s) \in [Stages -> CacheEntry]
  <1>1. told[s] \in Seq(Object) /\ i \in Nat
    BY DEF TypeOK
  <1>2. told[s][i] \in Object
    BY <1>1
  <1>2a. told[s][i].worker \in SomeWorker
    BY <1>2 DEF Object, SomeWorker
  <1> DEFINE added == [obj |-> i, assumed |-> FALSE, on |-> told[s][i].worker]
  <1>3. added \in CacheEntry
    BY <1>1, <1>2a DEF CacheEntry
  <1>4. [cache[s] EXCEPT !.obj = i, !.assumed = FALSE] \in CacheEntry
    BY <1>1 DEF TypeOK, CacheEntry
  <1>5. AddStage(s, i) \in [Stages -> CacheEntry]
    <2>1. [cache EXCEPT ![s].obj = i, ![s].assumed = FALSE]
            = [cache EXCEPT ![s] = [cache[s] EXCEPT !.obj = i, !.assumed = FALSE]]
      BY DEF TypeOK, CacheEntry
    <2> HIDE DEF added
    <2>2. [cache EXCEPT ![s] = added] \in [Stages -> CacheEntry]
      BY <1>3 DEF TypeOK
    <2>3. [cache EXCEPT ![s].obj = i, ![s].assumed = FALSE] \in [Stages -> CacheEntry]
      BY <1>4, <2>1 DEF TypeOK
    <2> QED BY <2>2, <2>3 DEF AddStage, TypeOK, added
  <1>6. UpdateStage(s, i) \in [Stages -> CacheEntry]
    BY <1>3 DEF UpdateStage, TypeOK
  <1>7. RemoveStage(s) \in [Stages -> CacheEntry]
    BY NotCachedType DEF RemoveStage, TypeOK
  <1> QED BY <1>5, <1>6, <1>7

LEMMA PutType ==
  ASSUME TypeOK, NEW s \in Stages, NEW o \in Object, Put(s, o)
  PROVE  stages' \in [Stages -> Object] /\ feed' \in [Stages -> Seq(Object)]
  <1>1. Append(feed[s], o) \in Seq(Object)
    BY DEF TypeOK
  <1> QED BY <1>1 DEF Put, TypeOK

LEMMA ObjectWith ==
  ASSUME NEW o \in Object
  PROVE  /\ o.state \in States /\ o.worker \in SomeWorker /\ o.gone \in BOOLEAN
         /\ [o EXCEPT !.state = "done"] \in Object /\ [o EXCEPT !.gone = TRUE] \in Object
  BY DEF Object, States, SomeWorker

LEMMA NewObject ==
  ASSUME NEW st \in States, NEW w \in SomeWorker
  PROVE  [state |-> st, worker |-> w, gone |-> FALSE] \in Object
  BY DEF Object, SomeWorker

\* The parts of TypeOK an action of the handlers, the loop or a binding changes.
LEMMA TypeOfOthers == TypeOK /\ (\E s \in Stages : OthersWrite(s) \/ MadeReadyAgain(s)) => TypeOK'
  <1> SUFFICES ASSUME TypeOK, NEW s \in Stages, OthersWrite(s) \/ MadeReadyAgain(s)
               PROVE  TypeOK'
    OBVIOUS
  <1>1. stages[s] \in Object
    BY DEF TypeOK
  <1>2. stages' \in [Stages -> Object] /\ feed' \in [Stages -> Seq(Object)]
    <2>1. CASE OthersWrite(s)
      BY <1>1, <2>1, PutType, ObjectWith DEF OthersWrite
    <2>2. CASE MadeReadyAgain(s)
      BY <1>1, <2>2, PutType, ObjectWith, NewObject DEF MadeReadyAgain, SomeWorker, States
    <2> QED BY <2>1, <2>2
  <1>3. writes' \in Nat /\ troubles' \in Nat /\ remade' \subseteq Stages
    BY SMTT(30) DEF OthersWrite, MadeReadyAgain, Trouble, TypeOK, history
  <1>4. UNCHANGED <<told, cacheAt, queueAt, held, queue, cache, workers, loop, bindings,
                    waiting, exited, stranded, doubtful, tampered, merged>>
    BY DEF OthersWrite, MadeReadyAgain, handlers, history
  <1> QED BY <1>2, <1>3, <1>4 DEF TypeOK

LEMMA TypeOfDeliver == TypeOK /\ (\E s \in Stages : Deliver(s)) => TypeOK'
  <1> SUFFICES ASSUME TypeOK, NEW s \in Stages, Deliver(s) PROVE TypeOK'
    OBVIOUS
  <1>1. told[s] \in Seq(Object) /\ feed[s] \in Seq(Object) /\ feed[s] # <<>> /\ stages[s] \in Object
    BY DEF TypeOK, Deliver
  <1>2. Head(feed[s]) \in Object /\ Tail(feed[s]) \in Seq(Object) /\ <<>> \in Seq(Object)
    BY <1>1
  <1>3. Append(told[s], Head(feed[s])) \in Seq(Object) /\ Append(told[s], stages[s]) \in Seq(Object)
    BY <1>1, <1>2
  <1>4. told' \in [Stages -> Seq(Object)] /\ feed' \in [Stages -> Seq(Object)]
    <2>1. \/ /\ told' = [told EXCEPT ![s] = Append(told[s], Head(feed[s]))]
             /\ feed' = [feed EXCEPT ![s] = Tail(feed[s])]
          \/ /\ told' = [told EXCEPT ![s] = Append(told[s], stages[s])]
             /\ feed' = [feed EXCEPT ![s] = <<>>]
      BY DEF Deliver
    <2>2. told \in [Stages -> Seq(Object)] /\ feed \in [Stages -> Seq(Object)]
      BY DEF TypeOK
    <2>3. \A q \in Seq(Object) : /\ [told EXCEPT ![s] = q] \in [Stages -> Seq(Object)]
                                 /\ [feed EXCEPT ![s] = q] \in [Stages -> Seq(Object)]
      BY <2>2
    <2> QED BY <1>2, <1>3, <2>1, <2>3
  <1>5. merged' \subseteq Stages /\ troubles' \in Nat
    BY SMTT(30) DEF Deliver, Trouble, TypeOK
  <1> QED BY <1>4, <1>5 DEF Deliver, TypeOK

LEMMA TypeOfCacheHandler == TypeOK /\ (\E s \in Stages : CacheHandler(s)) => TypeOK'
  <1> SUFFICES ASSUME TypeOK, NEW s \in Stages, CacheHandler(s) PROVE TypeOK'
    OBVIOUS
  <1> DEFINE i == cacheAt[s] + 1
  <1>1. i \in 1..Len(told[s])
    <2>1. cacheAt[s] \in Nat /\ told[s] \in Seq(Object)
      BY DEF TypeOK
    <2>2. Len(told[s]) \in Nat
      BY <2>1
    <2> QED BY <2>1, <2>2 DEF CacheHandler
  <1>2. cache' \in [Stages -> CacheEntry]
    <2> HIDE DEF i
    <2>1. cache' \in {AddStage(s, i), UpdateStage(s, i), RemoveStage(s), cache}
      BY DEF CacheHandler, i
    <2> QED BY <1>1, <2>1, CacheHandlerType DEF TypeOK
  <1>3. cacheAt' \in [Stages -> Nat] /\ exited' \in BOOLEAN
    BY DEF CacheHandler, TypeOK
  <1> QED BY <1>2, <1>3 DEF CacheHandler, TypeOK, api, history

LEMMA TypeOfQueueHandlers ==
  TypeOK /\ (\E s \in Stages : QueueHandler(s) \/ Pop(s)) => TypeOK'
  <1> SUFFICES ASSUME TypeOK, NEW s \in Stages, QueueHandler(s) \/ Pop(s) PROVE TypeOK'
    OBVIOUS
  <1>1. CASE addStageToSchedulingQueue(s) \/ QueueUpdate(s)
    <2>1. UNCHANGED <<stages, feed, told, cacheAt, cache, workers, loop, bindings, waiting,
                      exited, writes, troubles, doubtful, tampered, merged, remade>>
      BY <1>1 DEF addStageToSchedulingQueue, QueueUpdate, api
    <2>2. queueAt' \in [Stages -> Nat] /\ queue' \in [Stages -> Nat]
      <3>1. /\ queueAt' = [queueAt EXCEPT ![s] = @ + 1]
            /\ queue' = [queue EXCEPT ![s] = queueAt[s] + 1]
        BY <1>1 DEF addStageToSchedulingQueue, QueueUpdate, QueueTold, Enqueue
      <3> QED BY <3>1 DEF TypeOK
    <2>3. stranded' \subseteq Stages
      BY <1>1 DEF addStageToSchedulingQueue, QueueUpdate, Enqueue, TypeOK
    <2>4. held' \in {held, NoStage}
      BY <1>1 DEF addStageToSchedulingQueue, QueueUpdate
    <2> QED BY <2>1, <2>2, <2>3, <2>4 DEF TypeOK
  <1>2. CASE updateStageInSchedulingQueue(s)
    <2>1. UNCHANGED <<stages, feed, told, cacheAt, queue, cache, workers, loop, bindings,
                      waiting, exited, writes, troubles, stranded, doubtful, tampered, merged,
                      remade>>
      BY <1>2 DEF updateStageInSchedulingQueue, api, history
    <2>2. queueAt' \in {queueAt, [queueAt EXCEPT ![s] = @ + 1]} /\ held' \in {s, held}
      BY <1>2, Zenon DEF updateStageInSchedulingQueue, QueueTold
    <2>3. [queueAt EXCEPT ![s] = @ + 1] \in [Stages -> Nat]
      BY DEF TypeOK
    <2> QED BY <2>1, <2>2, <2>3 DEF TypeOK
  <1>3. CASE deleteStageFromSchedulingQueue(s)
    <2>1. waiting' \in [Stages -> WaitingStage]
      BY <1>3 DEF deleteStageFromSchedulingQueue, Rejected, TypeOK, WaitingStage
    <2>2. queueAt' \in [Stages -> Nat] /\ queue' \in [Stages -> Nat]
      BY <1>3 DEF deleteStageFromSchedulingQueue, QueueTold, TypeOK
    <2>3. UNCHANGED <<stages, feed, told, cacheAt, held, cache, workers, loop, bindings,
                      exited, writes, troubles, stranded, doubtful, tampered, merged, remade>>
      BY <1>3 DEF deleteStageFromSchedulingQueue, api, history
    <2> QED BY <2>1, <2>2, <2>3 DEF TypeOK
  <1>4. CASE QueueFilterDrops(s)
    BY <1>4, SMTT(30) DEF QueueFilterDrops, QueueTold, TypeOK, api, history
  <1>5. CASE Pop(s)
    <2>1. queue[s] \in Nat
      BY DEF TypeOK
    <2>2. loop' = [pc |-> "schedule", s |-> s, obj |-> queue[s], w |-> NoWorker]
      BY <1>5 DEF Pop, Popping
    <2>3. loop' \in Attempting(LoopPcs)
      BY <2>1, <2>2 DEF Attempting, LoopPcs, SomeWorker
    <2> QED BY <1>5, <2>3 DEF Pop, TypeOK, api, handlers, history
  <1> QED BY <1>1, <1>2, <1>3, <1>4, <1>5 DEF QueueHandler

LEMMA TypeOfPermitPhase ==
  TypeOK /\ (\/ \E s \in Stages : Reject(s) \/ \E p \in permitPlugins : Allow(s, p)
             \/ \E w \in Workers : WorkerEvent(w)) => TypeOK'
  <1> SUFFICES ASSUME TypeOK,
                      \/ \E s \in Stages : Reject(s) \/ \E p \in permitPlugins : Allow(s, p)
                      \/ \E w \in Workers : WorkerEvent(w)
               PROVE  TypeOK'
    OBVIOUS
  <1>1. ASSUME NEW s \in Stages, Reject(s) PROVE TypeOK'
    <2>1. waiting' \in [Stages -> WaitingStage]
      BY <1>1 DEF Reject, Rejected, TypeOK, WaitingStage
    <2> QED BY <1>1, <2>1 DEF Reject, TypeOK, api, handlers, history
  <1>2. ASSUME NEW s \in Stages, NEW p \in permitPlugins, Allow(s, p) PROVE TypeOK'
    <2>1. waiting' \in [Stages -> WaitingStage]
      <3> DEFINE pending == waiting[s].pending \ {p}
                 chan == IF pending = {} /\ waiting[s].chan = "empty" THEN "allow"
                         ELSE waiting[s].chan
      <3>1. waiting[s] \in WaitingStage
        BY DEF TypeOK
      <3>2. [pending |-> pending, chan |-> chan] \in WaitingStage
        BY <3>1 DEF WaitingStage
      <3>3. waiting' = [waiting EXCEPT ![s] = [pending |-> pending, chan |-> chan]]
        BY <1>2 DEF Allow
      <3> HIDE DEF pending, chan
      <3> QED BY <3>2, <3>3 DEF TypeOK
    <2> QED BY <1>2, <2>1 DEF Allow, TypeOK, api, handlers, history
  <1>3. ASSUME NEW w \in Workers, WorkerEvent(w) PROVE TypeOK'
    BY <1>3, SMTT(30) DEF WorkerEvent, Trouble, TypeOK, api, handlers, history
  <1> QED BY <1>1, <1>2, <1>3

\* What follows from the place of the loop.
LEMMA LoopAttempt ==
  ASSUME TypeOK
  PROVE  /\ loop.pc \in LoopPcs => loop \in Attempting(LoopPcs) /\ loop.s \in Stages
         /\ \A s \in Stages : loop.s = s => loop.pc \in LoopPcs
         /\ loop.pc \notin LoopPcs => loop = Popping /\ loop.s \notin Stages
  BY SchedulerAssumption DEF TypeOK, Popping, LoopPcs, Attempting

LEMMA AttemptWith ==
  ASSUME NEW P, NEW o \in Attempting(P), NEW Q, NEW pc \in Q, NEW w \in SomeWorker, NEW n \in Nat
  PROVE  /\ o.s \in Stages /\ o.obj \in Nat /\ o.w \in SomeWorker /\ o.pc \in P
         /\ [o EXCEPT !.pc = pc] \in Attempting(Q)
         /\ [o EXCEPT !.pc = pc, !.w = w] \in Attempting(Q)
         /\ [o EXCEPT !.pc = pc, !.obj = n] \in Attempting(Q)
  BY DEF Attempting

LEMMA TypeOfLoop == TypeOK /\ LoopStep => TypeOK'
  <1> SUFFICES ASSUME TypeOK, LoopStep PROVE TypeOK'
    OBVIOUS
  <1>1. loop.pc \in LoopPcs
    BY DEF LoopStep, ScheduleStage, assume, Permit, LoopGets, LoopRequeues, LoopPcs
  <1>2. loop \in Attempting(LoopPcs) /\ loop.s \in Stages
    BY <1>1, LoopAttempt
  <1>3. CASE ScheduleStage
    <2>1. scheduleStage(loop.s, workers) \subseteq Workers
      BY HostsAreKnown DEF TypeOK
    <2>2. loop' \in Attempting(LoopPcs) \cup {Popping}
      <3>1. \A w \in Workers : [loop EXCEPT !.pc = "assume", !.w = w] \in Attempting(LoopPcs)
        BY <1>2, AttemptWith DEF SomeWorker, LoopPcs
      <3>2. [loop EXCEPT !.pc = "get"] \in Attempting(LoopPcs)
        BY <1>2 DEF Attempting, LoopPcs
      <3> QED BY <1>3, <2>1, <3>1, <3>2 DEF ScheduleStage
    <2> QED BY <1>3, <2>2 DEF ScheduleStage, TypeOK, api, handlers, history
  <1>4. CASE assume
    <2>1. told' \in [Stages -> Seq(Object)]
      <3>1. told[loop.s] \in Seq(Object) /\ loop.w \in SomeWorker
        BY <1>2 DEF TypeOK, Attempting
      <3>2. told' = [told EXCEPT ![loop.s] = [told[loop.s] EXCEPT ![loop.obj].worker = loop.w]]
        BY <1>4 DEF assume
      <3>3. [told[loop.s] EXCEPT ![loop.obj].worker = loop.w] \in Seq(Object)
        BY <3>1, Rewritten
      <3> QED BY <1>2, <3>2, <3>3 DEF TypeOK
    <2>2. loop' \in Attempting(LoopPcs)
      BY <1>2, <1>4 DEF assume, Attempting, LoopPcs
    <2>3. cache' \in [Stages -> CacheEntry]
      <3>1. [obj |-> loop.obj, assumed |-> TRUE, on |-> loop.w] \in CacheEntry
        BY <1>2 DEF Attempting, CacheEntry
      <3> QED BY <1>4, <3>1 DEF assume, AssumeStage, TypeOK
    <2>4. tampered' \subseteq Stages
      BY <1>2, <1>4 DEF assume, TypeOK
    <2> QED BY <1>4, <2>1, <2>2, <2>3, <2>4 DEF assume, TypeOK, api
  <1>5. CASE Permit
    <2>1. [loop EXCEPT !.pc = "bind"] \in Attempting(BindingPcs)
          /\ [loop EXCEPT !.pc = "wait"] \in Attempting(BindingPcs)
          /\ [loop EXCEPT !.pc = "get", !.w = NoWorker] \in Attempting(LoopPcs)
      BY <1>2 DEF Attempting, BindingPcs, LoopPcs, SomeWorker
    <2>2. PICK answer \in RunPermitPlugins :
            \/ /\ bindings' = bindings \cup {[loop EXCEPT !.pc = "bind"]}
               /\ loop' = Popping /\ UNCHANGED <<cache, waiting>>
            \/ /\ bindings' = bindings \cup {[loop EXCEPT !.pc = "wait"]}
               /\ loop' = Popping /\ UNCHANGED cache
               /\ waiting' = [waiting EXCEPT ![loop.s] =
                                [pending |-> answer.pending, chan |-> "empty"]]
            \/ /\ cache' = ForgetStage(loop.s, loop.obj)
               /\ loop' = [loop EXCEPT !.pc = "get", !.w = NoWorker]
               /\ UNCHANGED <<bindings, waiting>>
      BY <1>5 DEF Permit
    <2>3. loop' \in Attempting(LoopPcs) \cup {Popping} /\ bindings' \subseteq Attempting(BindingPcs)
      BY <2>1, <2>2 DEF TypeOK
    <2>4. cache' \in [Stages -> CacheEntry]
      BY <1>2, <2>2, ForgetType, SMTT(30) DEF TypeOK
    <2>5. waiting' \in [Stages -> WaitingStage]
      <3>1. [pending |-> answer.pending, chan |-> "empty"] \in WaitingStage
        BY PermitAnswers DEF WaitingStage
      <3> QED BY <2>2, <3>1 DEF TypeOK
    <2> QED BY <1>5, <2>3, <2>4, <2>5 DEF Permit, TypeOK, api, handlers, history
  <1>6. CASE LoopGets
    <2>1. told[loop.s] \in Seq(Object)
      BY <1>2 DEF TypeOK
    <2>2. Len(told[loop.s]) \in Nat
      BY <2>1
    <2>3. loop' \in Attempting(LoopPcs) \cup {Popping}
      BY <1>2, <1>6, <2>2 DEF LoopGets, Attempting, LoopPcs
    <2> QED BY <1>6, <2>3 DEF LoopGets, TypeOK, api, handlers, history
  <1>7. CASE LoopRequeues
    <2>1. queue' \in [Stages -> Nat] /\ stranded' \subseteq Stages
      BY <1>2, <1>7 DEF LoopRequeues, AddUnschedulableIfNotPresent, Enqueue, TypeOK, Attempting
    <2> QED BY <1>7, <2>1 DEF LoopRequeues, TypeOK, api, handlers
  <1> QED BY <1>3, <1>4, <1>5, <1>6, <1>7 DEF LoopStep

AnyBindingStep(b) ==
  \/ BindingGets(b) \/ BindingRequeues(b) \/ WaitOnPermit(b) \/ stageBinding(b)
  \/ Bound(b) \/ BindFails(b) \/ OrphanServed(b)

LEMMA TypeOfBindings == TypeOK /\ (\E b \in bindings : AnyBindingStep(b)) => TypeOK'
  <1> SUFFICES ASSUME TypeOK, NEW b \in bindings, AnyBindingStep(b) PROVE TypeOK'
    OBVIOUS
  <1>1. b \in Attempting(BindingPcs) /\ b.s \in Stages /\ b.obj \in Nat /\ b.w \in SomeWorker
    BY DEF TypeOK, Attempting
  <1>2. \A pc \in BindingPcs : [b EXCEPT !.pc = pc] \in Attempting(BindingPcs)
    BY <1>1 DEF Attempting
  <1>3. CASE BindingGets(b)
    <2>1. told[b.s] \in Seq(Object)
      BY <1>1 DEF TypeOK
    <2>2. Len(told[b.s]) \in Nat
      BY <2>1
    <2>3. [b EXCEPT !.pc = "requeue", !.obj = Len(told[b.s])] \in Attempting(BindingPcs)
      BY <1>1, <2>2 DEF Attempting, BindingPcs
    <2> QED BY <1>3, <2>3 DEF BindingGets, TypeOK, api, handlers, history
  <1>4. CASE BindingRequeues(b)
    <2>1. queue' \in [Stages -> Nat] /\ stranded' \subseteq Stages
      BY <1>1, <1>4 DEF BindingRequeues, AddUnschedulableIfNotPresent, Enqueue, TypeOK
    <2> QED BY <1>4, <2>1 DEF BindingRequeues, TypeOK, api, handlers
  <1>5. CASE WaitOnPermit(b)
    <2>1. cache' \in [Stages -> CacheEntry]
      BY <1>1, <1>5, ForgetType DEF WaitOnPermit, TypeOK
    <2>2. waiting' \in [Stages -> WaitingStage]
      <3>1. NotWaiting \in WaitingStage
        BY DEF NotWaiting, WaitingStage
      <3> QED BY <1>5, <3>1 DEF WaitOnPermit, TypeOK
    <2>3. bindings' \subseteq Attempting(BindingPcs)
      BY <1>2, <1>5 DEF WaitOnPermit, TypeOK, BindingPcs
    <2> QED BY <1>5, <2>1, <2>2, <2>3 DEF WaitOnPermit, TypeOK, api, handlers, history
  <1>6. CASE stageBinding(b) \/ OrphanServed(b)
    <2>1. [state |-> "bind", worker |-> b.w, gone |-> FALSE] \in Object
      BY <1>1, NewObject DEF States
    <2>2. stages' \in [Stages -> Object] /\ feed' \in [Stages -> Seq(Object)]
      BY <1>1, <1>6, <2>1, PutType DEF stageBinding, OrphanServed, TypeOK, api
    <2>3. bindings' \subseteq Attempting(BindingPcs)
      BY <1>2, <1>6 DEF stageBinding, OrphanServed, TypeOK, BindingPcs
    <2> QED BY <1>6, <2>2, <2>3 DEF stageBinding, OrphanServed, TypeOK, handlers, history
  <1>7. CASE Bound(b)
    BY <1>7 DEF Bound, TypeOK, api, handlers, history
  <1>8. CASE BindFails(b)
    <2>1. cache' \in [Stages -> CacheEntry]
      BY <1>1, <1>8, ForgetType DEF BindFails
    <2>2. stranded' \subseteq Stages
      BY <1>1, <1>8 DEF BindFails, TypeOK
    <2>3. doubtful' \subseteq Stages
      BY <1>1, <1>8 DEF BindFails, TypeOK
    <2>4. troubles' \in Nat
      BY <1>8 DEF BindFails, Trouble, TypeOK
    <2> QED BY <1>8, <2>1, <2>2, <2>3, <2>4 DEF BindFails, TypeOK, api, handlers
  <1> QED BY <1>3, <1>4, <1>5, <1>6, <1>7, <1>8 DEF AnyBindingStep

LEMMA TypeOfRestart == TypeOK /\ Restart => TypeOK'
  <1> SUFFICES ASSUME TypeOK, Restart PROVE TypeOK'
    OBVIOUS
  <1>1. feed' \in [Stages -> Seq(Object)] /\ told' \in [Stages -> Seq(Object)]
    BY DEF Restart, TypeOK
  <1>2. bindings' \subseteq Attempting(BindingPcs)
    <2> SUFFICES ASSUME NEW b \in bindings
                 PROVE  [b EXCEPT !.pc = "orphan"] \in Attempting(BindingPcs)
      BY DEF Restart
    <2> QED BY AttemptWith DEF TypeOK, BindingPcs, SomeWorker
  <1>3. doubtful' \subseteq Stages
    BY DEF Restart, TypeOK, Attempting
  <1>4. cache' \in [Stages -> CacheEntry]
    BY NotCachedType DEF Restart
  <1>5. waiting' \in [Stages -> WaitingStage]
    BY DEF Restart, NotWaiting, WaitingStage
  <1>6. /\ cacheAt' \in [Stages -> Nat] /\ queueAt' \in [Stages -> Nat]
        /\ queue' \in [Stages -> Nat] /\ troubles' \in Nat
    BY DEF Restart, Trouble, TypeOK
  <1>7. exited' = FALSE /\ held' = NoStage /\ loop' = Popping
        /\ stranded' = {} /\ tampered' = {} /\ merged' = {} /\ remade' = {}
        /\ UNCHANGED <<stages, workers, writes>>
    BY DEF Restart
  <1> QED BY <1>1, <1>2, <1>3, <1>4, <1>5, <1>6, <1>7 DEF TypeOK

LEMMA TypeInit == Init => TypeOK
  <1> SUFFICES ASSUME Init PROVE TypeOK
    OBVIOUS
  <1>1. stages \in [Stages -> Object]
    BY DEF Init, Object, States
  <1>2. feed \in [Stages -> Seq(Object)] /\ told \in [Stages -> Seq(Object)]
    <2>1. \A s \in Stages : <<stages[s]>> \in Seq(Object)
      BY <1>1
    <2>2. feed = [s \in Stages |-> <<stages[s]>>] /\ told = [s \in Stages |-> <<>>]
      BY DEF Init
    <2> QED BY <2>1, <2>2
  <1>3. waiting \in [Stages -> WaitingStage] /\ cache \in [Stages -> CacheEntry]
    BY NotCachedType DEF Init, NotWaiting, WaitingStage
  <1> QED BY <1>1, <1>2, <1>3 DEF Init, TypeOK

LEMMA TypeStep == TypeOK /\ [Next]_vars => TypeOK'
  <1> SUFFICES ASSUME TypeOK, [Next]_vars PROVE TypeOK'
    OBVIOUS
  <1>1. CASE UNCHANGED vars
    BY <1>1 DEF vars, TypeOK
  <1>2. CASE Next
    BY <1>2, TypeOfOthers, TypeOfDeliver, TypeOfCacheHandler, TypeOfQueueHandlers,
       TypeOfPermitPhase, TypeOfLoop, TypeOfBindings, TypeOfRestart
       DEF Next, QueueHandler, LoopStep, AnyBindingStep
  <1> QED BY <1>1, <1>2

(* The API server's objects, the informer's, the handlers, cache, queue,   *)
(* loop and bindings stay well typed.                                      *)
THEOREM TypeCorrect == Spec => []TypeOK
  BY TypeInit, TypeStep, PTL DEF Spec

----------------------------------------------------------------------------
(* The inductive invariant, stage by stage *)

Assigned(s) == assignedStage(stages[s])
BindingsOf(s) == {b \in bindings : b.s = s}

\* The attempts that have the stage assumed and have not sent the bind request.
Owners(s) == {o \in bindings \cup {loop} : o.s = s /\ o.pc \in {"permit", "wait", "bind"}}

\* The stage is gone and the cache knows everything about it.
Settled(s) == stages[s].gone /\ feed[s] = <<>> /\ cacheAt[s] = Len(told[s])

ToldReady(s) == Len(told[s]) > 0 /\ ~assignedStage(told[s][1])
Clean(s) == s \notin tampered \cup merged \cup doubtful \cup remade

(* The log: the objects the informer has handed out, then those on their way. *)

\* A deletion is the last a stage sees.
GoneIsLast(s) ==
  /\ \A i \in 1..Len(told[s]) :
       told[s][i].gone => i = Len(told[s]) /\ feed[s] = <<>> /\ stages[s].gone
  /\ \A j \in 1..Len(feed[s]) : feed[s][j].gone => j = Len(feed[s]) /\ stages[s].gone

\* The log ends with what the API server has.
LastIsStored(s) ==
  /\ Len(feed[s]) > 0 => feed[s][Len(feed[s])] = stages[s]
  /\ feed[s] = <<>> /\ Len(told[s]) > 0 =>
       /\ assignedStage(told[s][Len(told[s])]) <=> Assigned(s)
       /\ told[s][Len(told[s])].gone <=> stages[s].gone
  /\ feed[s] = <<>> /\ Len(told[s]) = 0 => stages[s].gone

\* Unless it was written ready again, a stage that is assigned stays so.
AssignedForGood(s) ==
  s \notin remade =>
    /\ \A i, j \in 1..Len(told[s]) :
         i < j /\ assignedStage(told[s][i]) => assignedStage(told[s][j])
    /\ \A i, j \in 1..Len(feed[s]) :
         i < j /\ assignedStage(feed[s][i]) => assignedStage(feed[s][j])
    /\ \A i \in 1..Len(told[s]), j \in 1..Len(feed[s]) :
         assignedStage(told[s][i]) => assignedStage(feed[s][j])
    /\ \A i \in 1..Len(told[s]) : assignedStage(told[s][i]) => Assigned(s)
    /\ \A j \in 1..Len(feed[s]) : assignedStage(feed[s][j]) => Assigned(s)

\* The bind requests of a process name one worker.
SameWorker(s) ==
  s \notin tampered \cup doubtful \cup remade =>
    /\ \A i \in 1..Len(told[s]) :
         assignedStage(told[s][i]) => told[s][i].worker = stages[s].worker
    /\ \A j \in 1..Len(feed[s]) :
         assignedStage(feed[s][j]) => feed[s][j].worker = stages[s].worker

\* Unless a re-list merged them, the deletion of an assigned stage follows an
\* object that is assigned.
GoneFollows(s) ==
  s \notin merged =>
    /\ \A i \in 1..Len(told[s]) :
         told[s][i].gone /\ assignedStage(told[s][i]) =>
           i > 1 /\ assignedStage(told[s][i - 1])
    /\ \A j \in 1..Len(feed[s]) :
         feed[s][j].gone /\ assignedStage(feed[s][j]) =>
           IF j > 1 THEN assignedStage(feed[s][j - 1])
           ELSE Len(told[s]) > 0 /\ assignedStage(told[s][Len(told[s])])

\* A process that was told nothing of the stage has not changed it.
FirstIsStored(s) ==
  s \notin doubtful \cup remade /\ Len(told[s]) = 0 /\ Assigned(s) =>
    \A j \in 1..Len(feed[s]) : assignedStage(feed[s][j])

Log(s) ==
  /\ GoneIsLast(s) /\ LastIsStored(s) /\ AssignedForGood(s) /\ SameWorker(s)
  /\ GoneFollows(s) /\ FirstIsStored(s)

(* The queue, the loop and the bindings. *)

Positions(s) ==
  /\ cacheAt[s] <= Len(told[s]) /\ queueAt[s] <= Len(told[s])
  /\ held = s => queueAt[s] < Len(told[s])
  /\ queue[s] <= Len(told[s])
  /\ cache[s].obj <= Len(told[s])
  /\ cache[s].assumed => cache[s].obj # 0
  /\ loop.s = s => loop.obj \in 1..Len(told[s])
  /\ \A b \in BindingsOf(s) : b.pc # "orphan" => b.obj \in 1..Len(told[s])

\* Only a stage that was ready when the process first heard of it is attempted.
AttemptedWasReady(s) ==
  s \notin remade /\ (queue[s] # 0 \/ held = s \/ Busy(s)) => ToldReady(s)

BindingsOK(s) ==
  \A b \in BindingsOf(s) :
    /\ b.pc = "bound" /\ s \notin remade => Assigned(s)
    /\ b.pc = "orphan" => s \in doubtful

\* No ready stage the queue was told of is lost.
Somewhere(s) ==
  s \notin remade /\ ~Assigned(s) /\ ~stages[s].gone /\ queueAt[s] > 0 =>
    queue[s] # 0 \/ Busy(s) \/ s \in stranded

\* skipStageSchedule holds until assume.
AssumeUnassumed(s) == loop.s = s /\ loop.pc = "assume" => ~cache[s].assumed

Hold(s) ==
  /\ Positions(s) /\ AttemptedWasReady(s) /\ BindingsOK(s) /\ Somewhere(s)
  /\ AssumeUnassumed(s)

(* The cache. *)

\* An assumption belongs to one attempt, and the cache has it on its worker.
OwnerHasCache(s) ==
  s \notin remade /\ (Assigned(s) => s \notin doubtful) =>
    \A o \in Owners(s) :
      /\ \A p \in Owners(s) : p = o
      /\ cache[s].obj = o.obj /\ cache[s].assumed /\ cache[s].on = o.w
      /\ told[s][o.obj].worker = o.w

\* A stage that is assigned and there is not about to be bound.
NoOwnerOfAssigned(s) ==
  s \notin doubtful \cup remade /\ Assigned(s) /\ Owners(s) # {} => Settled(s)

\* Of a ready stage the cache has nothing but assumptions.
CachedIsOwned(s) ==
  s \notin remade /\ ~Assigned(s) /\ cache[s].obj # 0 => Owners(s) # {}

\* From the bind request to the deletion the cache has the stage, so that no
\* copy of it in the queue can be assumed.
AssignedIsCached(s) ==
  s \notin doubtful \cup remade /\ Assigned(s) /\ ToldReady(s) =>
    cache[s].obj # 0 \/ Settled(s)

\* What the cache has before the first assigned object, after it, and after
\* the deletion.
Seen(s) == cacheAt[s] > 0 /\ assignedStage(told[s][cacheAt[s]])
CacheBefore(s) ==
  Clean(s) /\ Assigned(s) /\ ~Seen(s) /\ cache[s].obj # 0 =>
    cache[s].assumed /\ cache[s].on = Stored(s).worker
CacheAfter(s) ==
  Clean(s) /\ Seen(s) /\ ~told[s][cacheAt[s]].gone =>
    /\ cache[s].obj # 0 /\ ~cache[s].assumed
    /\ assignedStage(Stored(s)) /\ cache[s].on = Stored(s).worker
CacheGone(s) ==
  Clean(s) /\ Seen(s) /\ told[s][cacheAt[s]].gone /\ cache[s].obj # 0 => Owners(s) # {}

Cached(s) ==
  /\ OwnerHasCache(s) /\ NoOwnerOfAssigned(s) /\ CachedIsOwned(s) /\ AssignedIsCached(s)
  /\ CacheBefore(s) /\ CacheAfter(s) /\ CacheGone(s)

StageInv(s) == Log(s) /\ Hold(s) /\ Cached(s)
IInv ==
  /\ TypeOK
  /\ \A s \in Stages : StageInv(s)
  /\ ExitsOnlyWhenTampered

----------------------------------------------------------------------------
(* What does not change *)

\* The flags of a stage are raised, never taken back.
FlagsGrow(s) ==
  /\ s \in doubtful => s \in doubtful'
  /\ s \in tampered => s \in tampered'
  /\ s \in merged => s \in merged'
  /\ s \in remade => s \in remade'
SameLog(s) ==
  stages'[s] = stages[s] /\ feed'[s] = feed[s] /\ told'[s] = told[s] /\ FlagsGrow(s)
SameCache(s) ==
  SameLog(s) /\ cacheAt'[s] = cacheAt[s] /\ cache'[s] = cache[s] /\ Owners(s)' = Owners(s)
SameStage(s) ==
  /\ SameLog(s) /\ cacheAt'[s] = cacheAt[s] /\ cache'[s] = cache[s]
  /\ queueAt'[s] = queueAt[s] /\ queue'[s] = queue[s] /\ (held' = s <=> held = s)
  /\ s \in stranded => s \in stranded'
  /\ BindingsOf(s)' = BindingsOf(s)
  /\ loop' = loop \/ (loop.s # s /\ loop'.s # s)

LEMMA LogFrame ==
  ASSUME NEW s \in Stages, Log(s), SameLog(s)
  PROVE  Log(s)'
  <1>1. GoneIsLast(s)' /\ LastIsStored(s)'
    BY DEF Log, SameLog, GoneIsLast, LastIsStored, Assigned
  <1>2. AssignedForGood(s)'
    BY DEF Log, SameLog, FlagsGrow, AssignedForGood, Assigned
  <1>3. SameWorker(s)'
    BY DEF Log, SameLog, FlagsGrow, SameWorker
  <1>4. GoneFollows(s)' /\ FirstIsStored(s)'
    BY DEF Log, SameLog, FlagsGrow, GoneFollows, FirstIsStored, Assigned
  <1> QED BY <1>1, <1>2, <1>3, <1>4 DEF Log

LEMMA CacheFrame ==
  ASSUME NEW s \in Stages, Cached(s), SameCache(s)
  PROVE  Cached(s)'
  <1>0. /\ Assigned(s)' = Assigned(s) /\ Settled(s)' = Settled(s)
        /\ ToldReady(s)' = ToldReady(s) /\ Seen(s)' = Seen(s)
        /\ Stored(s)' = Stored(s) /\ Owners(s)' = Owners(s) /\ cache'[s] = cache[s]
        /\ told'[s] = told[s] /\ cacheAt'[s] = cacheAt[s]
        /\ (Clean(s)' => Clean(s)) /\ FlagsGrow(s)
    BY DEF SameCache, SameLog, FlagsGrow, Assigned, Settled, ToldReady, Seen, Stored, Clean
  <1> USE DEF Cached, FlagsGrow
  <1>1. OwnerHasCache(s)'
    BY <1>0 DEF OwnerHasCache
  <1>2. NoOwnerOfAssigned(s)' /\ CachedIsOwned(s)' /\ AssignedIsCached(s)'
    BY <1>0 DEF NoOwnerOfAssigned, CachedIsOwned, AssignedIsCached
  <1>3. CacheBefore(s)' /\ CacheAfter(s)' /\ CacheGone(s)'
    BY <1>0 DEF CacheBefore, CacheAfter, CacheGone
  <1> QED BY <1>1, <1>2, <1>3

LEMMA OwnersFrame ==
  ASSUME NEW s \in Stages, BindingsOf(s)' = BindingsOf(s),
         loop' = loop \/ (loop.s # s /\ loop'.s # s)
  PROVE  Owners(s)' = Owners(s) /\ (Busy(s)' <=> Busy(s))
  <1>1. \A b : (b \in bindings' /\ b.s = s) <=> (b \in bindings /\ b.s = s)
    BY DEF BindingsOf
  <1>2. Owners(s)' = Owners(s)
    BY <1>1 DEF Owners
  <1>3. Busy(s)' <=> Busy(s)
    BY <1>1 DEF Busy
  <1> QED BY <1>2, <1>3

LEMMA StageFrame ==
  ASSUME NEW s \in Stages, StageInv(s), SameStage(s)
  PROVE  StageInv(s)'
  <1>1. Owners(s)' = Owners(s) /\ (Busy(s)' <=> Busy(s))
    BY OwnersFrame DEF SameStage
  <1>2. Log(s)' /\ Cached(s)'
    BY <1>1, LogFrame, CacheFrame DEF StageInv, SameStage, SameCache
  <1>3. Assigned(s)' = Assigned(s) /\ ToldReady(s)' = ToldReady(s)
    BY DEF SameStage, SameLog, Assigned, ToldReady
  <1>4. Positions(s)'
    BY DEF StageInv, Hold, Positions, SameStage, SameLog
  <1>5. AttemptedWasReady(s)' /\ BindingsOK(s)'
    BY <1>1, <1>3
       DEF StageInv, Hold, AttemptedWasReady, BindingsOK, SameStage, SameLog, FlagsGrow
  <1>6. Somewhere(s)' /\ AssumeUnassumed(s)'
    BY <1>1, <1>3
       DEF StageInv, Hold, Somewhere, AssumeUnassumed, SameStage, SameLog, FlagsGrow
  <1> QED BY <1>2, <1>4, <1>5, <1>6 DEF StageInv, Hold

LEMMA StageTypes ==
  ASSUME TypeOK, NEW s \in Stages
  PROVE  /\ stages[s] \in Object /\ told[s] \in Seq(Object) /\ feed[s] \in Seq(Object)
         /\ Len(told[s]) \in Nat /\ Len(feed[s]) \in Nat
         /\ feed[s] = <<>> <=> Len(feed[s]) = 0
         /\ cacheAt[s] \in Nat /\ queueAt[s] \in Nat /\ queue[s] \in Nat
         /\ cache[s] \in CacheEntry /\ cache[s].obj \in Nat /\ cache[s].assumed \in BOOLEAN
         /\ \A i \in 1..Len(told[s]) : told[s][i] \in Object
         /\ \A j \in 1..Len(feed[s]) : feed[s][j] \in Object
  <1>1. /\ stages[s] \in Object /\ told[s] \in Seq(Object) /\ feed[s] \in Seq(Object)
        /\ cacheAt[s] \in Nat /\ queueAt[s] \in Nat /\ queue[s] \in Nat
        /\ cache[s] \in CacheEntry
    BY DEF TypeOK
  <1>2. /\ Len(told[s]) \in Nat /\ Len(feed[s]) \in Nat
        /\ feed[s] = <<>> <=> Len(feed[s]) = 0
    BY <1>1
  <1>3. /\ \A i \in 1..Len(told[s]) : told[s][i] \in Object
        /\ \A j \in 1..Len(feed[s]) : feed[s][j] \in Object
    BY <1>1
  <1>4. cache[s].obj \in Nat /\ cache[s].assumed \in BOOLEAN
    BY <1>1 DEF CacheEntry
  <1> QED BY <1>1, <1>2, <1>3, <1>4

LEMMA ReadyOrAssigned ==
  ASSUME NEW o \in Object
  PROVE  readyStage(o) <=> ~assignedStage(o)
  BY DEF Object, States, readyStage, assignedStage

\* A step about one stage that ends no process keeps the invariant if that
\* stage does.
LEMMA OneStage ==
  ASSUME IInv, TypeOK', NEW s \in Stages, StageInv(s)',
         \A t \in Stages \ {s} : SameStage(t),
         UNCHANGED exited, tampered \subseteq tampered', merged \subseteq merged',
         doubtful \subseteq doubtful', remade \subseteq remade'
  PROVE  IInv'
  <1>1. \A t \in Stages : StageInv(t)'
    BY StageFrame DEF IInv
  <1>2. ExitsOnlyWhenTampered'
    BY DEF IInv, ExitsOnlyWhenTampered
  <1> QED BY <1>1, <1>2 DEF IInv

LEMMA NoStageChanges ==
  ASSUME IInv, TypeOK', UNCHANGED <<stages, feed, told, cacheAt, queueAt, held, queue, cache,
           loop, bindings, exited, stranded, doubtful, tampered, merged, remade>>
  PROVE  IInv'
  <1>1. \A t \in Stages : SameStage(t)
    BY DEF SameStage, SameLog, FlagsGrow, BindingsOf
  <1>2. ExitsOnlyWhenTampered'
    BY DEF IInv, ExitsOnlyWhenTampered
  <1> QED BY <1>1, <1>2, StageFrame DEF IInv

----------------------------------------------------------------------------
(* The queue's handlers *)

LEMMA QueueEvent ==
  ASSUME TypeOK, NEW s \in Stages, NEW event, QueueTurn(s, event)
  PROVE  LET i == queueAt[s] + 1
         IN /\ i \in 1..Len(told[s])
            /\ event \in {"add", "update"} => ~told[s][i].gone /\ ~assignedStage(told[s][i])
            /\ event = "update" => queueAt[s] > 0
            /\ event \in {"delete", "none"} => told[s][i].gone \/ assignedStage(told[s][i])
  <1> DEFINE i == queueAt[s] + 1
             accepted == {j \in DOMAIN told[s] : readyStage(told[s][j])}
  <1>1. queueAt[s] \in Nat /\ told[s] \in Seq(Object) /\ Len(told[s]) \in Nat
        /\ queueAt[s] < Len(told[s])
    BY StageTypes DEF QueueTurn
  <1>2. i \in 1..Len(told[s])
    BY <1>1
  <1>3. event = Event(s, i, accepted)
    BY DEF QueueTurn
  <1>4. DOMAIN told[s] = 1..Len(told[s]) /\ told[s][i] \in Object
    BY <1>1, <1>2, StageTypes
  <1>5. i \in accepted <=> ~assignedStage(told[s][i])
    BY <1>2, <1>4, ReadyOrAssigned
  <1>6. i - 1 \in accepted => queueAt[s] > 0
    BY <1>1, <1>4
  <1> HIDE DEF i, accepted
  <1>7. event \in {"add", "update"} => ~told[s][i].gone /\ i \in accepted
    BY <1>3 DEF Event
  <1>8. event = "update" => i - 1 \in accepted
    BY <1>3 DEF Event
  <1>9. event \in {"delete", "none"} => told[s][i].gone \/ i \notin accepted
    BY <1>3 DEF Event
  <1> QED BY <1>2, <1>5, <1>6, <1>7, <1>8, <1>9 DEF i

\* A stage that is ready and there: every object of it is.
LEMMA ReadyAllAlong ==
  ASSUME NEW s \in Stages, Log(s), s \notin remade, ~Assigned(s), ~stages[s].gone,
         NEW i \in 1..Len(told[s])
  PROVE  ~told[s][i].gone /\ ~assignedStage(told[s][i])
  BY DEF Log, GoneIsLast, AssignedForGood

\* Any ready object is preceded by ready ones only.
LEMMA ReadyFromTheStart ==
  ASSUME TypeOK, NEW s \in Stages, Log(s), s \notin remade,
         NEW i \in 1..Len(told[s]), ~assignedStage(told[s][i])
  PROVE  ToldReady(s)
  <1>1. Len(told[s]) \in Nat
    BY StageTypes
  <1>2. 1 \in 1..Len(told[s]) /\ (1 < i \/ 1 = i)
    BY <1>1
  <1> QED BY <1>1, <1>2 DEF Log, AssignedForGood, ToldReady

\* What the queue's handlers leave alone.
QueueOnly ==
  UNCHANGED <<stages, feed, told, cacheAt, cache, loop, bindings, exited, doubtful,
              tampered, merged, remade>>

LEMMA QueueFrame ==
  ASSUME QueueOnly, NEW s \in Stages, StageInv(s)
  PROVE  /\ Log(s)' /\ Cached(s)' /\ (Busy(s)' <=> Busy(s))
         /\ BindingsOK(s)' /\ AssumeUnassumed(s)'
         /\ (Assigned(s)' <=> Assigned(s)) /\ (ToldReady(s)' <=> ToldReady(s))
  <1>1. BindingsOf(s)' = BindingsOf(s) /\ Owners(s)' = Owners(s) /\ (Busy(s)' <=> Busy(s))
    BY DEF QueueOnly, BindingsOf, Owners, Busy
  <1>2. SameLog(s) /\ SameCache(s)
    BY <1>1 DEF QueueOnly, SameLog, SameCache, FlagsGrow
  <1>3. (Assigned(s)' <=> Assigned(s)) /\ (ToldReady(s)' <=> ToldReady(s))
    BY DEF QueueOnly, Assigned, ToldReady
  <1>4. BindingsOK(s)'
    BY <1>1, <1>3 DEF QueueOnly, StageInv, Hold, BindingsOK
  <1>5. AssumeUnassumed(s)'
    BY DEF QueueOnly, StageInv, Hold, AssumeUnassumed
  <1> QED BY <1>1, <1>2, <1>3, <1>4, <1>5, LogFrame, CacheFrame DEF StageInv

\* A handler of the queue that keeps the positions, the stages attempted and
\* the ready stage somewhere.
LEMMA QueueStep ==
  ASSUME IInv, TypeOK', NEW s \in Stages, QueueOnly,
         \A t \in Stages \ {s} :
           /\ queueAt'[t] = queueAt[t] /\ queue'[t] = queue[t] /\ (held' = t <=> held = t)
           /\ (t \in stranded => t \in stranded'),
         queueAt'[s] <= Len(told[s]), held' = s => queueAt'[s] < Len(told[s]),
         queue'[s] <= Len(told[s]),
         s \notin remade /\ (queue'[s] # 0 \/ held' = s) => ToldReady(s),
         s \notin remade /\ ~Assigned(s) /\ ~stages[s].gone /\ queueAt'[s] > 0 =>
           queue'[s] # 0 \/ Busy(s) \/ s \in stranded'
  PROVE  IInv'
  <1>1. StageInv(s)
    BY DEF IInv
  <1>2. /\ Log(s)' /\ Cached(s)' /\ (Busy(s)' <=> Busy(s))
        /\ BindingsOK(s)' /\ AssumeUnassumed(s)'
        /\ (Assigned(s)' <=> Assigned(s)) /\ (ToldReady(s)' <=> ToldReady(s))
    BY <1>1, QueueFrame
  <1>3. Positions(s)'
    BY <1>1 DEF StageInv, Hold, Positions, QueueOnly, BindingsOf
  <1>4. AttemptedWasReady(s)' /\ Somewhere(s)'
    BY <1>1, <1>2 DEF StageInv, Hold, AttemptedWasReady, Somewhere, QueueOnly
  <1>5. StageInv(s)'
    BY <1>2, <1>3, <1>4 DEF StageInv, Hold
  <1>6. \A t \in Stages \ {s} : SameStage(t)
    BY DEF QueueOnly, SameStage, SameLog, FlagsGrow, BindingsOf
  <1> QED BY <1>5, <1>6, OneStage DEF QueueOnly

LEMMA QueueHandlersKeep ==
  ASSUME IInv, TypeOK', NEW s \in Stages, QueueHandler(s)
  PROVE  IInv'
  <1> DEFINE i == queueAt[s] + 1
  <1>1. TypeOK /\ StageInv(s)
    BY DEF IInv
  <1>2. /\ queueAt[s] \in Nat /\ queue[s] \in Nat /\ Len(told[s]) \in Nat /\ i # 0
        /\ queueAt \in [Stages -> Nat] /\ queue \in [Stages -> Nat]
    <2>1. queueAt[s] \in Nat /\ queue[s] \in Nat /\ Len(told[s]) \in Nat
      BY <1>1, StageTypes
    <2>2. i # 0
      BY <2>1
    <2>3. queueAt \in [Stages -> Nat] /\ queue \in [Stages -> Nat]
      BY <1>1 DEF TypeOK
    <2> QED BY <2>1, <2>2, <2>3
  <1>3. Positions(s) /\ AttemptedWasReady(s) /\ Somewhere(s) /\ Log(s)
    BY <1>1 DEF StageInv, Hold
  <1>4. s # NoStage
    BY SchedulerAssumption
  <1>5. CASE addStageToSchedulingQueue(s)
    <2>1. QueueTurn(s, "add")
      BY <1>5 DEF addStageToSchedulingQueue
    <2>2. i \in 1..Len(told[s]) /\ ~assignedStage(told[s][i])
      BY <1>1, <2>1, QueueEvent
    <2>3. s \notin remade => ToldReady(s)
      BY <1>1, <1>3, <2>2, ReadyFromTheStart
    <2>4. /\ QueueOnly /\ held' = held /\ stranded' = stranded \ {s}
          /\ queueAt' = [queueAt EXCEPT ![s] = i] /\ queue' = [queue EXCEPT ![s] = i]
      BY <1>5 DEF addStageToSchedulingQueue, QueueOnly, QueueTold, Enqueue, api
    <2>5. held # s
      BY <1>4, <2>1 DEF QueueTurn
    <2>6. queueAt'[s] = i /\ queue'[s] = i
      BY <1>2, <2>4
    <2>7. \A t \in Stages \ {s} :
            /\ queueAt'[t] = queueAt[t] /\ queue'[t] = queue[t] /\ (held' = t <=> held = t)
            /\ (t \in stranded => t \in stranded')
      BY <1>2, <2>4
    <2>8. i <= Len(told[s])
      BY <1>2, <2>2
    <2> HIDE DEF i
    <2> QED BY <1>2, <2>3, <2>4, <2>5, <2>6, <2>7, <2>8, QueueStep
  <1>6. CASE updateStageInSchedulingQueue(s)
    <2>1. QueueTurn(s, "update")
      BY <1>6 DEF updateStageInSchedulingQueue
    <2>2. i \in 1..Len(told[s]) /\ ~assignedStage(told[s][i]) /\ queueAt[s] > 0
      BY <1>1, <2>1, QueueEvent
    <2>3. s \notin remade => ToldReady(s)
      BY <1>1, <1>3, <2>2, ReadyFromTheStart
    <2>4. /\ QueueOnly /\ queue' = queue /\ stranded' = stranded
          /\ \/ queueAt' = [queueAt EXCEPT ![s] = i] /\ held' = held
             \/ queueAt' = queueAt /\ held' = s
      BY <1>6, Zenon
         DEF updateStageInSchedulingQueue, QueueOnly, QueueTold, api, history
    <2>5. held = NoStage
      BY <2>1 DEF QueueTurn
    <2>6. \A t \in Stages \ {s} :
            /\ queueAt'[t] = queueAt[t] /\ queue'[t] = queue[t] /\ (held' = t <=> held = t)
            /\ (t \in stranded => t \in stranded')
      BY <1>2, <2>4, <2>5, SchedulerAssumption
    <2>7. queueAt'[s] <= Len(told[s]) /\ (held' = s => queueAt'[s] < Len(told[s]))
      BY <1>2, <1>4, <2>2, <2>4, <2>5
    <2>8. queue'[s] <= Len(told[s])
      BY <1>3, <2>4 DEF Positions
    <2>9. s \notin remade /\ ~Assigned(s) /\ ~stages[s].gone =>
            queue'[s] # 0 \/ Busy(s) \/ s \in stranded'
      BY <1>3, <2>2, <2>4 DEF Somewhere
    <2> QED BY <2>3, <2>4, <2>6, <2>7, <2>8, <2>9, QueueStep
  <1>7. CASE QueueUpdate(s)
    <2>1. /\ QueueOnly /\ held = s /\ held' = NoStage /\ stranded' = stranded \ {s}
          /\ queueAt' = [queueAt EXCEPT ![s] = i] /\ queue' = [queue EXCEPT ![s] = i]
      BY <1>7 DEF QueueUpdate, QueueOnly, QueueTold, Enqueue, api
    <2>2. i <= Len(told[s]) /\ (s \notin remade => ToldReady(s))
      BY <1>2, <1>3, <2>1 DEF Positions, AttemptedWasReady
    <2>3. queueAt'[s] = i /\ queue'[s] = i
      BY <1>2, <2>1
    <2>4. \A t \in Stages \ {s} :
            /\ queueAt'[t] = queueAt[t] /\ queue'[t] = queue[t] /\ (held' = t <=> held = t)
            /\ (t \in stranded => t \in stranded')
      BY <1>2, <2>1, SchedulerAssumption
    <2> HIDE DEF i
    <2> QED BY <1>2, <1>4, <2>1, <2>2, <2>3, <2>4, QueueStep
  <1>8. CASE deleteStageFromSchedulingQueue(s) \/ QueueFilterDrops(s)
    <2>1. QueueTurn(s, "delete") \/ QueueTurn(s, "none")
      BY <1>8 DEF deleteStageFromSchedulingQueue, QueueFilterDrops
    <2>2. i \in 1..Len(told[s]) /\ (told[s][i].gone \/ assignedStage(told[s][i]))
      BY <1>1, <2>1, QueueEvent
    <2>3. s \notin remade => Assigned(s) \/ stages[s].gone
      BY <1>3, <2>2, ReadyAllAlong
    <2>4. /\ QueueOnly /\ held' = held /\ stranded' = stranded
          /\ queueAt' = [queueAt EXCEPT ![s] = i] /\ queue' \in {queue, [queue EXCEPT ![s] = 0]}
      BY <1>8
         DEF deleteStageFromSchedulingQueue, QueueFilterDrops, QueueOnly, QueueTold, api, history
    <2>5. held # s
      BY <1>4, <2>1 DEF QueueTurn
    <2>6. queueAt'[s] = i /\ (queue'[s] = 0 \/ queue'[s] = queue[s])
      BY <1>2, <2>4
    <2>7. \A t \in Stages \ {s} :
            /\ queueAt'[t] = queueAt[t] /\ queue'[t] = queue[t] /\ (held' = t <=> held = t)
            /\ (t \in stranded => t \in stranded')
      BY <1>2, <2>4
    <2>8. queue'[s] <= Len(told[s]) /\ i <= Len(told[s])
      BY <1>2, <1>3, <2>2, <2>6 DEF Positions
    <2>9. s \notin remade /\ (queue'[s] # 0 \/ held' = s) => ToldReady(s)
      BY <1>3, <2>4, <2>5, <2>6 DEF AttemptedWasReady
    <2> HIDE DEF i
    <2> QED BY <1>2, <2>3, <2>4, <2>5, <2>6, <2>7, <2>8, <2>9, QueueStep
  <1> QED BY <1>5, <1>6, <1>7, <1>8 DEF QueueHandler

----------------------------------------------------------------------------
(* The attempts: what they do to an assumption *)

\* The stage's assumption is in order: its one owner can forget it.
InOrder(s) == s \notin remade /\ (Assigned(s) => s \notin doubtful)

LEMMA OwnerForgets ==
  ASSUME TypeOK, NEW s \in Stages, Cached(s), SameLog(s), cacheAt'[s] = cacheAt[s],
         NEW o \in Owners(s), o.obj # 0, cache' = ForgetStage(s, o.obj),
         Owners(s)' = Owners(s) \ {o}
  PROVE  Cached(s)'
  <1>0. /\ Assigned(s)' = Assigned(s) /\ Settled(s)' = Settled(s)
        /\ ToldReady(s)' = ToldReady(s) /\ Seen(s)' = Seen(s)
        /\ told'[s] = told[s] /\ cacheAt'[s] = cacheAt[s]
        /\ (Clean(s)' => Clean(s)) /\ FlagsGrow(s)
    BY DEF SameLog, FlagsGrow, Assigned, Settled, ToldReady, Seen, Clean
  <1>1. CASE ~InOrder(s)
    <2>1. s \in remade \/ (Assigned(s) /\ s \in doubtful)
      BY <1>1 DEF InOrder
    <2>2. s \in remade' \/ (Assigned(s)' /\ s \in doubtful')
      BY <1>0, <2>1 DEF FlagsGrow
    <2> QED BY <2>2 DEF Cached, OwnerHasCache, NoOwnerOfAssigned, CachedIsOwned,
                        AssignedIsCached, CacheBefore, CacheAfter, CacheGone, Clean
  <1>2. CASE InOrder(s)
    <2>1. /\ \A p \in Owners(s) : p = o
          /\ cache[s].obj = o.obj /\ cache[s].assumed /\ cache[s].on = o.w
          /\ told[s][o.obj].worker = o.w
      BY <1>2 DEF Cached, OwnerHasCache, InOrder
    <2>2. Owners(s)' = {}
      BY <2>1
    <2>3. Removes(s, told[s][o.obj].worker)
      BY <2>1 DEF Removes
    <2>4. cache' = [cache EXCEPT ![s] = NotCached]
      BY <2>1, <2>3 DEF ForgetStage, Stored
    <2>5. cache'[s].obj = 0
      BY <2>4 DEF TypeOK, NotCached
    <2>6. s \notin doubtful \cup remade /\ Assigned(s) => Settled(s)
      BY DEF Cached, NoOwnerOfAssigned
    <2>7. ~(Clean(s) /\ Seen(s) /\ ~told[s][cacheAt[s]].gone)
      BY <2>1 DEF Cached, CacheAfter
    <2>8. OwnerHasCache(s)' /\ NoOwnerOfAssigned(s)' /\ CachedIsOwned(s)'
      BY <2>2, <2>5 DEF OwnerHasCache, NoOwnerOfAssigned, CachedIsOwned
    <2>9. AssignedIsCached(s)'
      BY <1>0, <2>6 DEF AssignedIsCached, FlagsGrow
    <2>10. CacheBefore(s)' /\ CacheAfter(s)' /\ CacheGone(s)'
      BY <1>0, <2>5, <2>7 DEF CacheBefore, CacheAfter, CacheGone
    <2> QED BY <2>8, <2>9, <2>10 DEF Cached
  <1> QED BY <1>1, <1>2

LEMMA OwnerPasses ==
  ASSUME NEW s \in Stages, Cached(s), SameLog(s), cacheAt'[s] = cacheAt[s],
         cache'[s] = cache[s], NEW o \in Owners(s), NEW p, p.obj = o.obj, p.w = o.w,
         Owners(s)' = (Owners(s) \ {o}) \cup {p}
  PROVE  Cached(s)'
  <1>0. /\ Assigned(s)' = Assigned(s) /\ Settled(s)' = Settled(s)
        /\ ToldReady(s)' = ToldReady(s) /\ Seen(s)' = Seen(s) /\ Stored(s)' = Stored(s)
        /\ told'[s] = told[s] /\ cacheAt'[s] = cacheAt[s] /\ cache'[s] = cache[s]
        /\ (Clean(s)' => Clean(s)) /\ FlagsGrow(s)
    BY DEF SameLog, FlagsGrow, Assigned, Settled, ToldReady, Seen, Stored, Clean
  <1>1. Owners(s) # {} /\ Owners(s)' # {}
    OBVIOUS
  <1>2. OwnerHasCache(s)'
    <2> SUFFICES ASSUME s \notin remade', Assigned(s)' => s \notin doubtful'
                 PROVE  \A q \in Owners(s)' :
                          /\ \A r \in Owners(s)' : r = q
                          /\ cache'[s].obj = q.obj /\ cache'[s].assumed /\ cache'[s].on = q.w
                          /\ told'[s][q.obj].worker = q.w
      BY DEF OwnerHasCache
    <2>1. /\ \A q \in Owners(s) : q = o
          /\ cache[s].obj = o.obj /\ cache[s].assumed /\ cache[s].on = o.w
          /\ told[s][o.obj].worker = o.w
      BY <1>0 DEF Cached, OwnerHasCache, FlagsGrow
    <2>2. Owners(s)' = {p}
      BY <2>1
    <2> QED BY <1>0, <2>1, <2>2
  <1>3. NoOwnerOfAssigned(s)' /\ CachedIsOwned(s)' /\ AssignedIsCached(s)'
    BY <1>0, <1>1 DEF Cached, NoOwnerOfAssigned, CachedIsOwned, AssignedIsCached, FlagsGrow
  <1>4. CacheBefore(s)' /\ CacheAfter(s)' /\ CacheGone(s)'
    BY <1>0, <1>1 DEF Cached, CacheBefore, CacheAfter, CacheGone
  <1> QED BY <1>2, <1>3, <1>4 DEF Cached

----------------------------------------------------------------------------
(* The attempts: steps of the loop and of the bindings *)

AttemptsOnly ==
  UNCHANGED <<stages, feed, told, cacheAt, queueAt, held, exited, tampered, merged, remade>>

\* The bindings of the stage after a step are where they may be.
BindingsPlaced(s) ==
  \A b \in BindingsOf(s)' :
    /\ b.pc # "orphan" => b.obj \in 1..Len(told[s])
    /\ b.pc = "bound" /\ s \notin remade => Assigned(s)
    /\ b.pc = "orphan" => s \in doubtful'

OthersKept(s) ==
  \A t \in Stages \ {s} :
    /\ queue'[t] = queue[t] /\ cache'[t] = cache[t] /\ (t \in stranded => t \in stranded')
    /\ BindingsOf(t)' = BindingsOf(t) /\ (loop' = loop \/ (loop.s # t /\ loop'.s # t))

LEMMA AttemptStep ==
  ASSUME IInv, TypeOK', NEW s \in Stages, AttemptsOnly, doubtful \subseteq doubtful',
         OthersKept(s), Cached(s)',
         queue'[s] <= Len(told[s]), cache'[s].obj <= Len(told[s]),
         cache'[s].assumed => cache'[s].obj # 0,
         loop'.s = s => loop'.obj \in 1..Len(told[s]),
         loop'.s = s /\ loop'.pc = "assume" => ~cache'[s].assumed,
         BindingsPlaced(s),
         queue'[s] # 0 \/ Busy(s)' => queue[s] # 0 \/ Busy(s),
         s \notin remade /\ ~Assigned(s) /\ ~stages[s].gone /\ queueAt[s] > 0 =>
           queue'[s] # 0 \/ Busy(s)' \/ s \in stranded'
  PROVE  IInv'
  <1>1. StageInv(s)
    BY DEF IInv
  <1>2. SameLog(s) /\ Log(s)'
    BY <1>1, LogFrame DEF AttemptsOnly, SameLog, FlagsGrow, StageInv
  <1>3. Assigned(s)' <=> Assigned(s)
    BY DEF AttemptsOnly, Assigned
  <1>4. ToldReady(s)' <=> ToldReady(s)
    BY DEF AttemptsOnly, ToldReady
  <1>5. Positions(s)'
    BY <1>1 DEF StageInv, Hold, Positions, AttemptsOnly, BindingsPlaced
  <1>6. AttemptedWasReady(s)'
    BY <1>1, <1>4 DEF StageInv, Hold, AttemptedWasReady, AttemptsOnly
  <1>7. Somewhere(s)'
    BY <1>3 DEF Somewhere, AttemptsOnly
  <1>8. BindingsOK(s)' /\ AssumeUnassumed(s)'
    BY <1>3 DEF BindingsOK, AssumeUnassumed, AttemptsOnly, BindingsPlaced
  <1>9. StageInv(s)'
    BY <1>2, <1>5, <1>6, <1>7, <1>8 DEF StageInv, Hold
  <1>10. \A t \in Stages \ {s} : SameStage(t)
    BY DEF AttemptsOnly, OthersKept, SameStage, SameLog, FlagsGrow
  <1> QED BY <1>9, <1>10, OneStage DEF AttemptsOnly

\* The parts of the invariant at hand in a step of an attempt for s.
LEMMA AttemptFacts ==
  ASSUME IInv, NEW s \in Stages
  PROVE  /\ TypeOK /\ StageInv(s) /\ Log(s) /\ Cached(s)
         /\ Positions(s) /\ BindingsOK(s) /\ Somewhere(s) /\ AssumeUnassumed(s)
         /\ queue[s] \in Nat /\ cache[s].obj \in Nat /\ Len(told[s]) \in Nat
         /\ queue \in [Stages -> Nat] /\ cache \in [Stages -> CacheEntry]
         /\ bindings \subseteq Attempting(BindingPcs)
         /\ queue[s] <= Len(told[s]) /\ cache[s].obj <= Len(told[s])
         /\ (cache[s].assumed => cache[s].obj # 0)
         /\ (loop.s = s => loop.obj \in 1..Len(told[s]))
         /\ \A b \in BindingsOf(s) :
              /\ b.pc # "orphan" => b.obj \in 1..Len(told[s])
              /\ b.pc = "bound" /\ s \notin remade => Assigned(s)
              /\ b.pc = "orphan" => s \in doubtful
  <1>1. /\ TypeOK /\ StageInv(s) /\ Log(s) /\ Cached(s)
        /\ Positions(s) /\ BindingsOK(s) /\ Somewhere(s) /\ AssumeUnassumed(s)
    BY DEF IInv, StageInv, Hold
  <1>2. queue[s] \in Nat /\ cache[s].obj \in Nat /\ Len(told[s]) \in Nat
    BY <1>1, StageTypes
  <1>3. /\ queue \in [Stages -> Nat] /\ cache \in [Stages -> CacheEntry]
        /\ bindings \subseteq Attempting(BindingPcs)
    BY <1>1 DEF TypeOK
  <1> QED BY <1>1, <1>2, <1>3 DEF Positions, BindingsOK

\* Forgetting leaves an entry that is there or none.
LEMMA ForgetFacts ==
  ASSUME TypeOK, NEW s \in Stages, NEW obj, cache' = ForgetStage(s, obj)
  PROVE  /\ cache'[s] = cache[s] \/ cache'[s] = NotCached
         /\ \A t \in Stages \ {s} : cache'[t] = cache[t]
  BY DEF ForgetStage, TypeOK

LEMMA NothingCached == NotCached.obj = 0 /\ ~NotCached.assumed
  BY DEF NotCached

LEMMA PopKeeps ==
  ASSUME IInv, TypeOK', NEW s \in Stages, Pop(s)
  PROVE  IInv'
  <1>1. Cached(s) /\ queue[s] \in Nat /\ queue[s] <= Len(told[s]) /\ Len(told[s]) \in Nat
        /\ cache[s].obj <= Len(told[s]) /\ (cache[s].assumed => cache[s].obj # 0)
        /\ queue \in [Stages -> Nat] /\ Somewhere(s)
    BY AttemptFacts
  <1>2. /\ AttemptsOnly /\ cache' = cache /\ bindings' = bindings /\ stranded' = stranded
        /\ doubtful' = doubtful /\ queue[s] # 0 /\ queue' = [queue EXCEPT ![s] = 0]
        /\ loop = Popping
    BY DEF Pop, AttemptsOnly, api, handlers, history
  <1>3. loop'.s = s /\ loop'.obj = queue[s] /\ loop'.pc = "schedule"
    BY DEF Pop, Popping
  <1>4. loop.pc = "pop" /\ loop.s = NoStage
    BY <1>2 DEF Popping
  <1>5. OthersKept(s)
    BY <1>1, <1>2, <1>3, <1>4, SchedulerAssumption DEF OthersKept, BindingsOf
  <1>6. Owners(s)' = Owners(s)
    BY <1>2, <1>3, <1>4 DEF Owners
  <1>7. Cached(s)'
    BY <1>1, <1>2, <1>6, CacheFrame DEF SameCache, SameLog, FlagsGrow, AttemptsOnly
  <1>8. Busy(s)' /\ queue'[s] = 0
    BY <1>1, <1>2, <1>3 DEF Busy
  <1>9. BindingsPlaced(s)
    BY <1>2, AttemptFacts DEF BindingsPlaced, BindingsOf
  <1> QED BY <1>1, <1>2, <1>3, <1>5, <1>7, <1>8, <1>9, AttemptStep

LEMMA ScheduleKeeps ==
  ASSUME IInv, TypeOK', ScheduleStage
  PROVE  IInv'
  <1>0. loop.pc = "schedule" /\ TypeOK
    BY DEF ScheduleStage, IInv
  <1>1. PICK s \in Stages : loop.s = s
    BY <1>0, LoopAttempt DEF LoopPcs
  <1>2. Cached(s) /\ queue[s] <= Len(told[s]) /\ cache[s].obj <= Len(told[s])
        /\ (cache[s].assumed => cache[s].obj # 0) /\ Somewhere(s)
        /\ loop.obj \in 1..Len(told[s])
    BY <1>1, AttemptFacts
  <1>3. /\ AttemptsOnly /\ cache' = cache /\ bindings' = bindings /\ stranded' = stranded
        /\ doubtful' = doubtful /\ queue' = queue /\ loop.s = s /\ loop.pc = "schedule"
    BY <1>1 DEF ScheduleStage, AttemptsOnly, api, handlers, history
  <1>4. \/ cache[s].assumed /\ loop' = Popping
        \/ /\ loop'.s = s /\ loop'.obj = loop.obj
           /\ loop'.pc = "assume" /\ ~cache[s].assumed
        \/ loop'.s = s /\ loop'.obj = loop.obj /\ loop'.pc = "get"
    <2>1. TypeOK /\ loop \in Attempting(LoopPcs)
      BY <1>3, LoopAttempt DEF IInv, LoopPcs
    <2>2. \/ cache[s].assumed /\ loop' = Popping
          \/ ~cache[s].assumed /\ \E w : loop' = [loop EXCEPT !.pc = "assume", !.w = w]
          \/ loop' = [loop EXCEPT !.pc = "get"]
      BY <1>1 DEF ScheduleStage, skipStageSchedule
    <2> QED BY <1>3, <2>1, <2>2 DEF Attempting
  <1>5. Popping.s = NoStage /\ Popping.pc = "pop" /\ NoStage \notin Stages
    BY SchedulerAssumption DEF Popping
  <1>6. OthersKept(s)
    BY <1>1, <1>3, <1>4, <1>5 DEF OthersKept, BindingsOf
  <1>7. Owners(s)' = Owners(s)
    BY <1>3, <1>4, <1>5 DEF Owners
  <1>8. Cached(s)'
    BY <1>1, <1>2, <1>3, <1>7, CacheFrame DEF SameCache, SameLog, FlagsGrow, AttemptsOnly
  <1>9. BindingsPlaced(s)
    BY <1>1, <1>3, AttemptFacts DEF BindingsPlaced, BindingsOf
  <1>10. Busy(s)
    BY <1>3 DEF Busy
  <1>11. s \notin remade /\ ~Assigned(s) => Busy(s)'
    <2>1. CASE loop'.s = s
      BY <2>1 DEF Busy
    <2>2. CASE cache[s].assumed
      <3> SUFFICES ASSUME s \notin remade, ~Assigned(s) PROVE Busy(s)'
        OBVIOUS
      <3>1. PICK o : o \in Owners(s)
        BY <1>2, <2>2 DEF Cached, CachedIsOwned
      <3>2. o \in bindings /\ o.s = s /\ o.pc # "orphan"
        BY <1>3, <3>1 DEF Owners
      <3> QED BY <1>3, <3>2 DEF Busy
    <2> QED BY <1>4, <2>1, <2>2
  <1> QED BY <1>1, <1>2, <1>3, <1>4, <1>5, <1>6, <1>8, <1>9, <1>10, <1>11, AttemptStep

LEMMA PermitKeeps ==
  ASSUME IInv, TypeOK', Permit
  PROVE  IInv'
  <1>0. loop.pc = "permit" /\ TypeOK
    BY DEF Permit, IInv
  <1>a. loop \in Attempting(LoopPcs) /\ loop.s \in Stages
    BY <1>0, LoopAttempt DEF LoopPcs
  <1>1. PICK s \in Stages : loop.s = s
    BY <1>a
  <1>2. Cached(s) /\ queue[s] <= Len(told[s]) /\ cache[s].obj <= Len(told[s])
        /\ (cache[s].assumed => cache[s].obj # 0) /\ Len(told[s]) \in Nat
        /\ loop.obj \in 1..Len(told[s]) /\ bindings \subseteq Attempting(BindingPcs)
    BY <1>1, AttemptFacts
  <1>3. /\ AttemptsOnly /\ stranded' = stranded /\ doubtful' = doubtful /\ queue' = queue
        /\ loop.s = s
    BY <1>1 DEF Permit, AttemptsOnly, api, handlers, history
  <1>4. Busy(s) /\ loop \in Owners(s) /\ loop \notin bindings
    BY <1>0, <1>2, <1>3 DEF Busy, Owners, Attempting, BindingPcs
  <1>5. SameLog(s) /\ cacheAt'[s] = cacheAt[s]
    BY <1>3 DEF SameLog, FlagsGrow, AttemptsOnly
  <1>6. Popping.s = NoStage /\ Popping.pc = "pop" /\ NoStage \notin Stages
    BY SchedulerAssumption DEF Popping
  <1>7. ASSUME NEW pc \in {"bind", "wait"}, loop' = Popping, cache' = cache,
               bindings' = bindings \cup {[loop EXCEPT !.pc = pc]}
        PROVE  IInv'
    <2> DEFINE b == [loop EXCEPT !.pc = pc]
    <2>1. b.s = s /\ b.pc = pc /\ b.obj = loop.obj /\ b.w = loop.w
      BY <1>a, <1>1, <1>3 DEF Attempting
    <2> HIDE DEF b
    <2>2. bindings' = bindings \cup {b}
      BY <1>7 DEF b
    <2>3. Owners(s)' = (Owners(s) \ {loop}) \cup {b}
      BY <1>1, <1>4, <1>6, <1>7, <2>1, <2>2 DEF Owners
    <2>4. Cached(s)'
      BY <1>1, <1>2, <1>4, <1>5, <1>7, <2>1, <2>3, OwnerPasses
    <2>5. OthersKept(s)
      BY <1>1, <1>3, <1>6, <1>7, <2>1, <2>2 DEF OthersKept, BindingsOf
    <2>6. BindingsPlaced(s)
      BY <1>1, <1>2, <1>3, <2>1, <2>2, AttemptFacts DEF BindingsPlaced, BindingsOf
    <2>7. Busy(s)'
      BY <2>1, <2>2 DEF Busy
    <2> QED BY <1>1, <1>2, <1>3, <1>4, <1>6, <1>7, <2>4, <2>5, <2>6, <2>7, AttemptStep
  <1>8. ASSUME cache' = ForgetStage(s, loop.obj), bindings' = bindings,
               loop' = [loop EXCEPT !.pc = "get", !.w = NoWorker]
        PROVE  IInv'
    <2>1. loop'.s = s /\ loop'.pc = "get" /\ loop'.obj = loop.obj
      BY <1>a, <1>1, <1>3, <1>8 DEF Attempting
    <2>2. Owners(s)' = Owners(s) \ {loop}
      BY <1>4, <1>8, <2>1 DEF Owners
    <2>3. loop.obj # 0
      BY <1>2
    <2>4. Cached(s)'
      BY <1>0, <1>1, <1>2, <1>4, <1>5, <1>8, <2>2, <2>3, OwnerForgets
    <2>5. /\ cache'[s] = cache[s] \/ cache'[s] = NotCached
          /\ \A t \in Stages \ {s} : cache'[t] = cache[t]
      BY <1>0, <1>1, <1>8, ForgetFacts
    <2>6. cache'[s].obj <= Len(told[s]) /\ (cache'[s].assumed => cache'[s].obj # 0)
      BY <1>2, <2>5, NothingCached
    <2>7. OthersKept(s)
      BY <1>3, <1>8, <2>1, <2>5 DEF OthersKept, BindingsOf
    <2>8. BindingsPlaced(s)
      BY <1>1, <1>3, <1>8, AttemptFacts DEF BindingsPlaced, BindingsOf
    <2>9. Busy(s)'
      BY <2>1 DEF Busy
    <2> QED BY <1>1, <1>2, <1>3, <1>4, <2>1, <2>4, <2>6, <2>7, <2>8, <2>9, AttemptStep
  <1>9. \/ \E pc \in {"bind", "wait"} :
             /\ loop' = Popping /\ cache' = cache
             /\ bindings' = bindings \cup {[loop EXCEPT !.pc = pc]}
        \/ /\ cache' = ForgetStage(s, loop.obj) /\ bindings' = bindings
           /\ loop' = [loop EXCEPT !.pc = "get", !.w = NoWorker]
    BY <1>1 DEF Permit
  <1> QED BY <1>7, <1>8, <1>9

\* The error function gives up on a stage only when it is gone.
LEMMA UnlistedIsGone ==
  ASSUME NEW s \in Stages, Log(s), ~Listed(s), Len(told[s]) \in Nat, Len(told[s]) > 0
  PROVE  stages[s].gone
  <1>1. Len(told[s]) \in 1..Len(told[s]) /\ told[s][Len(told[s])].gone
    BY DEF Listed
  <1> QED BY <1>1 DEF Log, GoneIsLast

LEMMA LoopGetsKeeps ==
  ASSUME IInv, TypeOK', LoopGets
  PROVE  IInv'
  <1>0. loop.pc = "get" /\ TypeOK
    BY DEF LoopGets, IInv
  <1>a. loop \in Attempting(LoopPcs) /\ loop.s \in Stages
    BY <1>0, LoopAttempt DEF LoopPcs
  <1>1. PICK s \in Stages : loop.s = s
    BY <1>a
  <1>2. Cached(s) /\ queue[s] <= Len(told[s]) /\ cache[s].obj <= Len(told[s])
        /\ (cache[s].assumed => cache[s].obj # 0) /\ Len(told[s]) \in Nat /\ Len(told[s]) > 0
        /\ loop.obj \in 1..Len(told[s]) /\ Log(s)
    BY <1>1, AttemptFacts
  <1>3. /\ AttemptsOnly /\ stranded' = stranded /\ doubtful' = doubtful /\ queue' = queue
        /\ loop.s = s /\ cache' = cache /\ bindings' = bindings
    BY <1>1 DEF LoopGets, AttemptsOnly, api, handlers, history
  <1>4. \/ Listed(s) /\ loop'.s = s /\ loop'.pc = "requeue" /\ loop'.obj = Len(told[s])
        \/ ~Listed(s) /\ loop' = Popping
    BY <1>a, <1>1 DEF LoopGets, Attempting
  <1>5. Popping.s = NoStage /\ Popping.pc = "pop" /\ NoStage \notin Stages
    BY SchedulerAssumption DEF Popping
  <1>6. OthersKept(s)
    BY <1>3, <1>4, <1>5 DEF OthersKept, BindingsOf
  <1>7. Owners(s)' = Owners(s)
    BY <1>0, <1>3, <1>4, <1>5 DEF Owners
  <1>8. Cached(s)'
    BY <1>1, <1>2, <1>3, <1>7, CacheFrame DEF SameCache, SameLog, FlagsGrow, AttemptsOnly
  <1>9. BindingsPlaced(s)
    BY <1>1, <1>3, AttemptFacts DEF BindingsPlaced, BindingsOf
  <1>10. Busy(s) /\ (Busy(s)' \/ stages[s].gone)
    BY <1>1, <1>2, <1>3, <1>4, UnlistedIsGone DEF Busy
  <1> QED BY <1>1, <1>2, <1>3, <1>4, <1>5, <1>6, <1>8, <1>9, <1>10, AttemptStep

LEMMA RequeueFacts ==
  ASSUME TypeOK, NEW s \in Stages, NEW obj \in Nat, obj # 0,
         AddUnschedulableIfNotPresent(s, obj)
  PROVE  /\ queue'[s] \in {queue[s], obj} /\ queue'[s] # 0
         /\ \A t \in Stages \ {s} : queue'[t] = queue[t] /\ (t \in stranded => t \in stranded')
  BY DEF AddUnschedulableIfNotPresent, Enqueue, TypeOK

LEMMA LoopRequeuesKeeps ==
  ASSUME IInv, TypeOK', LoopRequeues
  PROVE  IInv'
  <1>0. loop.pc = "requeue" /\ TypeOK
    BY DEF LoopRequeues, IInv
  <1>a. loop \in Attempting(LoopPcs) /\ loop.s \in Stages
    BY <1>0, LoopAttempt DEF LoopPcs
  <1>1. PICK s \in Stages : loop.s = s
    BY <1>a
  <1>2. Cached(s) /\ queue[s] <= Len(told[s]) /\ cache[s].obj <= Len(told[s])
        /\ (cache[s].assumed => cache[s].obj # 0) /\ Len(told[s]) \in Nat
        /\ loop.obj \in 1..Len(told[s])
    BY <1>1, AttemptFacts
  <1>3. /\ AttemptsOnly /\ doubtful' = doubtful /\ loop.s = s /\ loop' = Popping
        /\ cache' = cache /\ bindings' = bindings
        /\ AddUnschedulableIfNotPresent(s, loop.obj)
    BY <1>1 DEF LoopRequeues, AttemptsOnly, api, handlers
  <1>4. loop.obj \in Nat /\ loop.obj # 0
    BY <1>2
  <1>5. /\ queue'[s] \in {queue[s], loop.obj} /\ queue'[s] # 0
        /\ \A t \in Stages \ {s} : queue'[t] = queue[t] /\ (t \in stranded => t \in stranded')
    BY <1>0, <1>1, <1>3, <1>4, RequeueFacts
  <1>6. Popping.s = NoStage /\ Popping.pc = "pop" /\ NoStage \notin Stages
    BY SchedulerAssumption DEF Popping
  <1>7. OthersKept(s)
    BY <1>3, <1>5, <1>6 DEF OthersKept, BindingsOf
  <1>8. Owners(s)' = Owners(s)
    BY <1>0, <1>3, <1>6 DEF Owners
  <1>9. Cached(s)'
    BY <1>1, <1>2, <1>3, <1>8, CacheFrame DEF SameCache, SameLog, FlagsGrow, AttemptsOnly
  <1>10. BindingsPlaced(s)
    BY <1>1, <1>3, AttemptFacts DEF BindingsPlaced, BindingsOf
  <1>11. Busy(s) /\ loop'.s # s /\ queue'[s] <= Len(told[s])
    BY <1>1, <1>2, <1>3, <1>5, <1>6 DEF Busy
  <1> QED BY <1>1, <1>2, <1>3, <1>5, <1>7, <1>9, <1>10, <1>11, AttemptStep

\* A binding that is no owner goes, or makes room for another that is none.
LEMMA NotAnOwner ==
  ASSUME NEW b \in bindings, NEW s \in Stages, b.s = s, NEW N,
         \A n \in N : n.s = s /\ n.pc \notin {"permit", "wait", "bind"},
         b.pc \notin {"permit", "wait", "bind"},
         bindings' = (bindings \ {b}) \cup N, UNCHANGED loop
  PROVE  /\ Owners(s)' = Owners(s)
         /\ \A t \in Stages \ {s} : BindingsOf(t)' = BindingsOf(t)
         /\ BindingsOf(s)' \subseteq BindingsOf(s) \cup N
  BY DEF Owners, BindingsOf

LEMMA NotAnOwnerEnds ==
  ASSUME NEW b \in bindings, NEW s \in Stages, b.s = s,
         b.pc \notin {"permit", "wait", "bind"}, bindings' = bindings \ {b}, UNCHANGED loop
  PROVE  /\ Owners(s)' = Owners(s)
         /\ \A t \in Stages \ {s} : BindingsOf(t)' = BindingsOf(t)
         /\ BindingsOf(s)' \subseteq BindingsOf(s)
  BY DEF Owners, BindingsOf

LEMMA BindingGetsKeeps ==
  ASSUME IInv, TypeOK', NEW b \in bindings, BindingGets(b)
  PROVE  IInv'
  <1>0. TypeOK /\ b \in Attempting(BindingPcs) /\ b.pc = "get"
    BY DEF IInv, TypeOK, BindingGets
  <1>1. PICK s \in Stages : b.s = s
    BY <1>0 DEF Attempting
  <1> DEFINE N == IF Listed(s) THEN {[b EXCEPT !.pc = "requeue", !.obj = Len(told[s])]} ELSE {}
  <1>2. Cached(s) /\ queue[s] <= Len(told[s]) /\ cache[s].obj <= Len(told[s])
        /\ (cache[s].assumed => cache[s].obj # 0) /\ Len(told[s]) \in Nat /\ Log(s)
        /\ (loop.s = s => loop.obj \in 1..Len(told[s])) /\ AssumeUnassumed(s)
    BY <1>1, AttemptFacts
  <1>3. b.obj \in 1..Len(told[s]) /\ Len(told[s]) > 0
    <2>1. b \in BindingsOf(s) /\ b.pc # "orphan"
      BY <1>0, <1>1 DEF BindingsOf
    <2> QED BY <2>1, <1>2, AttemptFacts
  <1>4. /\ AttemptsOnly /\ stranded' = stranded /\ doubtful' = doubtful /\ queue' = queue
        /\ loop' = loop /\ cache' = cache /\ bindings' = (bindings \ {b}) \cup N
    BY <1>1 DEF BindingGets, AttemptsOnly, api, handlers, history
  <1>5. \A n \in N : n.s = s /\ n.pc = "requeue" /\ n.obj = Len(told[s])
    BY <1>0, <1>1 DEF Attempting
  <1>6. Listed(s) => N # {}
    OBVIOUS
  <1> HIDE DEF N
  <1>7. /\ Owners(s)' = Owners(s)
        /\ \A t \in Stages \ {s} : BindingsOf(t)' = BindingsOf(t)
        /\ BindingsOf(s)' \subseteq BindingsOf(s) \cup N
    BY <1>0, <1>1, <1>4, <1>5, NotAnOwner
  <1>8. OthersKept(s)
    BY <1>4, <1>7 DEF OthersKept
  <1>9. Cached(s)'
    BY <1>2, <1>4, <1>7, CacheFrame DEF SameCache, SameLog, FlagsGrow, AttemptsOnly
  <1>10. BindingsPlaced(s)
    BY <1>2, <1>3, <1>4, <1>5, <1>7, AttemptFacts DEF BindingsPlaced
  <1>11. Busy(s)
    BY <1>0, <1>1 DEF Busy
  <1>12. Busy(s)' \/ stages[s].gone
    <2>1. CASE Listed(s)
      <3>1. PICK n \in N : TRUE
        BY <1>6, <2>1
      <3>2. n \in bindings' /\ n.s = s /\ n.pc # "orphan"
        BY <1>4, <1>5, <3>1
      <3> QED BY <3>2 DEF Busy
    <2>2. CASE ~Listed(s)
      BY <1>2, <1>3, <2>2, UnlistedIsGone
    <2> QED BY <2>1, <2>2
  <1> QED BY <1>2, <1>4, <1>8, <1>9, <1>10, <1>11, <1>12, AttemptStep DEF AssumeUnassumed

LEMMA BindingRequeuesKeeps ==
  ASSUME IInv, TypeOK', NEW b \in bindings, BindingRequeues(b)
  PROVE  IInv'
  <1>0. TypeOK /\ b \in Attempting(BindingPcs) /\ b.pc = "requeue"
    BY DEF IInv, TypeOK, BindingRequeues
  <1>1. PICK s \in Stages : b.s = s
    BY <1>0 DEF Attempting
  <1>2. Cached(s) /\ queue[s] <= Len(told[s]) /\ cache[s].obj <= Len(told[s])
        /\ (cache[s].assumed => cache[s].obj # 0) /\ Len(told[s]) \in Nat
        /\ (loop.s = s => loop.obj \in 1..Len(told[s])) /\ AssumeUnassumed(s)
    BY <1>1, AttemptFacts
  <1>3. b.obj \in 1..Len(told[s])
    <2>1. b \in BindingsOf(s) /\ b.pc # "orphan"
      BY <1>0, <1>1 DEF BindingsOf
    <2> QED BY <2>1, AttemptFacts
  <1>4. /\ AttemptsOnly /\ doubtful' = doubtful /\ loop' = loop /\ cache' = cache
        /\ bindings' = bindings \ {b} /\ AddUnschedulableIfNotPresent(s, b.obj)
    BY <1>1 DEF BindingRequeues, AttemptsOnly, api, handlers
  <1>5. b.obj \in Nat /\ b.obj # 0
    BY <1>2, <1>3
  <1>6. /\ queue'[s] \in {queue[s], b.obj} /\ queue'[s] # 0
        /\ \A t \in Stages \ {s} : queue'[t] = queue[t] /\ (t \in stranded => t \in stranded')
    BY <1>0, <1>4, <1>5, RequeueFacts
  <1>7. /\ Owners(s)' = Owners(s)
        /\ \A t \in Stages \ {s} : BindingsOf(t)' = BindingsOf(t)
        /\ BindingsOf(s)' \subseteq BindingsOf(s)
    BY <1>0, <1>1, <1>4, NotAnOwnerEnds
  <1>8. OthersKept(s)
    BY <1>4, <1>6, <1>7 DEF OthersKept
  <1>9. Cached(s)'
    BY <1>2, <1>4, <1>7, CacheFrame DEF SameCache, SameLog, FlagsGrow, AttemptsOnly
  <1>10. BindingsPlaced(s)
    BY <1>4, <1>7, AttemptFacts DEF BindingsPlaced
  <1>11. Busy(s) /\ queue'[s] <= Len(told[s])
    BY <1>0, <1>1, <1>2, <1>3, <1>6 DEF Busy
  <1> QED BY <1>2, <1>4, <1>6, <1>8, <1>9, <1>10, <1>11, AttemptStep DEF AssumeUnassumed

LEMMA BoundKeeps ==
  ASSUME IInv, TypeOK', NEW b \in bindings, Bound(b)
  PROVE  IInv'
  <1>0. TypeOK /\ b \in Attempting(BindingPcs) /\ b.pc = "bound"
    BY DEF IInv, TypeOK, Bound
  <1>1. PICK s \in Stages : b.s = s
    BY <1>0 DEF Attempting
  <1>2. Cached(s) /\ queue[s] <= Len(told[s]) /\ cache[s].obj <= Len(told[s])
        /\ (cache[s].assumed => cache[s].obj # 0)
        /\ (loop.s = s => loop.obj \in 1..Len(told[s])) /\ AssumeUnassumed(s)
    BY <1>1, AttemptFacts
  <1>3. s \notin remade => Assigned(s)
    <2>1. b \in BindingsOf(s)
      BY <1>1 DEF BindingsOf
    <2> QED BY <1>0, <2>1, AttemptFacts
  <1>4. /\ AttemptsOnly /\ stranded' = stranded /\ doubtful' = doubtful /\ queue' = queue
        /\ loop' = loop /\ cache' = cache /\ bindings' = bindings \ {b}
    BY <1>1 DEF Bound, AttemptsOnly, api, handlers, history
  <1>5. /\ Owners(s)' = Owners(s)
        /\ \A t \in Stages \ {s} : BindingsOf(t)' = BindingsOf(t)
        /\ BindingsOf(s)' \subseteq BindingsOf(s)
    BY <1>0, <1>1, <1>4, NotAnOwnerEnds
  <1>6. OthersKept(s)
    BY <1>4, <1>5 DEF OthersKept
  <1>7. Cached(s)'
    BY <1>2, <1>4, <1>5, CacheFrame DEF SameCache, SameLog, FlagsGrow, AttemptsOnly
  <1>8. BindingsPlaced(s)
    BY <1>4, <1>5, AttemptFacts DEF BindingsPlaced
  <1>9. Busy(s)
    BY <1>0, <1>1 DEF Busy
  <1> QED BY <1>2, <1>3, <1>4, <1>6, <1>7, <1>8, <1>9, AttemptStep DEF AssumeUnassumed

\* An owner among the bindings goes, or makes room for another binding.
LEMMA AnOwner ==
  ASSUME NEW b \in bindings, NEW s \in Stages, b.s = s, b.pc \in {"wait", "bind"}, NEW N,
         \A n \in N : n.s = s, bindings' = (bindings \ {b}) \cup N, UNCHANGED loop,
         TypeOK, b \notin N
  PROVE  /\ b \in Owners(s)
         /\ Owners(s)' = (Owners(s) \ {b}) \cup {n \in N : n.pc \in {"permit", "wait", "bind"}}
         /\ \A t \in Stages \ {s} : BindingsOf(t)' = BindingsOf(t)
         /\ BindingsOf(s)' \subseteq BindingsOf(s) \cup N
  <1>1. loop # b
    BY SMTT(30) DEF TypeOK, Attempting, LoopPcs, Popping
  <1> QED BY <1>1 DEF Owners, BindingsOf

LEMMA WaitOnPermitKeeps ==
  ASSUME IInv, TypeOK', NEW b \in bindings, WaitOnPermit(b)
  PROVE  IInv'
  <1>0. TypeOK /\ b \in Attempting(BindingPcs) /\ b.pc = "wait"
    BY DEF IInv, TypeOK, WaitOnPermit
  <1>1. PICK s \in Stages : b.s = s
    BY <1>0 DEF Attempting
  <1>2. Cached(s) /\ queue[s] <= Len(told[s]) /\ cache[s].obj <= Len(told[s])
        /\ (cache[s].assumed => cache[s].obj # 0) /\ Len(told[s]) \in Nat
        /\ (loop.s = s => loop.obj \in 1..Len(told[s])) /\ AssumeUnassumed(s)
    BY <1>1, AttemptFacts
  <1>3. b.obj \in 1..Len(told[s])
    <2>1. b \in BindingsOf(s) /\ b.pc # "orphan"
      BY <1>0, <1>1 DEF BindingsOf
    <2> QED BY <2>1, AttemptFacts
  <1>4. /\ AttemptsOnly /\ stranded' = stranded /\ doubtful' = doubtful /\ queue' = queue
        /\ loop' = loop
    BY <1>1 DEF WaitOnPermit, AttemptsOnly, api, handlers, history
  <1>5. Busy(s)
    BY <1>0, <1>1 DEF Busy
  <1>6. SameLog(s) /\ cacheAt'[s] = cacheAt[s]
    BY <1>4 DEF SameLog, FlagsGrow, AttemptsOnly
  <1>7. PICK n : /\ bindings' = (bindings \ {b}) \cup {n}
                 /\ \/ n = [b EXCEPT !.pc = "bind"] /\ cache' = cache
                    \/ n = [b EXCEPT !.pc = "get"] /\ cache' = ForgetStage(s, b.obj)
    <2>1. CASE waiting[b.s].chan = "allow"
      BY <2>1 DEF WaitOnPermit
    <2>2. CASE waiting[b.s].chan # "allow"
      BY <1>1, <2>2 DEF WaitOnPermit
    <2> QED BY <2>1, <2>2
  <1>8. n.s = s /\ n.obj = b.obj /\ n.w = b.w /\ n.pc \in {"bind", "get"}
    BY <1>0, <1>1, <1>7 DEF Attempting
  <1>9. /\ n.pc = "bind" => cache' = cache
        /\ n.pc = "get" => cache' = ForgetStage(s, b.obj)
    BY <1>0, <1>7 DEF Attempting
  <1>10. /\ b \in Owners(s)
         /\ Owners(s)' = (Owners(s) \ {b})
                           \cup {m \in {n} : m.pc \in {"permit", "wait", "bind"}}
         /\ \A t \in Stages \ {s} : BindingsOf(t)' = BindingsOf(t)
         /\ BindingsOf(s)' \subseteq BindingsOf(s) \cup {n}
    BY <1>0, <1>1, <1>4, <1>7, <1>8, AnOwner
  <1>11. Busy(s)'
    BY <1>7, <1>8 DEF Busy
  <1>12. BindingsPlaced(s)
    BY <1>2, <1>3, <1>4, <1>8, <1>10, AttemptFacts DEF BindingsPlaced
  <1>13. CASE n.pc = "bind"
    <2>1. Owners(s)' = (Owners(s) \ {b}) \cup {n}
      BY <1>10, <1>13
    <2>2. Cached(s)'
      BY <1>2, <1>6, <1>8, <1>9, <1>10, <1>13, <2>1, OwnerPasses
    <2>3. OthersKept(s)
      BY <1>4, <1>9, <1>10, <1>13 DEF OthersKept
    <2> QED BY <1>2, <1>4, <1>5, <1>9, <1>11, <1>12, <1>13, <2>2, <2>3, AttemptStep
            DEF AssumeUnassumed
  <1>14. CASE n.pc = "get"
    <2>1. Owners(s)' = Owners(s) \ {b} /\ b.obj # 0
      BY <1>2, <1>3, <1>10, <1>14
    <2>2. Cached(s)'
      BY <1>0, <1>2, <1>6, <1>9, <1>10, <1>14, <2>1, OwnerForgets
    <2>3. /\ cache'[s] = cache[s] \/ cache'[s] = NotCached
          /\ \A t \in Stages \ {s} : cache'[t] = cache[t]
      BY <1>0, <1>9, <1>14, ForgetFacts
    <2>4. /\ cache'[s].obj <= Len(told[s]) /\ (cache'[s].assumed => cache'[s].obj # 0)
          /\ cache'[s].assumed => cache[s].assumed
      BY <1>2, <2>3, NothingCached
    <2>5. OthersKept(s)
      BY <1>4, <1>10, <2>3 DEF OthersKept
    <2> QED BY <1>2, <1>4, <1>5, <1>11, <1>12, <2>2, <2>4, <2>5, AttemptStep
            DEF AssumeUnassumed
  <1> QED BY <1>8, <1>13, <1>14

LEMMA BindFailsKeeps ==
  ASSUME IInv, TypeOK', NEW b \in bindings, BindFails(b)
  PROVE  IInv'
  <1>0. TypeOK /\ b \in Attempting(BindingPcs) /\ b.pc \in {"bind", "bound"}
    BY DEF IInv, TypeOK, BindFails
  <1>1. PICK s \in Stages : b.s = s
    BY <1>0 DEF Attempting
  <1>2. Cached(s) /\ queue[s] <= Len(told[s]) /\ cache[s].obj <= Len(told[s])
        /\ (cache[s].assumed => cache[s].obj # 0) /\ Len(told[s]) \in Nat
        /\ (loop.s = s => loop.obj \in 1..Len(told[s])) /\ AssumeUnassumed(s)
    BY <1>1, AttemptFacts
  <1>3. b \in BindingsOf(s)
    BY <1>1 DEF BindingsOf
  <1>4. b.obj \in 1..Len(told[s]) /\ (b.pc = "bound" /\ s \notin remade => Assigned(s))
    BY <1>0, <1>3, AttemptFacts
  <1>5. /\ AttemptsOnly /\ queue' = queue /\ loop' = loop /\ cache' = ForgetStage(s, b.obj)
        /\ bindings' = bindings \ {b}
        /\ stranded' = IF queue[s] = 0 THEN stranded \cup {s} ELSE stranded
        /\ doubtful \subseteq doubtful' /\ (b.pc = "bound" => s \in doubtful')
    BY <1>0, <1>1 DEF BindFails, AttemptsOnly, api, handlers
  <1>6. Busy(s)
    BY <1>0, <1>1 DEF Busy
  <1>7. SameLog(s) /\ cacheAt'[s] = cacheAt[s]
    BY <1>5 DEF SameLog, FlagsGrow, AttemptsOnly
  <1>8. /\ cache'[s] = cache[s] \/ cache'[s] = NotCached
        /\ \A t \in Stages \ {s} : cache'[t] = cache[t]
    BY <1>0, <1>5, ForgetFacts
  <1>9. /\ cache'[s].obj <= Len(told[s]) /\ (cache'[s].assumed => cache'[s].obj # 0)
        /\ cache'[s].assumed => cache[s].assumed
    BY <1>2, <1>8, NothingCached
  <1>10. /\ \A t \in Stages \ {s} : BindingsOf(t)' = BindingsOf(t)
         /\ BindingsOf(s)' \subseteq BindingsOf(s)
    BY <1>1, <1>5 DEF BindingsOf
  <1>11. OthersKept(s)
    BY <1>5, <1>8, <1>10 DEF OthersKept
  <1>12. BindingsPlaced(s)
    BY <1>5, <1>10, AttemptFacts DEF BindingsPlaced
  <1>13. queue'[s] # 0 \/ s \in stranded'
    BY <1>5
  <1>14. Cached(s)'
    <2>1. CASE b.pc = "bind"
      <3>1. b \in Owners(s) /\ Owners(s)' = Owners(s) \ {b}
        <4>1. loop # b
          <5>1. loop.pc # "bind"
            BY <1>0, LoopAttempt DEF LoopPcs, Popping
          <5> QED BY <2>1, <5>1
        <4> QED BY <1>1, <1>5, <2>1, <4>1 DEF Owners
      <3>2. b.obj # 0
        BY <1>2, <1>4
      <3> QED BY <1>0, <1>2, <1>5, <1>7, <3>1, <3>2, OwnerForgets
    <2>2. CASE b.pc = "bound"
      <3>1. s \in remade' \/ (Assigned(s)' /\ s \in doubtful')
        BY <1>4, <1>5, <2>2 DEF AttemptsOnly, Assigned
      <3> QED BY <3>1 DEF Cached, OwnerHasCache, NoOwnerOfAssigned, CachedIsOwned,
                          AssignedIsCached, CacheBefore, CacheAfter, CacheGone, Clean
    <2> QED BY <1>0, <2>1, <2>2
  <1> QED BY <1>2, <1>5, <1>6, <1>9, <1>11, <1>12, <1>13, <1>14, AttemptStep
          DEF AssumeUnassumed

----------------------------------------------------------------------------
(* The cache's handler *)

\* The object before i is an assigned one.
AssignedBefore(s, i) == i > 1 /\ assignedStage(told[s][i - 1])

LEMMA CacheEvent ==
  ASSUME TypeOK, NEW s \in Stages, NEW i \in 1..Len(told[s]), NEW event,
         event = Event(s, i, {j \in DOMAIN told[s] : assignedStage(told[s][j])})
  PROVE  LET gone == told[s][i].gone  now == assignedStage(told[s][i])
             before == AssignedBefore(s, i)
         IN /\ event \in {"add", "update", "delete", "none"}
            /\ event = "add" <=> ~gone /\ now /\ ~before
            /\ event = "update" <=> ~gone /\ now /\ before
            /\ event = "delete" <=> (gone /\ now) \/ (~gone /\ ~now /\ before)
  <1> DEFINE accepted == {j \in DOMAIN told[s] : assignedStage(told[s][j])}
  <1>1. told[s] \in Seq(Object) /\ Len(told[s]) \in Nat /\ i \in Nat
    BY StageTypes
  <1>2. DOMAIN told[s] = 1..Len(told[s]) /\ told[s][i] \in Object
    BY <1>1, StageTypes
  <1>3. i \in accepted <=> assignedStage(told[s][i])
    BY <1>2
  <1>4. i - 1 \in accepted <=> AssignedBefore(s, i)
    BY <1>1, <1>2 DEF AssignedBefore
  <1>5. told[s][i].gone \in BOOLEAN
    BY <1>2 DEF Object
  <1> HIDE DEF accepted
  <1>6. event = Event(s, i, accepted)
    BY DEF accepted
  <1> QED BY <1>3, <1>4, <1>5, <1>6 DEF Event

LEMMA AddFacts ==
  ASSUME TypeOK, NEW s \in Stages, NEW i \in 1..Len(told[s]), cache' = AddStage(s, i)
  PROVE  /\ \A t \in Stages \ {s} : cache'[t] = cache[t]
         /\ cache'[s].obj \in {i, cache[s].obj} /\ cache'[s].obj # 0
         /\ cache'[s].assumed => cache[s].assumed
         /\ (cache[s].obj = 0 \/ (cache[s].assumed /\ cache[s].on = Stored(s).worker)) =>
              cache'[s].obj = i /\ ~cache'[s].assumed /\ cache'[s].on = told[s][i].worker
  <1> DEFINE added == [obj |-> i, assumed |-> FALSE, on |-> told[s][i].worker]
             confirmed == [cache EXCEPT ![s].obj = i, ![s].assumed = FALSE]
  <1>1. cache \in [Stages -> CacheEntry] /\ cache[s] \in CacheEntry /\ i # 0
    BY DEF TypeOK
  <1>2. /\ confirmed[s].obj = i /\ ~confirmed[s].assumed /\ confirmed[s].on = cache[s].on
        /\ \A t \in Stages \ {s} : confirmed[t] = cache[t]
    BY <1>1 DEF CacheEntry
  <1>3. added.obj = i /\ ~added.assumed /\ added.on = told[s][i].worker
    OBVIOUS
  <1> HIDE DEF added, confirmed
  <1>4. \/ cache[s].obj = 0 /\ cache' = [cache EXCEPT ![s] = added]
        \/ cache[s].obj # 0 /\ ~cache[s].assumed /\ cache' = cache
        \/ /\ cache[s].obj # 0 /\ cache[s].assumed
           /\ Stored(s).worker = told[s][i].worker /\ cache' = confirmed
        \/ /\ cache[s].obj # 0 /\ cache[s].assumed /\ Removes(s, Stored(s).worker)
           /\ cache' = [cache EXCEPT ![s] = added]
        \/ /\ cache[s].obj # 0 /\ cache[s].assumed /\ ~Removes(s, Stored(s).worker)
           /\ cache' = cache
    BY Zenon DEF AddStage, added, confirmed
  <1>5. cache[s].on = Stored(s).worker => Removes(s, Stored(s).worker)
    BY DEF Removes
  <1>6. cache[s].assumed \in BOOLEAN
    BY <1>1 DEF CacheEntry
  <1> QED BY <1>1, <1>2, <1>3, <1>4, <1>5, <1>6

LEMMA UpdateFacts ==
  ASSUME TypeOK, NEW s \in Stages, NEW i \in 1..Len(told[s]), cache' = UpdateStage(s, i)
  PROVE  /\ \A t \in Stages \ {s} : cache'[t] = cache[t]
         /\ cache'[s].obj \in {i, cache[s].obj} /\ (cache[s].obj # 0 => cache'[s].obj # 0)
         /\ cache'[s].assumed => cache[s].assumed /\ cache'[s].obj = cache[s].obj
         /\ (/\ cache[s].obj # 0 /\ ~cache[s].assumed
             /\ cache[s].on = told[s][i - 1].worker) =>
              cache'[s].obj = i /\ ~cache'[s].assumed /\ cache'[s].on = told[s][i].worker
  <1> DEFINE added == [obj |-> i, assumed |-> FALSE, on |-> told[s][i].worker]
  <1>1. cache \in [Stages -> CacheEntry] /\ i # 0
    BY DEF TypeOK
  <1>2. added.obj = i /\ ~added.assumed /\ added.on = told[s][i].worker
    OBVIOUS
  <1> HIDE DEF added
  <1>3. \/ cache' = [cache EXCEPT ![s] = added]
        \/ /\ cache' = cache
           /\ ~(/\ cache[s].obj # 0 /\ ~cache[s].assumed
                /\ Removes(s, told[s][i - 1].worker))
    BY Zenon DEF UpdateStage, added
  <1>4. cache[s].on = told[s][i - 1].worker => Removes(s, told[s][i - 1].worker)
    BY DEF Removes
  <1> QED BY <1>1, <1>2, <1>3, <1>4

LEMMA RemoveFacts ==
  ASSUME TypeOK, NEW s \in Stages, cache' = RemoveStage(s)
  PROVE  /\ \A t \in Stages \ {s} : cache'[t] = cache[t]
         /\ cache'[s] = cache[s] \/ cache'[s] = NotCached
         /\ cache[s].obj # 0 /\ cache[s].on = Stored(s).worker => cache'[s] = NotCached
  BY DEF RemoveStage, Removes, TypeOK

\* What the handler sees of a stage that is ready, or about to be bound.
LEMMA CacheHandlerStep ==
  ASSUME IInv, TypeOK', NEW s \in Stages, CacheHandler(s)
  PROVE  StageInv(s)' /\ (\A t \in Stages \ {s} : SameStage(t)) /\ ExitsOnlyWhenTampered'
  <1> DEFINE i == cacheAt[s] + 1
             event == Event(s, i, {j \in DOMAIN told[s] : assignedStage(told[s][j])})
             gone == told[s][i].gone
             now == assignedStage(told[s][i])
             before == AssignedBefore(s, i)
  <1>1. /\ TypeOK /\ StageInv(s) /\ Log(s) /\ Cached(s)
        /\ Positions(s) /\ BindingsOK(s) /\ Somewhere(s) /\ AssumeUnassumed(s)
        /\ AttemptedWasReady(s)
    BY AttemptFacts DEF StageInv, Hold
  <1>2. Len(told[s]) \in Nat /\ cacheAt[s] \in Nat /\ cache[s].obj \in Nat
        /\ (feed[s] = <<>> <=> Len(feed[s]) = 0) /\ cache[s].assumed \in BOOLEAN
    BY <1>1, StageTypes
  <1>3. i \in 1..Len(told[s]) /\ i = cacheAt[s] + 1 /\ ~exited
    BY <1>2 DEF CacheHandler
  <1>4. /\ cache' = IF event = "add" THEN AddStage(s, i)
                    ELSE IF event = "update" THEN UpdateStage(s, i)
                    ELSE IF event = "delete" THEN RemoveStage(s) ELSE cache
        /\ exited' <=> \/ event = "update" /\ UpdateExits(s, i)
                       \/ event = "delete" /\ RemoveExits(s, Deleted(s, i))
        /\ cacheAt' = [cacheAt EXCEPT ![s] = i]
        /\ UNCHANGED <<stages, feed, told, queueAt, held, queue, loop, bindings, stranded,
                       doubtful, tampered, merged, remade>>
    BY DEF CacheHandler, api, history
  <1>5. /\ event \in {"add", "update", "delete", "none"}
        /\ event = "add" <=> ~gone /\ now /\ ~before
        /\ event = "update" <=> ~gone /\ now /\ before
        /\ event = "delete" <=> (gone /\ now) \/ (~gone /\ ~now /\ before)
    BY <1>1, <1>3, CacheEvent
  <1>6. Seen(s) <=> before
    BY <1>2, <1>3 DEF Seen, AssignedBefore
  <1>7. cacheAt'[s] = i /\ \A t \in Stages \ {s} : cacheAt'[t] = cacheAt[t]
    BY <1>1, <1>4 DEF TypeOK
  <1>8. i # Len(told[s]) + 1 /\ cacheAt[s] # Len(told[s]) /\ ~Settled(s)
    BY <1>2, <1>3 DEF Settled
  <1> HIDE DEF i, event, gone, now, before
  <1>9. s \notin remade /\ before => now
    BY <1>1, <1>2, <1>3, SMTT(30) DEF Log, AssignedForGood, AssignedBefore, before, now, i
  <1>10. s \notin remade /\ (now \/ before) => Assigned(s)
    BY <1>1, <1>3, <1>9 DEF Log, AssignedForGood, now
  <1>11. gone => stages[s].gone /\ feed[s] = <<>> /\ i = Len(told[s])
    BY <1>1, <1>3 DEF Log, GoneIsLast, gone
  <1>12. before => ~told[s][cacheAt[s]].gone
    <2>1. before => cacheAt[s] \in 1..Len(told[s])
      BY <1>2, <1>3 DEF AssignedBefore, before
    <2> QED BY <1>1, <1>8, <2>1 DEF Log, GoneIsLast
  <1>13. Seen(s)' <=> now
    BY <1>2, <1>3, <1>4, <1>7 DEF Seen, now
  <1>14. /\ Assigned(s)' <=> Assigned(s)
         /\ ToldReady(s)' <=> ToldReady(s)
         /\ Clean(s)' <=> Clean(s)
         /\ Settled(s)' <=> stages[s].gone /\ feed[s] = <<>> /\ i = Len(told[s])
    BY <1>4, <1>7 DEF Assigned, ToldReady, Clean, Settled
  <1>15. BindingsOf(s)' = BindingsOf(s) /\ Owners(s)' = Owners(s) /\ (Busy(s)' <=> Busy(s))
    BY <1>4 DEF BindingsOf, Owners, Busy
  <1>16. /\ \A t \in Stages \ {s} : cache'[t] = cache[t]
         /\ cache'[s].obj <= Len(told[s]) /\ (cache'[s].assumed => cache[s].assumed)
         /\ cache'[s].assumed => cache'[s].obj # 0
         /\ event # "delete" /\ cache[s].obj # 0 => cache'[s].obj # 0
         /\ event = "add" => cache'[s].obj # 0
         /\ event = "none" => cache' = cache
    <2>1. cache[s].obj <= Len(told[s]) /\ (cache[s].assumed => cache[s].obj # 0)
      BY <1>1 DEF Positions
    <2>2. CASE event = "add"
      <3>1. cache' = AddStage(s, i)
        BY <1>4, <2>2
      <3>2. /\ \A t \in Stages \ {s} : cache'[t] = cache[t]
            /\ cache'[s].obj \in {i, cache[s].obj} /\ cache'[s].obj # 0
            /\ cache'[s].assumed => cache[s].assumed
        BY <1>1, <1>3, <3>1, AddFacts
      <3> QED BY <1>2, <1>3, <2>1, <2>2, <3>2
    <2>3. CASE event = "update"
      <3>1. cache' = UpdateStage(s, i)
        BY <1>4, <2>3
      <3>2. /\ \A t \in Stages \ {s} : cache'[t] = cache[t]
            /\ cache'[s].obj \in {i, cache[s].obj} /\ (cache[s].obj # 0 => cache'[s].obj # 0)
            /\ cache'[s].assumed => cache[s].assumed /\ cache'[s].obj = cache[s].obj
        BY <1>1, <1>3, <3>1, UpdateFacts
      <3> QED BY <1>2, <1>3, <2>1, <2>3, <3>2
    <2>4. CASE event = "delete"
      <3>1. cache' = RemoveStage(s)
        BY <1>4, <2>4
      <3>2. /\ \A t \in Stages \ {s} : cache'[t] = cache[t]
            /\ cache'[s] = cache[s] \/ cache'[s] = NotCached
        BY <1>1, <3>1, RemoveFacts
      <3> QED BY <1>2, <2>1, <2>4, <3>2, NothingCached
    <2>5. CASE event = "none"
      <3>1. cache' = cache
        BY <1>4, <2>5
      <3> QED BY <2>1, <2>5, <3>1
    <2> QED BY <1>5, <2>2, <2>3, <2>4, <2>5
  <1>17. Log(s)' /\ \A t \in Stages \ {s} : SameStage(t)
    <2>1. SameLog(s)
      BY <1>4 DEF SameLog, FlagsGrow
    <2>2. \A t \in Stages \ {s} : SameStage(t)
      BY <1>4, <1>7, <1>16 DEF SameStage, SameLog, FlagsGrow, BindingsOf
    <2> QED BY <1>1, <2>1, <2>2, LogFrame
  <1>18. Hold(s)'
    <2>1. Positions(s)'
      BY <1>1, <1>2, <1>3, <1>4, <1>7, <1>15, <1>16 DEF Positions
    <2>2. AttemptedWasReady(s)' /\ BindingsOK(s)'
      BY <1>1, <1>4, <1>14, <1>15 DEF AttemptedWasReady, BindingsOK
    <2>3. Somewhere(s)' /\ AssumeUnassumed(s)'
      BY <1>1, <1>4, <1>14, <1>15, <1>16 DEF Somewhere, AssumeUnassumed
    <2> QED BY <2>1, <2>2, <2>3 DEF Hold
  <1>19. s \notin remade /\ ~Assigned(s) => cache' = cache
    BY <1>5, <1>10, <1>16
  <1>20. Cached(s)'
    <2>1. OwnerHasCache(s)'
      <3>1. s \notin remade /\ (Assigned(s) => s \notin doubtful) /\ Owners(s) # {} =>
              ~Assigned(s)
        BY <1>1, <1>8 DEF Cached, NoOwnerOfAssigned
      <3> QED BY <1>1, <1>4, <1>14, <1>15, <1>19, <3>1 DEF Cached, OwnerHasCache
    <2>2. NoOwnerOfAssigned(s)'
      BY <1>1, <1>4, <1>8, <1>14, <1>15 DEF Cached, NoOwnerOfAssigned
    <2>3. CachedIsOwned(s)'
      BY <1>1, <1>4, <1>14, <1>15, <1>19 DEF Cached, CachedIsOwned
    <2>4. AssignedIsCached(s)'
      BY <1>1, <1>4, <1>5, <1>8, <1>9, <1>11, <1>14, <1>16 DEF Cached, AssignedIsCached
    <2>5. CacheBefore(s)'
      <3>1. Clean(s) => s \notin remade
        BY DEF Clean
      <3>2. Clean(s) /\ ~now => cache' = cache /\ ~Seen(s)
        BY <1>5, <1>6, <1>9, <1>16, <3>1
      <3>3. cache' = cache => cache'[s] = cache[s] /\ Stored(s)' = Stored(s)
        BY <1>4 DEF Stored
      <3> QED BY <1>1, <1>13, <1>14, <3>2, <3>3 DEF Cached, CacheBefore
    <2>6. CacheAfter(s)'
      <3> SUFFICES ASSUME Clean(s), now, ~gone
                   PROVE  /\ cache'[s].obj = i /\ ~cache'[s].assumed
                          /\ cache'[s].on = told[s][i].worker
        <4>1. Clean(s)' /\ Seen(s)' /\ ~told'[s][cacheAt'[s]].gone => Clean(s) /\ now /\ ~gone
          BY <1>4, <1>7, <1>13, <1>14 DEF gone
        <4>2. cache'[s].obj = i => Stored(s)' = told[s][i]
          BY <1>4 DEF Stored
        <4>3. i # 0
          BY <1>2, <1>3
        <4> QED BY <4>1, <4>2, <4>3 DEF CacheAfter, now
      <3>1. Assigned(s) /\ s \notin remade
        BY <1>10 DEF Clean
      <3>2. CASE ~before
        <4>1. cache' = AddStage(s, i)
          BY <1>4, <1>5, <3>2
        <4>2. cache[s].obj = 0 \/ (cache[s].assumed /\ cache[s].on = Stored(s).worker)
          BY <1>1, <1>6, <3>1, <3>2 DEF Cached, CacheBefore
        <4> QED BY <1>1, <1>3, <4>1, <4>2, AddFacts
      <3>3. CASE before
        <4>1. cache' = UpdateStage(s, i)
          BY <1>4, <1>5, <3>3
        <4>2. /\ cache[s].obj # 0 /\ ~cache[s].assumed
              /\ assignedStage(Stored(s)) /\ cache[s].on = Stored(s).worker
          BY <1>1, <1>6, <1>12, <3>3 DEF Cached, CacheAfter
        <4>3. cache[s].obj \in 1..Len(told[s]) /\ i - 1 \in 1..Len(told[s])
          BY <1>1, <1>2, <1>3, <3>3, <4>2 DEF Positions, before, AssignedBefore
        <4>4. Stored(s).worker = stages[s].worker /\ told[s][i - 1].worker = stages[s].worker
          BY <1>1, <3>3, <4>2, <4>3
             DEF Log, SameWorker, Clean, Stored, before, AssignedBefore
        <4> QED BY <1>1, <1>3, <4>1, <4>2, <4>4, UpdateFacts
      <3> QED BY <3>2, <3>3
    <2>7. CacheGone(s)'
      <3> SUFFICES ASSUME Clean(s), now, gone PROVE cache'[s].obj = 0
        <4>1. Clean(s)' /\ Seen(s)' /\ told'[s][cacheAt'[s]].gone => Clean(s) /\ now /\ gone
          BY <1>4, <1>7, <1>13, <1>14 DEF gone
        <4> QED BY <4>1 DEF CacheGone
      <3>1. before
        BY <1>1, <1>3 DEF Log, GoneFollows, Clean, before, now, gone, AssignedBefore
      <3>2. cache[s].obj # 0 /\ cache[s].on = Stored(s).worker
        BY <1>1, <1>6, <1>12, <3>1 DEF Cached, CacheAfter
      <3>3. cache' = RemoveStage(s)
        BY <1>4, <1>5
      <3> QED BY <1>1, <3>2, <3>3, RemoveFacts, NothingCached
    <2> QED BY <2>1, <2>2, <2>3, <2>4, <2>5, <2>6, <2>7 DEF Cached
  <1>21. ExitsOnlyWhenTampered'
    <2> SUFFICES ASSUME exited', Clean(s) PROVE FALSE
      BY <1>4 DEF ExitsOnlyWhenTampered, Clean
    <2>1. before /\ now
      <3>1. (now /\ before) \/ (gone /\ now) \/ (~now /\ before)
        BY <1>4, <1>5
      <3>2. gone /\ now => before
        BY <1>1, <1>3 DEF Log, GoneFollows, Clean, before, now, gone, AssignedBefore
      <3> QED BY <1>9, <3>1, <3>2 DEF Clean
    <2>2. /\ cache[s].obj # 0 /\ assignedStage(Stored(s))
      BY <1>1, <1>6, <1>12, <2>1 DEF Cached, CacheAfter
    <2>3. cache[s].obj \in 1..Len(told[s])
      BY <1>1, <1>2, <2>2 DEF Positions
    <2>4. Stored(s).worker = told[s][i].worker
      BY <1>1, <1>3, <2>1, <2>2, <2>3 DEF Log, SameWorker, Clean, Stored, now
    <2>5. event = "delete" => gone
      BY <1>5, <2>1
    <2> QED BY <1>4, <2>4, <2>5 DEF UpdateExits, RemoveExits, Deleted, gone
  <1> QED BY <1>17, <1>18, <1>20, <1>21 DEF StageInv

LEMMA CacheHandlerKeeps ==
  ASSUME IInv, TypeOK', NEW s \in Stages, CacheHandler(s)
  PROVE  IInv'
  <1>1. StageInv(s)' /\ (\A t \in Stages \ {s} : SameStage(t)) /\ ExitsOnlyWhenTampered'
    BY CacheHandlerStep
  <1>2. \A t \in Stages : StageInv(t)'
    BY <1>1, StageFrame DEF IInv
  <1> QED BY <1>1, <1>2 DEF IInv
----------------------------------------------------------------------------
(* assume *)

\* What assume leaves of the log when it writes into one object.
SameButWorker(s, obj) ==
  /\ stages'[s] = stages[s] /\ feed'[s] = feed[s] /\ Len(told'[s]) = Len(told[s])
  /\ \A j \in 1..Len(told[s]) :
       /\ assignedStage(told'[s][j]) <=> assignedStage(told[s][j])
       /\ told'[s][j].gone <=> told[s][j].gone
       /\ j # obj => told'[s][j].worker = told[s][j].worker
  /\ assignedStage(told[s][obj]) => s \in tampered'
  /\ FlagsGrow(s)

LEMMA LogRewritten ==
  ASSUME TypeOK, NEW s \in Stages, NEW obj \in 1..Len(told[s]), Log(s), SameButWorker(s, obj)
  PROVE  /\ Log(s)' /\ (Assigned(s)' <=> Assigned(s)) /\ (ToldReady(s)' <=> ToldReady(s))
  <1>1. Len(told[s]) \in Nat /\ Len(feed[s]) \in Nat
    BY StageTypes
  <1>2. /\ Assigned(s)' <=> Assigned(s)
        /\ ToldReady(s)' <=> ToldReady(s)
    BY <1>1 DEF SameButWorker, Assigned, ToldReady
  <1>3. GoneIsLast(s)'
    BY DEF Log, SameButWorker, GoneIsLast
  <1>4. LastIsStored(s)'
    BY <1>1, <1>2 DEF Log, SameButWorker, LastIsStored
  <1>5. AssignedForGood(s)'
    BY <1>2 DEF Log, SameButWorker, FlagsGrow, AssignedForGood
  <1>6. SameWorker(s)'
    BY DEF Log, SameButWorker, FlagsGrow, SameWorker
  <1>7. GoneFollows(s)'
    <2>1. \A i \in 1..Len(told[s]) : i > 1 => i - 1 \in 1..Len(told[s])
      BY <1>1
    <2>2. Len(told[s]) > 0 => Len(told[s]) \in 1..Len(told[s])
      BY <1>1
    <2> QED BY <2>1, <2>2 DEF Log, SameButWorker, FlagsGrow, GoneFollows
  <1>8. FirstIsStored(s)'
    BY <1>2 DEF Log, SameButWorker, FlagsGrow, FirstIsStored
  <1> QED BY <1>2, <1>3, <1>4, <1>5, <1>6, <1>7, <1>8 DEF Log

LEMMA AssumeKeeps ==
  ASSUME IInv, TypeOK', assume
  PROVE  IInv'
  <1>0. loop.pc = "assume" /\ TypeOK
    BY DEF assume, IInv
  <1>a. loop \in Attempting(LoopPcs) /\ loop.s \in Stages
    BY <1>0, LoopAttempt DEF LoopPcs
  <1>1. PICK s \in Stages, obj \in Nat, w \in SomeWorker :
          loop.s = s /\ loop.obj = obj /\ loop.w = w
    BY <1>a DEF Attempting
  <1>2. /\ StageInv(s) /\ Log(s) /\ Cached(s) /\ Positions(s) /\ BindingsOK(s)
        /\ Len(told[s]) \in Nat /\ obj \in 1..Len(told[s])
        /\ cache \in [Stages -> CacheEntry] /\ cache[s].obj <= Len(told[s])
        /\ (cache[s].assumed => cache[s].obj # 0)
        /\ \A b \in BindingsOf(s) : b.pc # "orphan" => b.obj \in 1..Len(told[s])
    BY <1>1, AttemptFacts
  <1>3. Busy(s) /\ ~cache[s].assumed /\ AttemptedWasReady(s)
    BY <1>0, <1>1, <1>2, AttemptFacts DEF Busy, AssumeUnassumed, StageInv, Hold
  <1>4. /\ told' = [told EXCEPT ![s] = [told[s] EXCEPT ![obj].worker = w]]
        /\ tampered' = IF assignedStage(told[s][obj]) THEN tampered \cup {s} ELSE tampered
        /\ UNCHANGED <<stages, feed, cacheAt, queueAt, held, queue, bindings, exited, stranded,
                       doubtful, merged, remade>>
    BY <1>1 DEF assume, api
  <1>5. \/ /\ cache[s].obj = 0 /\ loop' = [loop EXCEPT !.pc = "permit"]
           /\ cache' = [cache EXCEPT ![s] = [obj |-> obj, assumed |-> TRUE, on |-> w]]
        \/ cache[s].obj # 0 /\ loop' = [loop EXCEPT !.pc = "get"] /\ cache' = cache
    BY <1>1 DEF assume, Assumable, AssumeStage
  <1>6. /\ loop'.s = s /\ loop'.obj = obj /\ loop'.w = w
        /\ loop'.pc = (IF cache[s].obj = 0 THEN "permit" ELSE "get")
    BY <1>a, <1>1, <1>5 DEF Attempting
  <1>7. told[s] \in Seq(Object) /\ told'[s] = [told[s] EXCEPT ![obj].worker = w]
    BY <1>0, <1>4 DEF TypeOK
  <1>8. /\ Len(told'[s]) = Len(told[s])
        /\ \A j \in 1..Len(told[s]) :
             /\ told'[s][j].state = told[s][j].state /\ told'[s][j].gone = told[s][j].gone
             /\ told'[s][j].worker = IF j = obj THEN w ELSE told[s][j].worker
    BY <1>7, Rewritten
  <1>9. SameButWorker(s, obj)
    BY <1>4, <1>8 DEF SameButWorker, FlagsGrow, assignedStage
  <1>10. Log(s)' /\ (Assigned(s)' <=> Assigned(s)) /\ (ToldReady(s)' <=> ToldReady(s))
    BY <1>0, <1>2, <1>9, LogRewritten
  <1>11. /\ cache'[s].obj <= Len(told[s])
         /\ cache'[s].assumed => cache'[s].obj # 0
         /\ \A t \in Stages \ {s} : cache'[t] = cache[t]
    BY <1>2, <1>5
  <1>12. BindingsOf(s)' = BindingsOf(s) /\ Busy(s)'
    BY <1>4, <1>6 DEF BindingsOf, Busy
  <1>13. Hold(s)'
    <2>1. Positions(s)'
      BY <1>2, <1>4, <1>6, <1>8, <1>11, <1>12 DEF Positions
    <2>2. AttemptedWasReady(s)' /\ BindingsOK(s)'
      BY <1>2, <1>3, <1>4, <1>10, <1>12 DEF AttemptedWasReady, BindingsOK
    <2>3. Somewhere(s)' /\ AssumeUnassumed(s)'
      BY <1>6, <1>12 DEF Somewhere, AssumeUnassumed
    <2> QED BY <2>1, <2>2, <2>3 DEF Hold
  <1>14. /\ Settled(s)' <=> Settled(s)
         /\ Seen(s)' <=> Seen(s)
         /\ Clean(s)' => Clean(s)
         /\ Seen(s) => (told'[s][cacheAt'[s]].gone <=> told[s][cacheAt[s]].gone)
    <2>1. cacheAt[s] \in Nat /\ cacheAt[s] <= Len(told[s])
      BY <1>0, <1>2, StageTypes DEF Positions
    <2>2. cacheAt[s] > 0 => cacheAt[s] \in 1..Len(told[s])
      BY <1>2, <2>1
    <2> QED BY <1>4, <1>8, <2>2 DEF Settled, Seen, Clean, assignedStage
  <1>15. \A o \in Owners(s) : o \in BindingsOf(s) /\ o.obj # 0
    BY <1>0, <1>2 DEF Owners, BindingsOf
  <1>16. InOrder(s) => Owners(s) = {}
    BY <1>2, <1>3 DEF Cached, OwnerHasCache, InOrder
  <1>17. s \notin remade' /\ (Assigned(s)' => s \notin doubtful') => InOrder(s)
    BY <1>4, <1>10 DEF InOrder
  <1>18. Cached(s)'
    <2>1. CASE cache[s].obj = 0
      <3>1. /\ cache'[s].obj = obj /\ cache'[s].assumed /\ cache'[s].on = w
        BY <1>2, <1>5, <2>1
      <3>2. Owners(s)' = Owners(s) \cup {loop'}
        BY <1>0, <1>4, <1>6, <2>1 DEF Owners
      <3>3. told'[s][obj].worker = w /\ obj # 0
        BY <1>2, <1>8
      <3>4. OwnerHasCache(s)'
        BY <1>6, <1>16, <1>17, <3>1, <3>2, <3>3 DEF OwnerHasCache
      <3>5. NoOwnerOfAssigned(s)'
        BY <1>2, <1>3, <1>4, <1>10, <1>14, <2>1
           DEF NoOwnerOfAssigned, Cached, AttemptedWasReady, AssignedIsCached
      <3>6. CachedIsOwned(s)' /\ AssignedIsCached(s)' /\ CacheGone(s)'
        BY <3>1, <3>2, <3>3 DEF CachedIsOwned, AssignedIsCached, CacheGone
      <3>7. CacheBefore(s)'
        BY <3>1, <3>3 DEF CacheBefore, Stored
      <3>8. CacheAfter(s)'
        BY <1>2, <1>14, <2>1 DEF CacheAfter, Cached
      <3> QED BY <3>4, <3>5, <3>6, <3>7, <3>8 DEF Cached
    <2>2. CASE cache[s].obj # 0
      <3>1. cache'[s] = cache[s]
        BY <1>5, <2>2
      <3>2. Owners(s)' = Owners(s)
        BY <1>0, <1>4, <1>6, <2>2 DEF Owners
      <3>3. OwnerHasCache(s)'
        BY <1>16, <1>17, <3>2 DEF OwnerHasCache
      <3>4. NoOwnerOfAssigned(s)' /\ CachedIsOwned(s)' /\ AssignedIsCached(s)'
        BY <1>2, <1>4, <1>10, <1>14, <3>1, <3>2
           DEF Cached, NoOwnerOfAssigned, CachedIsOwned, AssignedIsCached
      <3>5. CacheBefore(s)' /\ CacheGone(s)'
        BY <1>2, <1>3, <1>10, <1>14, <3>1, <3>2 DEF Cached, CacheBefore, CacheGone
      <3>6. CacheAfter(s)'
        <4> SUFFICES ASSUME Clean(s)', Seen(s)', ~told'[s][cacheAt'[s]].gone
                     PROVE  /\ cache'[s].obj # 0 /\ ~cache'[s].assumed
                            /\ assignedStage(Stored(s)') /\ cache'[s].on = Stored(s)'.worker
          BY DEF CacheAfter
        <4>1. assignedStage(Stored(s)) /\ cache[s].on = Stored(s).worker
          BY <1>2, <1>14 DEF Cached, CacheAfter
        <4>2. cache[s].obj \in 1..Len(told[s])
          BY <1>0, <1>2, <2>2, StageTypes
        <4>3. cache[s].obj # obj
          BY <1>4, <4>1 DEF Stored, Clean
        <4> QED BY <1>3, <1>8, <2>2, <3>1, <4>1, <4>2, <4>3 DEF Stored, assignedStage
      <3> QED BY <3>3, <3>4, <3>5, <3>6 DEF Cached
    <2> QED BY <2>1, <2>2
  <1>19. \A t \in Stages \ {s} : SameStage(t)
    <2>1. \A t \in Stages \ {s} : told'[t] = told[t]
      BY <1>0, <1>4 DEF TypeOK
    <2> QED BY <1>1, <1>4, <1>6, <1>11, <2>1 DEF SameStage, SameLog, FlagsGrow, BindingsOf
  <1>20. StageInv(s)'
    BY <1>10, <1>13, <1>18 DEF StageInv
  <1> QED BY <1>4, <1>19, <1>20, OneStage
----------------------------------------------------------------------------
(* Writes at the API server *)

LEMMA Appended ==
  ASSUME NEW q \in Seq(Object), NEW o \in Object
  PROVE  LET r == Append(q, o)
         IN /\ Len(r) = Len(q) + 1 /\ r[Len(q) + 1] = o /\ r # <<>>
            /\ \A j \in 1..Len(r) : j # Len(q) + 1 => j \in 1..Len(q) /\ r[j] = q[j]
            /\ \A j \in 1..Len(q) : j \in 1..Len(r) /\ r[j] = q[j]
  <1>1. Len(q) \in Nat /\ Len(Append(q, o)) = Len(q) + 1
    OBVIOUS
  <1>2. \A j \in 1..Len(Append(q, o)) : j # Len(q) + 1 => j \in 1..Len(q)
    BY <1>1
  <1>3. \A j \in 1..Len(q) : j \in 1..Len(Append(q, o)) /\ Append(q, o)[j] = q[j]
    BY <1>1
  <1>4. Append(q, o)[Len(q) + 1] = o /\ Append(q, o) # <<>>
    BY <1>1
  <1> QED BY <1>1, <1>2, <1>3, <1>4

\* A write that fits the log: an assigned stage stays assigned and on its worker,
\* and one the process has not heard of does not become assigned.
FitsLog(s, o) ==
  /\ s \notin remade' /\ Assigned(s) => assignedStage(o)
  /\ s \notin tampered' \cup doubtful' \cup remade' /\ Assigned(s) =>
       o.worker = stages[s].worker
  /\ o.gone /\ assignedStage(o) => Assigned(s)
  /\ s \notin doubtful' \cup remade' /\ Len(told[s]) = 0 /\ assignedStage(o) => Assigned(s)

LEMMA LogGrows ==
  ASSUME TypeOK, NEW s \in Stages, NEW o \in Object, Log(s), ~stages[s].gone,
         stages'[s] = o, feed'[s] = Append(feed[s], o), told'[s] = told[s],
         FlagsGrow(s), FitsLog(s, o)
  PROVE  Log(s)'
  <1>1. /\ Len(told[s]) \in Nat /\ Len(feed[s]) \in Nat /\ feed[s] \in Seq(Object)
        /\ (feed[s] = <<>> <=> Len(feed[s]) = 0)
    BY StageTypes
  <1> DEFINE n == Len(feed[s]) + 1
  <1>2. /\ Len(feed'[s]) = n /\ feed'[s][n] = o /\ feed'[s] # <<>>
        /\ \A j \in 1..Len(feed'[s]) : j # n => j \in 1..Len(feed[s]) /\ feed'[s][j] = feed[s][j]
        /\ \A j \in 1..Len(feed[s]) : j \in 1..Len(feed'[s]) /\ feed'[s][j] = feed[s][j]
    BY <1>1, Appended
  <1>3. n \in Nat /\ n > 0 /\ n \in 1..Len(feed'[s])
    BY <1>1, <1>2
  <1>4. Assigned(s)' <=> assignedStage(o)
    BY DEF Assigned
  <1>5. \A j \in 1..Len(feed[s]) : ~feed[s][j].gone
    BY DEF Log, GoneIsLast
  <1>6. \A i \in 1..Len(told[s]) : ~told[s][i].gone
    BY DEF Log, GoneIsLast
  <1>7. GoneIsLast(s)'
    BY <1>2, <1>5, <1>6 DEF GoneIsLast
  <1>8. LastIsStored(s)'
    BY <1>2 DEF LastIsStored
  <1>9. AssignedForGood(s)'
    <2> SUFFICES ASSUME s \notin remade' PROVE AssignedForGood(s)'
      BY DEF AssignedForGood
    <2>1. s \notin remade /\ (Assigned(s) => assignedStage(o))
      BY DEF FitsLog, FlagsGrow
    <2>2. \A i, j \in 1..Len(told[s]) :
            i < j /\ assignedStage(told[s][i]) => assignedStage(told[s][j])
      BY <2>1 DEF Log, AssignedForGood
    <2>3. \A i, j \in 1..Len(feed'[s]) :
            i < j /\ assignedStage(feed'[s][i]) => assignedStage(feed'[s][j])
      <3> SUFFICES ASSUME NEW i \in 1..Len(feed'[s]), NEW j \in 1..Len(feed'[s]), i < j,
                          assignedStage(feed'[s][i])
                   PROVE  assignedStage(feed'[s][j])
        OBVIOUS
      <3>1. i # n
        BY <1>1, <1>2
      <3>2. i \in 1..Len(feed[s]) /\ assignedStage(feed[s][i])
        BY <1>2, <3>1
      <3> QED BY <1>2, <2>1, <3>2 DEF Log, AssignedForGood
    <2>4. /\ \A i \in 1..Len(told[s]), j \in 1..Len(feed'[s]) :
               assignedStage(told[s][i]) => assignedStage(feed'[s][j])
          /\ \A i \in 1..Len(told[s]) : assignedStage(told[s][i]) => assignedStage(o)
      BY <1>2, <2>1 DEF Log, AssignedForGood
    <2>5. \A j \in 1..Len(feed'[s]) : assignedStage(feed'[s][j]) => assignedStage(o)
      BY <1>2, <2>1 DEF Log, AssignedForGood
    <2> QED BY <1>4, <2>2, <2>3, <2>4, <2>5 DEF AssignedForGood
  <1>10. SameWorker(s)'
    <2> SUFFICES ASSUME s \notin tampered' \cup doubtful' \cup remade'
                 PROVE  /\ \A i \in 1..Len(told[s]) :
                             assignedStage(told[s][i]) => told[s][i].worker = o.worker
                        /\ \A j \in 1..Len(feed'[s]) :
                             assignedStage(feed'[s][j]) => feed'[s][j].worker = o.worker
      BY DEF SameWorker
    <2>1. s \notin tampered \cup doubtful \cup remade
      BY DEF FlagsGrow
    <2>2. Assigned(s) => o.worker = stages[s].worker
      BY DEF FitsLog
    <2>3. \A i \in 1..Len(told[s]) : assignedStage(told[s][i]) => told[s][i].worker = o.worker
      BY <2>1, <2>2 DEF Log, AssignedForGood, SameWorker
    <2>4. \A j \in 1..Len(feed[s]) : assignedStage(feed[s][j]) => feed[s][j].worker = o.worker
      BY <2>1, <2>2 DEF Log, AssignedForGood, SameWorker
    <2> QED BY <1>2, <2>3, <2>4
  <1>11. GoneFollows(s)'
    <2>1. \A j \in 1..Len(feed'[s]) :
            feed'[s][j].gone /\ assignedStage(feed'[s][j]) => j = n /\ Assigned(s)
      BY <1>2, <1>5 DEF FitsLog
    <2>2. Assigned(s) =>
            IF n > 1 THEN assignedStage(feed'[s][n - 1])
            ELSE Len(told[s]) > 0 /\ assignedStage(told[s][Len(told[s])])
      <3>1. CASE Len(feed[s]) > 0
        <4>1. n - 1 = Len(feed[s]) /\ Len(feed[s]) \in 1..Len(feed[s]) /\ n > 1
          BY <1>1, <3>1
        <4> QED BY <1>2, <3>1, <4>1 DEF Log, LastIsStored, Assigned
      <3>2. CASE Len(feed[s]) = 0
        <4>1. n = 1 /\ feed[s] = <<>>
          BY <1>1, <3>2
        <4> QED BY <1>1, <4>1 DEF Log, LastIsStored
      <3> QED BY <1>1, <3>1, <3>2
    <2> QED BY <1>6, <2>1, <2>2 DEF GoneFollows
  <1>12. FirstIsStored(s)'
    BY <1>2 DEF FirstIsStored, Log, FitsLog, FlagsGrow, Assigned
  <1> QED BY <1>7, <1>8, <1>9, <1>10, <1>11, <1>12 DEF Log

\* What a write leaves alone in the scheduler.
WriteOnly ==
  UNCHANGED <<told, cacheAt, queueAt, held, queue, cache, loop, exited, stranded, doubtful,
              tampered, merged>>

LEMMA WriteStep ==
  ASSUME IInv, TypeOK', NEW s \in Stages, NEW o \in Object, Put(s, o), ~stages[s].gone,
         WriteOnly, remade \subseteq remade', FitsLog(s, o), Cached(s)',
         \A t \in Stages \ {s} : BindingsOf(t)' = BindingsOf(t),
         Busy(s)' <=> Busy(s),
         \A b \in BindingsOf(s)' :
           /\ b.pc # "orphan" => b.obj \in 1..Len(told[s])
           /\ b.pc = "bound" /\ s \notin remade' => assignedStage(o)
           /\ b.pc = "orphan" => s \in doubtful,
         s \notin remade' /\ ~assignedStage(o) => ~Assigned(s)
  PROVE  IInv'
  <1>1. /\ TypeOK /\ StageInv(s) /\ Log(s) /\ Positions(s) /\ Somewhere(s) /\ AssumeUnassumed(s)
        /\ AttemptedWasReady(s)
    BY AttemptFacts DEF StageInv, Hold
  <1>2. /\ stages'[s] = o /\ feed'[s] = Append(feed[s], o)
        /\ \A t \in Stages \ {s} : stages'[t] = stages[t] /\ feed'[t] = feed[t]
    BY <1>1 DEF Put, TypeOK
  <1>3. FlagsGrow(s) /\ told'[s] = told[s]
    BY DEF FlagsGrow, WriteOnly
  <1>4. Log(s)'
    BY <1>1, <1>2, <1>3, LogGrows
  <1>5. (Assigned(s)' <=> assignedStage(o)) /\ (ToldReady(s)' <=> ToldReady(s))
    BY <1>2, <1>3 DEF Assigned, ToldReady
  <1>6. Positions(s)'
    BY <1>1 DEF Positions, WriteOnly
  <1>7. AttemptedWasReady(s)'
    BY <1>1, <1>5 DEF AttemptedWasReady, WriteOnly
  <1>8. BindingsOK(s)'
    BY <1>5 DEF BindingsOK, WriteOnly
  <1>9. Somewhere(s)'
    BY <1>1, <1>5 DEF Somewhere, WriteOnly
  <1>10. AssumeUnassumed(s)'
    BY <1>1 DEF AssumeUnassumed, WriteOnly
  <1>11. StageInv(s)'
    BY <1>4, <1>6, <1>7, <1>8, <1>9, <1>10 DEF StageInv, Hold
  <1>12. \A t \in Stages \ {s} : SameStage(t)
    BY <1>2 DEF SameStage, SameLog, FlagsGrow, WriteOnly
  <1> QED BY <1>11, <1>12, OneStage DEF WriteOnly

LEMMA OthersWriteKeeps ==
  ASSUME IInv, TypeOK', NEW s \in Stages, OthersWrite(s)
  PROVE  IInv'
  <1>1. /\ TypeOK /\ Cached(s) /\ Log(s) /\ stages[s] \in Object
        /\ \A b \in BindingsOf(s) :
             /\ b.pc # "orphan" => b.obj \in 1..Len(told[s])
             /\ b.pc = "bound" /\ s \notin remade => Assigned(s)
             /\ b.pc = "orphan" => s \in doubtful
    BY AttemptFacts DEF IInv, TypeOK
  <1>2. /\ WriteOnly /\ bindings' = bindings /\ remade' = remade /\ ~stages[s].gone
    BY DEF OthersWrite, WriteOnly, handlers, history
  <1>3. PICK o \in Object :
          /\ Put(s, o) /\ (assignedStage(o) <=> Assigned(s)) /\ o.worker = stages[s].worker
    <2>1. /\ [stages[s] EXCEPT !.state = "done"] \in Object
          /\ [stages[s] EXCEPT !.state = "done"].worker = stages[s].worker
          /\ [stages[s] EXCEPT !.state = "done"].state = "done"
          /\ [stages[s] EXCEPT !.gone = TRUE] \in Object
          /\ [stages[s] EXCEPT !.gone = TRUE].worker = stages[s].worker
          /\ [stages[s] EXCEPT !.gone = TRUE].state = stages[s].state
      BY <1>1, ObjectWith DEF Object
    <2>2. \/ Put(s, stages[s])
          \/ stages[s].state = "bind" /\ Put(s, [stages[s] EXCEPT !.state = "done"])
          \/ Put(s, [stages[s] EXCEPT !.gone = TRUE])
      BY DEF OthersWrite
    <2> QED BY <1>1, <2>1, <2>2 DEF assignedStage, Assigned
  <1>4. BindingsOf(s)' = BindingsOf(s) /\ Owners(s)' = Owners(s) /\ (Busy(s)' <=> Busy(s))
        /\ \A t \in Stages \ {s} : BindingsOf(t)' = BindingsOf(t)
    BY <1>2 DEF BindingsOf, Owners, Busy, WriteOnly
  <1>5. stages'[s] = o /\ feed'[s] = Append(feed[s], o) /\ feed[s] \in Seq(Object)
    BY <1>1, <1>3 DEF Put, TypeOK
  <1>6. feed'[s] # <<>>
    BY <1>5, Appended
  <1>7. /\ ~Settled(s) /\ ~Settled(s)'
        /\ Assigned(s)' <=> Assigned(s)
    BY <1>2, <1>3, <1>5, <1>6 DEF Settled, Assigned
  <1>8. /\ ToldReady(s)' <=> ToldReady(s)
        /\ Seen(s)' <=> Seen(s)
        /\ Stored(s)' = Stored(s)
        /\ Clean(s)' <=> Clean(s)
    BY <1>2 DEF ToldReady, Seen, Stored, Clean, WriteOnly
  <1>9. /\ cache' = cache /\ told' = told /\ cacheAt' = cacheAt /\ doubtful' = doubtful
        /\ remade' = remade
    BY <1>2 DEF WriteOnly
  <1>10. Cached(s)'
    <2> USE DEF Cached
    <2>1. OwnerHasCache(s)'
      BY <1>1, <1>4, <1>7, <1>9 DEF OwnerHasCache
    <2>2. NoOwnerOfAssigned(s)' /\ CachedIsOwned(s)' /\ AssignedIsCached(s)'
      BY <1>1, <1>4, <1>7, <1>8, <1>9 DEF NoOwnerOfAssigned, CachedIsOwned, AssignedIsCached
    <2>3. CacheBefore(s)' /\ CacheAfter(s)' /\ CacheGone(s)'
      BY <1>1, <1>4, <1>7, <1>8, <1>9 DEF CacheBefore, CacheAfter, CacheGone
    <2> QED BY <2>1, <2>2, <2>3
  <1>11. FitsLog(s, o)
    BY <1>3 DEF FitsLog
  <1> QED BY <1>1, <1>2, <1>3, <1>4, <1>9, <1>10, <1>11, WriteStep

LEMMA MadeReadyAgainKeeps ==
  ASSUME IInv, TypeOK', NEW s \in Stages, MadeReadyAgain(s)
  PROVE  IInv'
  <1>1. /\ TypeOK /\ stages[s] \in Object
        /\ \A b \in BindingsOf(s) :
             /\ b.pc # "orphan" => b.obj \in 1..Len(told[s])
             /\ b.pc = "orphan" => s \in doubtful
    BY AttemptFacts DEF IInv, TypeOK
  <1>2. /\ WriteOnly /\ bindings' = bindings /\ remade' = remade \cup {s} /\ ~stages[s].gone
    BY DEF MadeReadyAgain, WriteOnly, handlers
  <1>3. PICK o \in Object : Put(s, o) /\ o.state = "ready" /\ ~o.gone
    <2>1. PICK w \in {stages[s].worker, NoWorker} :
            Put(s, [state |-> "ready", worker |-> w, gone |-> FALSE])
      BY DEF MadeReadyAgain
    <2>2. w \in SomeWorker
      BY <1>1, ObjectWith DEF SomeWorker
    <2>3. [state |-> "ready", worker |-> w, gone |-> FALSE] \in Object
      BY <2>2, NewObject DEF States
    <2> QED BY <2>1, <2>3
  <1>4. BindingsOf(s)' = BindingsOf(s) /\ (Busy(s)' <=> Busy(s))
        /\ \A t \in Stages \ {s} : BindingsOf(t)' = BindingsOf(t)
    BY <1>2 DEF BindingsOf, Busy, WriteOnly
  <1>5. s \in remade'
    BY <1>2
  <1>6. Cached(s)'
    BY <1>5 DEF Cached, OwnerHasCache, NoOwnerOfAssigned, CachedIsOwned,
                AssignedIsCached, CacheBefore, CacheAfter, CacheGone, Clean
  <1>7. FitsLog(s, o)
    BY <1>3, <1>5 DEF FitsLog
  <1> QED BY <1>1, <1>2, <1>3, <1>4, <1>5, <1>6, <1>7, WriteStep

LEMMA StageBindingKeeps ==
  ASSUME IInv, TypeOK', NEW b \in bindings, stageBinding(b)
  PROVE  IInv'
  <1>0. TypeOK /\ b \in Attempting(BindingPcs) /\ b.pc = "bind" /\ bindings \subseteq Attempting(BindingPcs)
    BY DEF IInv, TypeOK, stageBinding
  <1>1. PICK s \in Stages : b.s = s
    BY <1>0 DEF Attempting
  <1>2. /\ Cached(s) /\ Log(s) /\ Positions(s) /\ Len(told[s]) \in Nat
        /\ \A c \in BindingsOf(s) :
             /\ c.pc # "orphan" => c.obj \in 1..Len(told[s])
             /\ c.pc = "bound" /\ s \notin remade => Assigned(s)
             /\ c.pc = "orphan" => s \in doubtful
    BY <1>1, AttemptFacts
  <1> DEFINE o == [state |-> "bind", worker |-> b.w, gone |-> FALSE]
             c == [b EXCEPT !.pc = "bound"]
  <1>3. /\ WriteOnly /\ remade' = remade /\ ~stages[s].gone /\ Put(s, o)
        /\ bindings' = (bindings \ {b}) \cup {c}
    BY <1>1 DEF stageBinding, WriteOnly, handlers, history
  <1>4. o \in Object /\ assignedStage(o) /\ ~o.gone
    BY <1>0, NewObject DEF Attempting, States, assignedStage
  <1>5. c.s = s /\ c.pc = "bound" /\ c.obj = b.obj /\ c.w = b.w
    BY <1>0, <1>1 DEF Attempting
  <1> HIDE DEF o, c
  <1>6. b.obj \in 1..Len(told[s]) /\ b.obj # 0 /\ Len(told[s]) # 0
    <2>1. b \in BindingsOf(s)
      BY <1>1 DEF BindingsOf
    <2> QED BY <1>0, <1>2, <2>1
  <1>7. loop.pc # "bind" /\ loop' = loop
    BY <1>0, <1>3, LoopAttempt DEF LoopPcs, Popping, WriteOnly
  <1>8. b \in Owners(s) /\ Owners(s)' = Owners(s) \ {b}
    BY <1>0, <1>1, <1>3, <1>5, <1>7 DEF Owners
  <1>9. s \notin doubtful \cup remade => ~Assigned(s)
    BY <1>2, <1>3, <1>8 DEF Cached, NoOwnerOfAssigned, Settled
  <1>10. FitsLog(s, o)
    BY <1>3, <1>4, <1>6, <1>9 DEF FitsLog, WriteOnly
  <1>11. Assigned(s)'
    BY <1>0, <1>3, <1>4 DEF Put, TypeOK, Assigned
  <1>12. s \notin doubtful' \cup remade' =>
           /\ Owners(s)' = {} /\ cache'[s].obj = b.obj /\ cache'[s].assumed
           /\ cache'[s].on = Stored(s)'.worker
    <2> SUFFICES ASSUME s \notin doubtful \cup remade
                 PROVE  /\ Owners(s)' = {} /\ cache[s].obj = b.obj /\ cache[s].assumed
                        /\ cache[s].on = Stored(s).worker
      BY <1>3 DEF WriteOnly, Stored
    <2>1. /\ \A p \in Owners(s) : p = b
          /\ cache[s].obj = b.obj /\ cache[s].assumed /\ cache[s].on = b.w
          /\ told[s][b.obj].worker = b.w
      BY <1>2, <1>8 DEF Cached, OwnerHasCache
    <2> QED BY <1>8, <2>1 DEF Stored
  <1>13. s \notin doubtful' \cup remade' => ~Seen(s)'
    <2>1. Seen(s)' <=> Seen(s)
      BY <1>3 DEF WriteOnly, Seen
    <2>2. cacheAt[s] > 0 => cacheAt[s] \in 1..Len(told[s])
      BY <1>0, <1>2, StageTypes DEF Positions
    <2>3. Seen(s) /\ s \notin remade => Assigned(s)
      BY <1>2, <2>2 DEF Seen, Log, AssignedForGood
    <2> QED BY <1>3, <1>9, <2>1, <2>3 DEF WriteOnly
  <1>14. Cached(s)'
    <2>1. OwnerHasCache(s)' /\ NoOwnerOfAssigned(s)' /\ CachedIsOwned(s)' /\ AssignedIsCached(s)'
      BY <1>6, <1>11, <1>12
         DEF OwnerHasCache, NoOwnerOfAssigned, CachedIsOwned, AssignedIsCached
    <2>2. CacheBefore(s)' /\ CacheAfter(s)' /\ CacheGone(s)'
      BY <1>12, <1>13 DEF CacheBefore, CacheAfter, CacheGone, Clean
    <2> QED BY <2>1, <2>2 DEF Cached
  <1>15. \A t \in Stages \ {s} : BindingsOf(t)' = BindingsOf(t)
    BY <1>1, <1>3, <1>5 DEF BindingsOf
  <1>16. Busy(s)' <=> Busy(s)
    BY <1>0, <1>1, <1>3, <1>5 DEF Busy
  <1>17. \A d \in BindingsOf(s)' :
           /\ d.pc # "orphan" => d.obj \in 1..Len(told[s])
           /\ d.pc = "orphan" => s \in doubtful
    BY <1>2, <1>3, <1>5, <1>6 DEF BindingsOf
  <1> QED BY <1>3, <1>4, <1>10, <1>14, <1>15, <1>16, <1>17, WriteStep

LEMMA OrphanServedKeeps ==
  ASSUME IInv, TypeOK', NEW b \in bindings, OrphanServed(b)
  PROVE  IInv'
  <1>0. TypeOK /\ b \in Attempting(BindingPcs) /\ b.pc = "orphan"
    BY DEF IInv, TypeOK, OrphanServed
  <1>1. PICK s \in Stages : b.s = s
    BY <1>0 DEF Attempting
  <1>2. /\ Cached(s) /\ Somewhere(s) /\ AssumeUnassumed(s)
        /\ queue[s] <= Len(told[s]) /\ cache[s].obj <= Len(told[s])
        /\ (cache[s].assumed => cache[s].obj # 0)
        /\ (loop.s = s => loop.obj \in 1..Len(told[s]))
        /\ \A c \in BindingsOf(s) :
             /\ c.pc # "orphan" => c.obj \in 1..Len(told[s])
             /\ c.pc = "bound" /\ s \notin remade => Assigned(s)
             /\ c.pc = "orphan" => s \in doubtful
    BY <1>1, AttemptFacts
  <1>3. s \in doubtful
    BY <1>0, <1>1, <1>2 DEF BindingsOf
  <1>4. /\ WriteOnly /\ remade' = remade /\ bindings' = bindings \ {b}
    BY <1>1 DEF OrphanServed, WriteOnly, handlers, history
  <1>5. /\ \A t \in Stages \ {s} : BindingsOf(t)' = BindingsOf(t)
        /\ BindingsOf(s)' \subseteq BindingsOf(s)
    BY <1>1, <1>4 DEF BindingsOf
  <1>6. (Busy(s)' <=> Busy(s)) /\ Owners(s)' = Owners(s)
    <2>1. loop # b
      BY <1>0, LoopAttempt DEF LoopPcs, Popping
    <2> QED BY <1>0, <1>4, <2>1 DEF Busy, Owners, WriteOnly
  <1>7. CASE ~stages[s].gone /\ Put(s, [state |-> "bind", worker |-> b.w, gone |-> FALSE])
    <2> DEFINE o == [state |-> "bind", worker |-> b.w, gone |-> FALSE]
    <2>1. o \in Object /\ assignedStage(o) /\ ~o.gone /\ Put(s, o)
      BY <1>0, <1>7, NewObject DEF Attempting, States, assignedStage
    <2> HIDE DEF o
    <2>2. FitsLog(s, o)
      BY <1>3, <1>4, <2>1 DEF FitsLog, WriteOnly
    <2>3. Assigned(s)' /\ s \in doubtful'
      BY <1>0, <1>3, <1>4, <2>1 DEF Put, TypeOK, Assigned, WriteOnly
    <2>4. Cached(s)'
      BY <2>3 DEF Cached, OwnerHasCache, NoOwnerOfAssigned, CachedIsOwned,
                  AssignedIsCached, CacheBefore, CacheAfter, CacheGone, Clean
    <2> QED BY <1>2, <1>4, <1>5, <1>6, <1>7, <2>1, <2>2, <2>4, WriteStep
  <1>8. CASE UNCHANGED api
    <2>1. AttemptsOnly
      BY <1>4, <1>8 DEF AttemptsOnly, WriteOnly, api
    <2>2. Cached(s)'
      BY <1>2, <1>4, <1>6, <2>1, CacheFrame
         DEF SameCache, SameLog, FlagsGrow, AttemptsOnly, WriteOnly
    <2>3. OthersKept(s)
      BY <1>4, <1>5 DEF OthersKept, WriteOnly
    <2>4. BindingsPlaced(s)
      BY <1>2, <1>4, <1>5 DEF BindingsPlaced, WriteOnly
    <2> QED BY <1>2, <1>4, <1>6, <2>1, <2>2, <2>3, <2>4, AttemptStep
            DEF WriteOnly, AssumeUnassumed, Somewhere
  <1> QED BY <1>1, <1>7, <1>8 DEF OrphanServed
----------------------------------------------------------------------------
(* The informer *)

LEMMA DeliverKeeps ==
  ASSUME IInv, TypeOK', NEW s \in Stages, Deliver(s)
  PROVE  IInv'
  <1>1. /\ TypeOK /\ StageInv(s) /\ Log(s) /\ Cached(s) /\ Positions(s) /\ BindingsOK(s)
        /\ Somewhere(s) /\ AssumeUnassumed(s) /\ AttemptedWasReady(s)
    BY AttemptFacts DEF StageInv, Hold
  <1>2. /\ Len(told[s]) \in Nat /\ Len(feed[s]) \in Nat /\ feed[s] \in Seq(Object)
        /\ told[s] \in Seq(Object) /\ stages[s] \in Object /\ cacheAt[s] \in Nat
        /\ queueAt[s] \in Nat /\ queue[s] \in Nat /\ cache[s].obj \in Nat
    BY <1>1, StageTypes
  <1>3. feed[s] # <<>> /\ Len(feed[s]) > 0 /\ 1 \in 1..Len(feed[s])
    BY <1>2 DEF Deliver
  <1> DEFINE n == Len(told[s]) + 1
  <1>4. PICK x \in Object :
          /\ told'[s] = Append(told[s], x)
          /\ \/ x = feed[s][1] /\ feed'[s] = Tail(feed[s]) /\ merged' = merged
             \/ x = stages[s] /\ feed'[s] = <<>> /\ merged' = merged \cup {s}
    <2>1. feed[s][1] \in Object /\ Head(feed[s]) = feed[s][1]
      BY <1>2, <1>3
    <2> QED BY <1>1, <1>2, <2>1 DEF Deliver, TypeOK
  <1>5. /\ Len(told'[s]) = n /\ told'[s][n] = x /\ n \in Nat /\ n > 0
        /\ \A j \in 1..Len(told'[s]) : j # n => j \in 1..Len(told[s]) /\ told'[s][j] = told[s][j]
        /\ \A j \in 1..Len(told[s]) : j \in 1..Len(told'[s]) /\ told'[s][j] = told[s][j]
    BY <1>2, <1>4, Appended
  <1>6. /\ UNCHANGED <<stages, cacheAt, queueAt, held, queue, cache, loop, bindings, exited,
                       stranded, doubtful, tampered, remade>>
        /\ merged \subseteq merged'
        /\ \A t \in Stages \ {s} : told'[t] = told[t] /\ feed'[t] = feed[t]
    BY <1>1 DEF Deliver, TypeOK
  <1>7. Assigned(s)' <=> Assigned(s)
    BY <1>6 DEF Assigned
  <1>8. \A i \in 1..Len(told[s]) : ~told[s][i].gone
    BY <1>1, <1>3 DEF Log, GoneIsLast
  <1>9. /\ s \notin remade => (assignedStage(x) => Assigned(s))
        /\ s \notin remade =>
             \A i \in 1..Len(told[s]) : assignedStage(told[s][i]) => assignedStage(x)
        /\ s \notin tampered \cup doubtful \cup remade =>
             (assignedStage(x) => x.worker = stages[s].worker)
        /\ s \notin doubtful \cup remade /\ Len(told[s]) = 0 /\ Assigned(s) => assignedStage(x)
    <2>1. s \notin remade => (assignedStage(x) => Assigned(s))
      BY <1>1, <1>3, <1>4 DEF Log, AssignedForGood, Assigned
    <2>2. s \notin remade =>
            \A i \in 1..Len(told[s]) : assignedStage(told[s][i]) => assignedStage(x)
      BY <1>1, <1>3, <1>4 DEF Log, AssignedForGood, Assigned
    <2>3. s \notin tampered \cup doubtful \cup remade =>
            (assignedStage(x) => x.worker = stages[s].worker)
      BY <1>1, <1>3, <1>4 DEF Log, SameWorker
    <2>4. s \notin doubtful \cup remade /\ Len(told[s]) = 0 /\ Assigned(s) => assignedStage(x)
      BY <1>1, <1>3, <1>4 DEF Log, FirstIsStored, Assigned
    <2> QED BY <2>1, <2>2, <2>3, <2>4
  <1> HIDE DEF n
  <1>10. s \notin remade =>
           /\ \A i, j \in 1..Len(told'[s]) :
                i < j /\ assignedStage(told'[s][i]) => assignedStage(told'[s][j])
           /\ \A i \in 1..Len(told'[s]) : assignedStage(told'[s][i]) => Assigned(s)
    <2>1. \A i, j \in 1..Len(told'[s]) : i < j => i # n
      BY <1>5
    <2> QED BY <1>1, <1>5, <1>9, <2>1 DEF Log, AssignedForGood
  <1>11. s \notin tampered \cup doubtful \cup remade =>
           \A i \in 1..Len(told'[s]) :
             assignedStage(told'[s][i]) => told'[s][i].worker = stages[s].worker
    BY <1>1, <1>5, <1>9 DEF Log, SameWorker
  <1>12. FirstIsStored(s)'
    BY <1>5 DEF FirstIsStored
  <1>13. Log(s)'
    <2>1. CASE x = stages[s] /\ feed'[s] = <<>> /\ merged' = merged \cup {s}
      <3>1. Len(feed'[s]) = 0 /\ \A j \in 1..Len(feed'[s]) : FALSE
        BY <2>1
      <3>2. GoneIsLast(s)'
        BY <1>5, <1>6, <1>8, <2>1, <3>1 DEF GoneIsLast
      <3>3. LastIsStored(s)'
        BY <1>5, <1>6, <2>1, <3>1 DEF LastIsStored, Assigned
      <3>4. AssignedForGood(s)' /\ SameWorker(s)'
        BY <1>6, <1>7, <1>10, <1>11, <3>1 DEF AssignedForGood, SameWorker
      <3>5. GoneFollows(s)'
        BY <2>1 DEF GoneFollows
      <3> QED BY <1>12, <3>2, <3>3, <3>4, <3>5 DEF Log
    <2>2. CASE x = feed[s][1] /\ feed'[s] = Tail(feed[s]) /\ merged' = merged
      <3>1. /\ Len(feed'[s]) = Len(feed[s]) - 1
            /\ \A j \in 1..Len(feed'[s]) :
                 j + 1 \in 1..Len(feed[s]) /\ feed'[s][j] = feed[s][j + 1]
        BY <1>2, <1>3, <2>2
      <3>2. feed'[s] = <<>> <=> Len(feed[s]) = 1
        <4>1. feed'[s] \in Seq(Object)
          BY DEF TypeOK
        <4>2. feed'[s] = <<>> <=> Len(feed'[s]) = 0
          BY <4>1
        <4> QED BY <1>2, <3>1, <4>2
      <3>3. GoneIsLast(s)'
        <4>1. x.gone => Len(feed[s]) = 1 /\ stages[s].gone
          BY <1>1, <1>3, <2>2 DEF Log, GoneIsLast
        <4>2. \A i \in 1..Len(told'[s]) :
                told'[s][i].gone => i = Len(told'[s]) /\ feed'[s] = <<>> /\ stages'[s].gone
          BY <1>5, <1>6, <1>8, <3>2, <4>1
        <4>3. \A j \in 1..Len(feed'[s]) :
                feed'[s][j].gone => j = Len(feed'[s]) /\ stages'[s].gone
          <5> SUFFICES ASSUME NEW j \in 1..Len(feed'[s]), feed'[s][j].gone
                       PROVE  j = Len(feed'[s]) /\ stages'[s].gone
            OBVIOUS
          <5>1. j + 1 = Len(feed[s]) /\ stages[s].gone
            BY <1>1, <3>1 DEF Log, GoneIsLast
          <5> QED BY <1>2, <1>6, <3>1, <5>1
        <4> QED BY <4>2, <4>3 DEF GoneIsLast
      <3>4. LastIsStored(s)'
        <4>1. feed[s][Len(feed[s])] = stages[s]
          BY <1>1, <1>3 DEF Log, LastIsStored
        <4>2. Len(feed'[s]) > 0 => feed'[s][Len(feed'[s])] = stages'[s]
          <5>1. Len(feed'[s]) > 0 =>
                  Len(feed'[s]) \in 1..Len(feed'[s]) /\ Len(feed'[s]) + 1 = Len(feed[s])
            BY <1>2, <3>1
          <5> QED BY <1>6, <3>1, <4>1, <5>1
        <4>3. feed'[s] = <<>> => x = stages[s]
          BY <2>2, <3>2, <4>1
        <4> QED BY <1>5, <1>6, <4>2, <4>3 DEF LastIsStored, Assigned
      <3>5. AssignedForGood(s)'
        <4> SUFFICES ASSUME s \notin remade PROVE AssignedForGood(s)'
          BY <1>6 DEF AssignedForGood
        <4>1. \A i, j \in 1..Len(feed'[s]) :
                i < j /\ assignedStage(feed'[s][i]) => assignedStage(feed'[s][j])
          <5> SUFFICES ASSUME NEW i \in 1..Len(feed'[s]), NEW j \in 1..Len(feed'[s]), i < j,
                              assignedStage(feed'[s][i])
                       PROVE  assignedStage(feed'[s][j])
            OBVIOUS
          <5>1. i + 1 \in 1..Len(feed[s]) /\ j + 1 \in 1..Len(feed[s]) /\ i + 1 < j + 1
            BY <3>1
          <5> QED BY <1>1, <3>1, <5>1 DEF Log, AssignedForGood
        <4>2. \A j \in 1..Len(feed'[s]) : assignedStage(x) => assignedStage(feed'[s][j])
          <5> SUFFICES ASSUME NEW j \in 1..Len(feed'[s]), assignedStage(x)
                       PROVE  assignedStage(feed'[s][j])
            OBVIOUS
          <5>1. j + 1 \in 1..Len(feed[s]) /\ 1 < j + 1
            BY <3>1
          <5> QED BY <1>1, <1>3, <2>2, <3>1, <5>1 DEF Log, AssignedForGood
        <4>3. \A i \in 1..Len(told'[s]), j \in 1..Len(feed'[s]) :
                assignedStage(told'[s][i]) => assignedStage(feed'[s][j])
          BY <1>5, <1>9, <4>2
        <4>4. \A j \in 1..Len(feed'[s]) : assignedStage(feed'[s][j]) => Assigned(s)
          BY <1>1, <3>1 DEF Log, AssignedForGood
        <4> QED BY <1>6, <1>7, <1>10, <4>1, <4>3, <4>4 DEF AssignedForGood
      <3>6. SameWorker(s)'
        BY <1>1, <1>6, <1>11, <3>1 DEF Log, SameWorker
      <3>7. GoneFollows(s)'
        <4> SUFFICES ASSUME s \notin merged PROVE GoneFollows(s)'
          BY <2>2 DEF GoneFollows
        <4>1. x.gone /\ assignedStage(x) => n > 1 /\ assignedStage(told'[s][n - 1])
          <5> SUFFICES ASSUME x.gone, assignedStage(x)
                       PROVE  n > 1 /\ assignedStage(told'[s][n - 1])
            OBVIOUS
          <5>1. Len(told[s]) > 0 /\ assignedStage(told[s][Len(told[s])])
            BY <1>1, <1>3, <2>2 DEF Log, GoneFollows
          <5>2. n - 1 = Len(told[s]) /\ Len(told[s]) \in 1..Len(told[s]) /\ n > 1
            BY <1>2, <5>1 DEF n
          <5> QED BY <1>5, <5>1, <5>2
        <4>2. \A i \in 1..Len(told'[s]) :
                told'[s][i].gone /\ assignedStage(told'[s][i]) =>
                  i > 1 /\ assignedStage(told'[s][i - 1])
          BY <1>5, <1>8, <4>1
        <4>3. \A j \in 1..Len(feed'[s]) :
                feed'[s][j].gone /\ assignedStage(feed'[s][j]) =>
                  IF j > 1 THEN assignedStage(feed'[s][j - 1]) ELSE assignedStage(x)
          <5> SUFFICES ASSUME NEW j \in 1..Len(feed'[s]), feed'[s][j].gone,
                              assignedStage(feed'[s][j])
                       PROVE  IF j > 1 THEN assignedStage(feed'[s][j - 1])
                              ELSE assignedStage(x)
            OBVIOUS
          <5>1. j + 1 \in 1..Len(feed[s]) /\ j + 1 > 1 /\ (j + 1) - 1 = j
            BY <3>1
          <5>2. assignedStage(feed[s][j])
            BY <1>1, <3>1, <5>1 DEF Log, GoneFollows
          <5>3. j > 1 => j - 1 \in 1..Len(feed'[s]) /\ (j - 1) + 1 = j
            BY <1>2, <3>1
          <5>4. ~(j > 1) => j = 1
            OBVIOUS
          <5> QED BY <2>2, <3>1, <5>2, <5>3, <5>4
        <4> QED BY <1>5, <4>2, <4>3 DEF GoneFollows
      <3> QED BY <1>12, <3>3, <3>4, <3>5, <3>6, <3>7 DEF Log
    <2> QED BY <1>4, <2>1, <2>2
  <1>14. ToldReady(s) => ToldReady(s)'
    BY <1>2, <1>5 DEF ToldReady
  <1>15. Owners(s)' = Owners(s) /\ (Busy(s)' <=> Busy(s)) /\ BindingsOf(s)' = BindingsOf(s)
    BY <1>6 DEF Owners, Busy, BindingsOf
  <1>16. Hold(s)'
    <2>1. Len(told[s]) <= Len(told'[s])
      BY <1>2, <1>5 DEF n
    <2>2. Positions(s)'
      <3>1. /\ cacheAt'[s] <= Len(told'[s]) /\ queueAt'[s] <= Len(told'[s])
            /\ held' = s => queueAt'[s] < Len(told'[s])
            /\ queue'[s] <= Len(told'[s]) /\ cache'[s].obj <= Len(told'[s])
        BY <1>1, <1>2, <1>5, <1>6, <2>1 DEF Positions
      <3> QED BY <1>1, <1>5, <1>6, <1>15, <3>1 DEF Positions
    <2>3. AttemptedWasReady(s)' /\ BindingsOK(s)'
      BY <1>1, <1>6, <1>7, <1>14, <1>15 DEF AttemptedWasReady, BindingsOK
    <2>4. Somewhere(s)' /\ AssumeUnassumed(s)'
      BY <1>1, <1>6, <1>7, <1>15 DEF Somewhere, AssumeUnassumed
    <2> QED BY <2>2, <2>3, <2>4 DEF Hold
  <1>17. ~Settled(s) /\ ~Settled(s)'
    BY <1>1, <1>2, <1>3, <1>5, <1>6 DEF Settled, Positions, n
  <1>18. /\ Seen(s)' <=> Seen(s)
         /\ Seen(s) => told'[s][cacheAt'[s]] = told[s][cacheAt[s]]
         /\ cache[s].obj # 0 => Stored(s)' = Stored(s)
         /\ Clean(s)' => Clean(s)
    <2>1. cacheAt[s] > 0 => cacheAt[s] \in 1..Len(told[s])
      BY <1>1, <1>2 DEF Positions
    <2>2. cache[s].obj # 0 => cache[s].obj \in 1..Len(told[s])
      BY <1>1, <1>2 DEF Positions
    <2> QED BY <1>5, <1>6, <2>1, <2>2 DEF Seen, Stored, Clean
  <1>19. Cached(s)'
    <2>1. OwnerHasCache(s)'
      <3>1. \A o \in Owners(s) : o.obj \in 1..Len(told[s])
        BY <1>1 DEF Owners, Positions, BindingsOf
      <3> QED BY <1>1, <1>5, <1>6, <1>7, <1>15, <3>1 DEF Cached, OwnerHasCache
    <2>2. NoOwnerOfAssigned(s)' /\ CachedIsOwned(s)'
      BY <1>1, <1>6, <1>7, <1>15, <1>17 DEF Cached, NoOwnerOfAssigned, CachedIsOwned
    <2>3. AssignedIsCached(s)'
      <3> SUFFICES ASSUME s \notin doubtful \cup remade, Assigned(s), ToldReady(s)'
                   PROVE  cache[s].obj # 0
        BY <1>6, <1>7 DEF AssignedIsCached
      <3>1. Len(told[s]) # 0
        BY <1>2, <1>5, <1>9 DEF ToldReady, n
      <3>2. ToldReady(s)
        BY <1>2, <1>5, <3>1 DEF ToldReady
      <3> QED BY <1>1, <1>17, <3>2 DEF Cached, AssignedIsCached
    <2>4. CacheBefore(s)' /\ CacheAfter(s)' /\ CacheGone(s)'
      BY <1>1, <1>6, <1>7, <1>15, <1>18 DEF Cached, CacheBefore, CacheAfter, CacheGone
    <2> QED BY <2>1, <2>2, <2>3, <2>4 DEF Cached
  <1>20. StageInv(s)'
    BY <1>13, <1>16, <1>19 DEF StageInv
  <1>21. \A t \in Stages \ {s} : SameStage(t)
    BY <1>6 DEF SameStage, SameLog, FlagsGrow, BindingsOf
  <1> QED BY <1>6, <1>20, <1>21, OneStage
----------------------------------------------------------------------------
(* A new process *)

\* Nothing has happened to the stage in this process but that it was listed.
Fresh(s) ==
  /\ told[s] = <<>> /\ feed[s] = (IF stages[s].gone THEN <<>> ELSE <<stages[s]>>)
  /\ cacheAt[s] = 0 /\ queueAt[s] = 0 /\ held # s /\ queue[s] = 0 /\ cache[s] = NotCached
  /\ loop = Popping
  /\ \A b \in bindings : b.pc = "orphan" /\ b.s \in doubtful

FreshStages == \A s \in Stages : Fresh(s)
StagesInv == \A s \in Stages : StageInv(s)

LEMMA FreshIsInOrder == TypeOK /\ FreshStages => StagesInv
  <1> SUFFICES ASSUME TypeOK, NEW s \in Stages, Fresh(s) PROVE StageInv(s)
    BY DEF FreshStages, StagesInv
  <1>1. /\ Len(told[s]) = 0 /\ cacheAt[s] = 0 /\ queueAt[s] = 0 /\ queue[s] = 0
        /\ cache[s].obj = 0 /\ ~cache[s].assumed /\ held # s
    BY DEF Fresh, NotCached
  <1>2. loop.s # s /\ loop.pc = "pop"
    BY SchedulerAssumption DEF Fresh, Popping
  <1>3. \A b \in bindings : b.pc = "orphan" /\ b.s \in doubtful
    BY DEF Fresh
  <1>4. ~Busy(s) /\ Owners(s) = {}
    BY <1>2, <1>3 DEF Busy, Owners
  <1>5. /\ \A i \in 1..Len(told[s]) : FALSE
        /\ \A j \in 1..Len(feed[s]) :
             j = 1 /\ Len(feed[s]) = 1 /\ feed[s][j] = stages[s] /\ ~stages[s].gone
    BY <1>1 DEF Fresh
  <1>6. /\ Len(feed[s]) > 0 => feed[s][Len(feed[s])] = stages[s]
        /\ feed[s] = <<>> => stages[s].gone
    BY DEF Fresh
  <1>7. Log(s)
    <2>1. GoneIsLast(s) /\ LastIsStored(s)
      BY <1>1, <1>5, <1>6 DEF GoneIsLast, LastIsStored
    <2>2. AssignedForGood(s) /\ SameWorker(s)
      BY <1>5 DEF AssignedForGood, SameWorker, Assigned
    <2>3. GoneFollows(s) /\ FirstIsStored(s)
      BY <1>5 DEF GoneFollows, FirstIsStored, Assigned
    <2> QED BY <2>1, <2>2, <2>3 DEF Log
  <1>8. Hold(s)
    <2>1. Positions(s)
      BY <1>1, <1>2, <1>3 DEF Positions, BindingsOf
    <2>2. AttemptedWasReady(s) /\ BindingsOK(s) /\ Somewhere(s) /\ AssumeUnassumed(s)
      BY <1>1, <1>2, <1>3, <1>4
         DEF AttemptedWasReady, BindingsOK, BindingsOf, Somewhere, AssumeUnassumed
    <2> QED BY <2>1, <2>2 DEF Hold
  <1>9. Cached(s)
    <2>1. ~ToldReady(s) /\ ~Seen(s)
      BY <1>1 DEF ToldReady, Seen
    <2> QED BY <1>1, <1>4, <2>1
            DEF Cached, OwnerHasCache, NoOwnerOfAssigned, CachedIsOwned, AssignedIsCached,
                CacheBefore, CacheAfter, CacheGone
  <1> QED BY <1>7, <1>8, <1>9 DEF StageInv

LEMMA RestartKeeps ==
  ASSUME IInv, TypeOK', Restart
  PROVE  IInv'
  <1>1. \A b \in bindings' : b.pc = "orphan" /\ b.s \in doubtful'
    <2> SUFFICES ASSUME NEW c \in bindings, c.pc = "bind"
                 PROVE  /\ [c EXCEPT !.pc = "orphan"].pc = "orphan"
                        /\ [c EXCEPT !.pc = "orphan"].s \in doubtful'
      BY DEF Restart
    <2>1. c \in Attempting(BindingPcs)
      BY DEF IInv, TypeOK
    <2>2. [c EXCEPT !.pc = "orphan"].pc = "orphan" /\ [c EXCEPT !.pc = "orphan"].s = c.s
      BY <2>1 DEF Attempting
    <2> QED BY <2>2 DEF Restart
  <1>2. FreshStages'
    <2> SUFFICES ASSUME NEW s \in Stages PROVE Fresh(s)'
      BY DEF FreshStages
    <2>1. /\ told'[s] = <<>> /\ feed'[s] = (IF stages'[s].gone THEN <<>> ELSE <<stages'[s]>>)
          /\ cacheAt'[s] = 0 /\ queueAt'[s] = 0 /\ queue'[s] = 0 /\ cache'[s] = NotCached
          /\ loop' = Popping
      BY DEF Restart
    <2>2. held' # s
      BY SchedulerAssumption DEF Restart
    <2> QED BY <1>1, <2>1, <2>2 DEF Fresh
  <1>3. StagesInv'
    BY <1>2, FreshIsInOrder, PTL
  <1>4. ExitsOnlyWhenTampered'
    BY DEF Restart, ExitsOnlyWhenTampered
  <1> QED BY <1>3, <1>4 DEF IInv, StagesInv

----------------------------------------------------------------------------
(* The invariant holds *)

LEMMA InitInv == Init => IInv
  <1> SUFFICES ASSUME Init PROVE IInv
    OBVIOUS
  <1>1. TypeOK
    BY TypeInit
  <1>2. FreshStages
    <2> SUFFICES ASSUME NEW s \in Stages PROVE Fresh(s)
      BY DEF FreshStages
    <2>1. ~stages[s].gone /\ feed[s] = <<stages[s]>> /\ held # s
      BY SchedulerAssumption DEF Init
    <2> QED BY <2>1 DEF Init, Fresh
  <1>3. StagesInv
    BY <1>1, <1>2, FreshIsInOrder
  <1>4. ExitsOnlyWhenTampered
    BY DEF Init, ExitsOnlyWhenTampered
  <1> QED BY <1>1, <1>3, <1>4 DEF IInv, StagesInv

LEMMA PermitPhaseKeeps ==
  ASSUME IInv, TypeOK',
         \/ \E s \in Stages : Reject(s) \/ \E p \in permitPlugins : Allow(s, p)
         \/ \E w \in Workers : WorkerEvent(w)
  PROVE  IInv'
  <1>1. UNCHANGED <<stages, feed, told, cacheAt, queueAt, held, queue, cache,
                    loop, bindings, exited, stranded, doubtful, tampered, merged, remade>>
    BY DEF Reject, Allow, WorkerEvent, api, handlers, history
  <1> QED BY <1>1, NoStageChanges

LEMMA StepInv == IInv /\ [Next]_vars => IInv'
  <1> SUFFICES ASSUME IInv, [Next]_vars PROVE IInv'
    OBVIOUS
  <1>1. TypeOK'
    BY TypeStep DEF IInv
  <1>2. CASE UNCHANGED vars
    BY <1>1, <1>2, NoStageChanges DEF vars
  <1>3. CASE \E s \in Stages : QueueHandler(s) \/ Pop(s) \/ CacheHandler(s)
    BY <1>1, <1>3, QueueHandlersKeep, PopKeeps, CacheHandlerKeeps
  <1>4. CASE \E s \in Stages : OthersWrite(s) \/ MadeReadyAgain(s) \/ Deliver(s)
    BY <1>1, <1>4, OthersWriteKeeps, MadeReadyAgainKeeps, DeliverKeeps
  <1>5. CASE LoopStep
    BY <1>1, <1>5, ScheduleKeeps, AssumeKeeps, PermitKeeps, LoopGetsKeeps, LoopRequeuesKeeps
       DEF LoopStep
  <1>6. CASE \E b \in bindings : AnyBindingStep(b)
    BY <1>1, <1>6, BindingGetsKeeps, BindingRequeuesKeeps, WaitOnPermitKeeps,
       StageBindingKeeps, BoundKeeps, BindFailsKeeps, OrphanServedKeeps DEF AnyBindingStep
  <1>7. CASE \/ \E s \in Stages : Reject(s) \/ \E p \in permitPlugins : Allow(s, p)
             \/ \E w \in Workers : WorkerEvent(w)
    BY <1>1, <1>7, PermitPhaseKeeps
  <1>8. CASE Restart
    BY <1>1, <1>8, RestartKeeps
  <1> QED BY <1>2, <1>3, <1>4, <1>5, <1>6, <1>7, <1>8
          DEF Next, QueueHandler, LoopStep, AnyBindingStep

(* The inductive invariant holds in every state the scheduler reaches.     *)
THEOREM Invariance == Spec => []IInv
  BY InitInv, StepInv, PTL DEF Spec

----------------------------------------------------------------------------
(* The properties *)

LEMMA SomewhereSuffices == IInv => ReadyStageIsSomewhere
  <1> SUFFICES ASSUME IInv, NEW s \in Stages, stages[s].state = "ready", ~stages[s].gone,
                      Informed(s)
               PROVE  queue[s] # 0 \/ Busy(s) \/ s \in stranded \cup remade
    BY DEF ReadyStageIsSomewhere
  <1>1. Log(s) /\ Somewhere(s) /\ Len(told[s]) \in Nat
    BY AttemptFacts
  <1>2. feed[s] = <<>> /\ queueAt[s] = Len(told[s])
    BY DEF Informed
  <1>3. Len(told[s]) # 0
    BY <1>1, <1>2 DEF Log, LastIsStored
  <1>4. queueAt[s] > 0 /\ ~Assigned(s)
    BY <1>1, <1>2, <1>3 DEF Assigned, assignedStage
  <1> QED BY <1>1, <1>4 DEF Somewhere

(* Whatever the order of informer, handlers, scheduling loop, bindings and *)
(* restarts, a ready stage that the informer has delivered is queued,      *)
(* attempted or being bound, unless its bind request failed.               *)
THEOREM NoReadyStageIsLost == Spec => []ReadyStageIsSomewhere
  BY Invariance, SomewhereSuffices, PTL

(* UpdateStage and RemoveStage end the process for a corrupted cache only  *)
(* after assume wrote into an assigned object, a re-list merged changes, a *)
(* bind request went without its answer or a bound stage was made ready.   *)
THEOREM NoOtherExit == Spec => []ExitsOnlyWhenTampered
  <1>1. IInv => ExitsOnlyWhenTampered
    BY DEF IInv
  <1> QED BY <1>1, Invariance, PTL

LEMMA SettledSuffices == IInv => CacheSettles
  <1> SUFFICES ASSUME IInv, NEW s \in Stages, Informed(s), ~Busy(s), Clean(s)
               PROVE  LET assigned == assignedStage(stages[s]) /\ ~stages[s].gone
                      IN /\ (cache[s].obj # 0) = assigned
                         /\ assigned => cache[s].on = stages[s].worker /\ ~cache[s].assumed
    BY DEF CacheSettles, Clean
  <1> DEFINE last == told[s][Len(told[s])]
  <1>1. /\ TypeOK /\ Log(s) /\ Cached(s) /\ cache[s].obj \in Nat /\ Len(told[s]) \in Nat
        /\ cache[s].obj <= Len(told[s])
    BY AttemptFacts
  <1>2. feed[s] = <<>> /\ cacheAt[s] = Len(told[s])
    BY DEF Informed
  <1>3. Owners(s) = {}
    BY DEF Owners, Busy
  <1>4. s \notin remade /\ s \notin doubtful /\ s \notin tampered
    BY DEF Clean
  <1>5. Len(told[s]) = 0 => stages[s].gone /\ cache[s].obj = 0
    BY <1>1, <1>2 DEF Log, LastIsStored
  <1>6. Len(told[s]) # 0 =>
          /\ Seen(s) <=> Assigned(s)
          /\ told[s][cacheAt[s]].gone <=> stages[s].gone
    BY <1>1, <1>2 DEF Log, LastIsStored, Seen
  <1>7. ~Assigned(s) => cache[s].obj = 0
    BY <1>1, <1>3, <1>4 DEF Cached, CachedIsOwned
  <1>8. Assigned(s) /\ stages[s].gone => cache[s].obj = 0
    BY <1>1, <1>3, <1>5, <1>6 DEF Cached, CacheGone
  <1>9. Assigned(s) /\ ~stages[s].gone =>
          cache[s].obj # 0 /\ ~cache[s].assumed /\ cache[s].on = stages[s].worker
    <2> SUFFICES ASSUME Assigned(s), ~stages[s].gone
                 PROVE  /\ cache[s].obj # 0 /\ ~cache[s].assumed
                        /\ cache[s].on = stages[s].worker
      OBVIOUS
    <2>1. /\ cache[s].obj # 0 /\ ~cache[s].assumed
          /\ assignedStage(Stored(s)) /\ cache[s].on = Stored(s).worker
      BY <1>1, <1>5, <1>6 DEF Cached, CacheAfter
    <2>2. cache[s].obj \in 1..Len(told[s])
      BY <1>1, <2>1
    <2> QED BY <1>1, <1>4, <2>1, <2>2 DEF Log, SameWorker, Stored
  <1> QED BY <1>7, <1>8, <1>9 DEF Assigned

(* Once the informer has delivered everything and nobody works on a stage, *)
(* the cache has it exactly if it is assigned, confirmed, on its worker.   *)
THEOREM CacheAgreesInTheEnd == Spec => []CacheSettles
  BY Invariance, SettledSuffices, PTL

\* No step binds an assigned stage to another worker.
NotRebound ==
  \A s \in Stages :
    assignedStage(stages[s]) /\ stages'[s].state = "bind" /\ s \notin doubtful \cup remade
      => stages'[s].worker = stages[s].worker

LEMMA StepDoesNotRebind == IInv /\ [Next]_vars => NotRebound
  <1> SUFFICES ASSUME IInv, [Next]_vars PROVE NotRebound
    OBVIOUS
  <1>1. stages \in [Stages -> Object]
    BY DEF IInv, TypeOK
  <1>2. CASE UNCHANGED stages
    BY <1>2 DEF NotRebound
  <1>3. ASSUME NEW t \in Stages, OthersWrite(t) PROVE NotRebound
    <2>1. stages[t] \in Object
      BY <1>1
    <2>2. /\ [stages[t] EXCEPT !.state = "done"].worker = stages[t].worker
          /\ [stages[t] EXCEPT !.gone = TRUE].worker = stages[t].worker
      BY <2>1 DEF Object
    <2>3. stages'[t].worker = stages[t].worker
      BY <1>1, <1>3, <2>2 DEF OthersWrite, Put
    <2>4. \A s \in Stages \ {t} : stages'[s] = stages[s]
      BY <1>1, <1>3 DEF OthersWrite, Put
    <2> QED BY <2>3, <2>4 DEF NotRebound
  <1>4. ASSUME NEW t \in Stages, MadeReadyAgain(t) PROVE NotRebound
    <2>1. stages'[t].state = "ready" /\ \A s \in Stages \ {t} : stages'[s] = stages[s]
      BY <1>1, <1>4 DEF MadeReadyAgain, Put
    <2> QED BY <2>1 DEF NotRebound
  <1>5. ASSUME NEW b \in bindings, stageBinding(b) \/ OrphanServed(b) PROVE NotRebound
    <2>1. b \in Attempting(BindingPcs)
      BY DEF IInv, TypeOK
    <2>2. PICK t \in Stages : b.s = t
      BY <2>1 DEF Attempting
    <2>3. \A s \in Stages \ {t} : stages'[s] = stages[s]
      BY <1>1, <1>5, <2>2 DEF stageBinding, OrphanServed, Put, api
    <2>4. CASE stageBinding(b)
      <3>1. b \in Owners(t) /\ ~stages[t].gone
        BY <2>2, <2>4 DEF stageBinding, Owners
      <3>2. t \notin doubtful \cup remade => ~Assigned(t)
        BY <3>1, AttemptFacts DEF Cached, NoOwnerOfAssigned, Settled
      <3> QED BY <2>3, <3>2 DEF NotRebound, Assigned
    <2>5. CASE OrphanServed(b)
      <3>1. b \in BindingsOf(t) /\ b.pc = "orphan"
        BY <2>2, <2>5 DEF OrphanServed, BindingsOf
      <3>2. t \in doubtful
        BY <3>1, AttemptFacts
      <3> QED BY <2>3, <3>2 DEF NotRebound
    <2> QED BY <1>5, <2>4, <2>5
  <1>6. \/ UNCHANGED stages
        \/ \E s \in Stages : OthersWrite(s) \/ MadeReadyAgain(s)
        \/ \E b \in bindings : stageBinding(b) \/ OrphanServed(b)
    <2>1. CASE UNCHANGED vars
      BY <2>1 DEF vars
    <2>2. CASE \E s \in Stages : QueueHandler(s) \/ Pop(s) \/ CacheHandler(s) \/ Deliver(s)
      BY <2>2 DEF QueueHandler, addStageToSchedulingQueue, updateStageInSchedulingQueue,
                  QueueUpdate, deleteStageFromSchedulingQueue, QueueFilterDrops, Pop,
                  CacheHandler, Deliver, api
    <2>3. CASE LoopStep
      BY <2>3 DEF LoopStep, ScheduleStage, assume, Permit, LoopGets, LoopRequeues, api
    <2>4. CASE \E b \in bindings :
                 BindingGets(b) \/ BindingRequeues(b) \/ WaitOnPermit(b) \/ Bound(b) \/ BindFails(b)
      BY <2>4 DEF BindingGets, BindingRequeues, WaitOnPermit, Bound, BindFails, api
    <2>5. CASE \/ \E s \in Stages : Reject(s) \/ \E p \in permitPlugins : Allow(s, p)
               \/ \E w \in Workers : WorkerEvent(w)
               \/ Restart
      BY <2>5 DEF Reject, Allow, WorkerEvent, Restart, api
    <2> QED BY <2>1, <2>2, <2>3, <2>4, <2>5 DEF Next, QueueHandler, LoopStep
  <1> QED BY <1>2, <1>3, <1>4, <1>5, <1>6

(* However late the handlers are and whatever copies the queue holds, no   *)
(* bind request reaches a stage that is bound or has run, unless one went  *)
(* without its answer or the stage was written ready again.                *)
THEOREM NoSecondBind == Spec => BoundStaysBound
  <1>1. IInv /\ [Next]_vars => [NotRebound]_vars
    BY StepDoesNotRebind
  <1>2. Spec => [][NotRebound]_vars
    BY <1>1, Invariance, PTL DEF Spec
  <1> QED BY <1>2 DEF BoundStaysBound, NotRebound
=============================================================================
