----------------------------- MODULE Scheduler -----------------------------
(***************************************************************************)
(* The scheduler as a whole (pkg/scheduler): the scheduling loop, a        *)
(* binding goroutine for every stage that got a worker, the permit phase   *)
(* and the informer's handlers that feed the cache and the queue, over the *)
(* API server's stages.                                                    *)
(*                                                                         *)
(* The queue is the set of stages in any of its sub-queues: SchedulingQueue*)
(* shows that no operation loses a queued stage and that it is popped in   *)
(* the end, so priorities, backoff and move requests do not appear here.   *)
(* The cache is what SchedulerCache keeps of a stage. A write reaches the  *)
(* informer through feed and is from then on an object in memory: told[s]  *)
(* are those objects in order. The code passes pointers to them, so the    *)
(* queue, the cache, the loop and the bindings hold an index into told[s], *)
(* and what assume writes into an object is seen by all of them.           *)
(*                                                                         *)
(* No extender is configured. The status update after a failed attempt is  *)
(* left out: the API server has no route for it and refuses it.            *)
(***************************************************************************)
EXTENDS Framework

CONSTANTS
  NoStage, NoWorker,
  MaxWrites,       \* bound on what others write, troubles included
  MaxLag,          \* bound on the writes the informer has not seen
  MaxTroubles      \* bound on failing requests, re-lists, restarts and the like

ASSUME SchedulerAssumption == NoStage \notin Stages /\ NoWorker \notin Workers

VARIABLES
  stages,          \* the API server: stage -> object
  feed,            \* stage -> the writes that have not reached the informer
  told,            \* stage -> the objects the informer has handed out
  cacheAt, queueAt,    \* stage -> how many of them each handler has dealt with
  held,            \* the stage whose update is between the check and queue.Update
  queue,           \* stage -> the object queued, 0 if none
  cache,           \* stage -> [obj, assumed, on]; obj = 0 if it is not cached
  workers,         \* the workers in the cache
  loop,            \* the scheduling loop: [pc, s, obj, w]
  bindings,        \* the binding goroutines, records like loop
  waiting,         \* stage -> its waitingStage: [pending, chan]
  exited,          \* os.Exit was called
  writes, troubles,
  stranded,        \* history: stages whose bind request failed, until queued again
  doubtful,        \* history: stages with a bind request whose answer nobody heard
  tampered,        \* history: stages whose assigned object assume wrote into
  merged,          \* history: stages several of whose changes a re-list merged into one
  remade           \* history: stages written ready after they were bound

api == <<stages, feed>>
handlers == <<told, cacheAt, queueAt, held>>
history == <<stranded, doubtful, tampered, merged, remade>>
vars == <<stages, feed, told, cacheAt, queueAt, held, queue, cache, workers, loop,
          bindings, waiting, exited, writes, troubles, stranded,
          doubtful, tampered, merged, remade>>

States == {"ready", "bind", "done"}
Object == [state : States, worker : Workers \cup {NoWorker}, gone : BOOLEAN]
NotCached == [obj |-> 0, assumed |-> FALSE, on |-> NoWorker]
NotWaiting == [pending |-> {}, chan |-> "none"]
Popping == [pc |-> "pop", s |-> NoStage, obj |-> 0, w |-> NoWorker]

readyStage(o) == o.state = "ready"
assignedStage(o) == o.state \in {"bind", "done"}

Init ==
  /\ stages = [s \in Stages |-> [state |-> "ready", worker |-> NoWorker, gone |-> FALSE]]
  /\ feed = [s \in Stages |-> <<stages[s]>>]
  /\ told = [s \in Stages |-> <<>>]
  /\ cacheAt = [s \in Stages |-> 0] /\ queueAt = cacheAt
  /\ held = NoStage
  /\ queue = [s \in Stages |-> 0]
  /\ cache = [s \in Stages |-> NotCached]
  /\ workers = Workers
  /\ loop = Popping /\ bindings = {}
  /\ waiting = [s \in Stages |-> NotWaiting]
  /\ exited = FALSE
  /\ writes = 0 /\ troubles = 0
  /\ stranded = {} /\ doubtful = {} /\ tampered = {}
  /\ merged = {} /\ remade = {}

Trouble ==
  /\ troubles < MaxTroubles /\ writes + troubles < MaxWrites
  /\ troubles' = troubles + 1

----------------------------------------------------------------------------
(* The API server, and what others do with stages *)

Put(s, o) ==
  /\ Len(feed[s]) < MaxLag
  /\ stages' = [stages EXCEPT ![s] = o]
  /\ feed' = [feed EXCEPT ![s] = Append(@, o)]

\* A ready stage is written again, a worker reports the result, or an operator
\* removes the stage from etcd (the API's own DELETE panics, module Api).
OthersWrite(s) ==
  /\ ~stages[s].gone /\ writes + troubles < MaxWrites
  /\ writes' = writes + 1
  /\ \/ stages[s].state = "ready" /\ Put(s, stages[s])
     \/ stages[s].state = "bind" /\ Put(s, [stages[s] EXCEPT !.state = "done"])
     \/ Put(s, [stages[s] EXCEPT !.gone = TRUE])
  /\ UNCHANGED <<handlers, queue, cache, workers, loop, bindings, waiting, exited,
                 troubles, history>>

\* The stage controller writes a stage ready that was bound meanwhile.
MadeReadyAgain(s) ==
  /\ ~stages[s].gone /\ assignedStage(stages[s])
  /\ Trouble
  /\ \E w \in {stages[s].worker, NoWorker} :
       Put(s, [state |-> "ready", worker |-> w, gone |-> FALSE])
  /\ remade' = remade \cup {s}
  /\ UNCHANGED <<handlers, queue, cache, workers, loop, bindings, waiting, exited,
                 writes, stranded, doubtful, tampered, merged>>

\* The informer's store takes the next write, or, after a re-list, the last.
Deliver(s) ==
  /\ ~exited /\ feed[s] # <<>>
  /\ \/ /\ told' = [told EXCEPT ![s] = Append(@, Head(feed[s]))]
        /\ feed' = [feed EXCEPT ![s] = Tail(@)]
        /\ UNCHANGED <<troubles, merged>>
     \/ /\ Len(feed[s]) > 1 /\ Trouble
        /\ told' = [told EXCEPT ![s] = Append(@, stages[s])]
        /\ feed' = [feed EXCEPT ![s] = <<>>]
        /\ merged' = merged \cup {s}
  /\ UNCHANGED <<stages, cacheAt, queueAt, held, queue, cache, workers, loop, bindings,
                 waiting, exited, writes, stranded, doubtful, tampered, remade>>

----------------------------------------------------------------------------
(* The cache *)

Stored(s) == told[s][cache[s].obj]

\* removeStage looks for the stage at the worker its object names; if that
\* worker is known and has not got it, nothing is removed.
Removes(s, worker) ==
  \/ cache[s].on = worker
  \/ worker \notin workers \cup {cache[t].on : t \in Stages}

\* AssumeStage refuses a stage that the cache has, assumed or not.
AssumesAdded_mutant(s) == cache[s].obj = 0 \/ ~cache[s].assumed
Assumable(s) == cache[s].obj = 0

AssumeStage(s, obj, w) ==
  cache' = [cache EXCEPT ![s] = [obj |-> obj, assumed |-> TRUE, on |-> w]]

\* ForgetStage: only an assumed stage, and only from the worker it is on.
ForgetStage(s, obj) ==
  IF /\ cache[s].obj # 0 /\ cache[s].assumed
     /\ Stored(s).worker = told[s][obj].worker
     /\ Removes(s, told[s][obj].worker)
  THEN [cache EXCEPT ![s] = NotCached]
  ELSE cache

AddStageKeepsAssumed_mutant(s, i) ==
  IF cache[s].obj = 0
  THEN [cache EXCEPT ![s] = [obj |-> i, assumed |-> FALSE, on |-> told[s][i].worker]]
  ELSE cache

\* AddStage confirms an assumption, moves a stage assumed elsewhere, adds an
\* unknown one, and refuses one that was added already.
AddStage(s, i) ==
  LET added == [obj |-> i, assumed |-> FALSE, on |-> told[s][i].worker]
  IN IF cache[s].obj = 0 THEN [cache EXCEPT ![s] = added]
     ELSE IF ~cache[s].assumed THEN cache
     ELSE IF Stored(s).worker = told[s][i].worker
          THEN [cache EXCEPT ![s].obj = i, ![s].assumed = FALSE]
          ELSE IF Removes(s, Stored(s).worker) THEN [cache EXCEPT ![s] = added]
          ELSE cache

\* UpdateStage exits when the stage is on another worker than before.
UpdateExits(s, i) ==
  cache[s].obj # 0 /\ ~cache[s].assumed /\ Stored(s).worker # told[s][i].worker

UpdateStage(s, i) ==
  IF cache[s].obj # 0 /\ ~cache[s].assumed /\ Removes(s, told[s][i - 1].worker)
  THEN [cache EXCEPT ![s] = [obj |-> i, assumed |-> FALSE, on |-> told[s][i].worker]]
  ELSE cache

\* RemoveStage exits likewise, unless the object names no worker.
RemoveExits(s, o) ==
  cache[s].obj # 0 /\ Stored(s).worker # o.worker /\ o.worker # NoWorker

RemoveStage(s) ==
  IF cache[s].obj # 0 /\ Removes(s, Stored(s).worker)
  THEN [cache EXCEPT ![s] = NotCached]
  ELSE cache

----------------------------------------------------------------------------
(* The handlers. A deletion hands over the last object; an update that     *)
(* takes the object out of the filter is a deletion of the old one.        *)

\* accepted: the positions of told[s] whose object the handler's filter accepts.
Event(s, i, accepted) ==
  LET gone == told[s][i].gone
      older == (IF gone THEN i ELSE i - 1) \in accepted
      newer == ~gone /\ i \in accepted
  IN IF newer THEN (IF older THEN "update" ELSE "add")
     ELSE (IF older THEN "delete" ELSE "none")

Deleted(s, i) == IF told[s][i].gone THEN told[s][i] ELSE told[s][i - 1]

\* addStageToCache, updateStageInCache, deleteStageFromCache
CacheHandler(s) ==
  LET i == cacheAt[s] + 1
      event == Event(s, i, {j \in DOMAIN told[s] : assignedStage(told[s][j])})
  IN /\ ~exited /\ i <= Len(told[s])
     /\ cacheAt' = [cacheAt EXCEPT ![s] = i]
     /\ cache' = IF event = "add" THEN AddStage(s, i)
                 ELSE IF event = "update" THEN UpdateStage(s, i)
                 ELSE IF event = "delete" THEN RemoveStage(s)
                 ELSE cache
     /\ exited' = \/ event = "update" /\ UpdateExits(s, i)
                  \/ event = "delete" /\ RemoveExits(s, Deleted(s, i))
     /\ UNCHANGED <<api, told, queueAt, held, queue, workers, loop, bindings, waiting,
                    writes, troubles, history>>

Enqueue(s, obj) ==
  /\ queue' = [queue EXCEPT ![s] = obj]
  /\ stranded' = stranded \ {s}

QueueTurn(s, event) ==
  /\ ~exited /\ held = NoStage
  /\ queueAt[s] < Len(told[s])
  /\ event = Event(s, queueAt[s] + 1, {j \in DOMAIN told[s] : readyStage(told[s][j])})
QueueTold(s) == queueAt' = [queueAt EXCEPT ![s] = @ + 1]

addStageToSchedulingQueue(s) ==
  /\ QueueTurn(s, "add")
  /\ QueueTold(s)
  /\ Enqueue(s, queueAt[s] + 1)
  /\ UNCHANGED <<api, told, cacheAt, held, cache, workers, loop, bindings, waiting, exited,
                 writes, troubles, doubtful, tampered, merged, remade>>

\* updateStageInSchedulingQueue drops the update of an assumed stage. The test
\* and queue.Update are two locked sections.
updateStageInSchedulingQueue(s) ==
  /\ QueueTurn(s, "update")
  /\ IF cache[s].assumed THEN QueueTold(s) /\ UNCHANGED held
     ELSE held' = s /\ UNCHANGED queueAt
  /\ UNCHANGED <<api, told, cacheAt, queue, cache, workers, loop, bindings, waiting,
                 exited, writes, troubles, history>>

\* Update replaces the object of a queued stage and queues any other.
QueueUpdate(s) ==
  /\ ~exited /\ held = s
  /\ held' = NoStage
  /\ QueueTold(s)
  /\ Enqueue(s, queueAt[s] + 1)
  /\ UNCHANGED <<api, told, cacheAt, cache, workers, loop, bindings, waiting, exited,
                 writes, troubles, doubtful, tampered, merged, remade>>

\* RejectWaitingStage: a send that does not block.
Rejected(s) ==
  IF waiting[s].chan = "empty" THEN [waiting EXCEPT ![s].chan = "reject"] ELSE waiting

deleteStageFromSchedulingQueue(s) ==
  /\ QueueTurn(s, "delete")
  /\ QueueTold(s)
  /\ queue' = [queue EXCEPT ![s] = 0]
  /\ waiting' = Rejected(s)
  /\ UNCHANGED <<api, told, cacheAt, held, cache, workers, loop, bindings, exited,
                 writes, troubles, history>>

\* The object passes the filter neither before nor after.
QueueFilterDrops(s) ==
  /\ QueueTurn(s, "none")
  /\ QueueTold(s)
  /\ UNCHANGED <<api, told, cacheAt, held, queue, cache, workers, loop, bindings, waiting,
                 exited, writes, troubles, history>>

\* addWorkerToCache, deleteWorkerToCache
WorkerEvent(w) ==
  /\ ~exited
  /\ \/ w \notin workers /\ workers' = workers \cup {w} /\ UNCHANGED troubles
     \/ w \in workers /\ workers' = workers \ {w} /\ Trouble
  /\ UNCHANGED <<api, handlers, queue, cache, loop, bindings, waiting, exited, writes, history>>

----------------------------------------------------------------------------
(* The scheduling loop *)

\* NextStage: Pop. The queue's entry is the loop's from here on.
Pop(s) ==
  /\ ~exited /\ loop = Popping /\ queue[s] # 0
  /\ loop' = [Popping EXCEPT !.pc = "schedule", !.s = s, !.obj = queue[s]]
  /\ queue' = [queue EXCEPT ![s] = 0]
  /\ UNCHANGED <<api, handlers, cache, workers, bindings, waiting, exited, writes,
                 troubles, history>>

SkipNothing_mutant(s) == FALSE

\* skipStageSchedule: a stage that is assumed is dropped.
skipStageSchedule(s) == cache[s].assumed

\* ScheduleStage over the snapshot, and the failure it can end with. AssumeStage
\* looks at the cache again, so that nothing hangs on the time in between.
ScheduleStage ==
  /\ ~exited /\ loop.pc = "schedule"
  /\ LET hosts == scheduleStage(loop.s, workers)
     IN \/ skipStageSchedule(loop.s) /\ loop' = Popping
        \/ /\ ~skipStageSchedule(loop.s)
           /\ \E w \in hosts : loop' = [loop EXCEPT !.pc = "assume", !.w = w]
        \/ /\ ~skipStageSchedule(loop.s) /\ hosts = {}
           /\ loop' = [loop EXCEPT !.pc = "get"]
  /\ UNCHANGED <<api, handlers, queue, cache, workers, bindings, waiting, exited, writes,
                 troubles, history>>

\* assume writes the worker into the object before the cache is asked, and the
\* write stays when the cache refuses.
assume ==
  LET s == loop.s  obj == loop.obj
  IN /\ ~exited /\ loop.pc = "assume"
     /\ told' = [told EXCEPT ![s][obj].worker = loop.w]
     /\ tampered' = IF assignedStage(told[s][obj]) THEN tampered \cup {s} ELSE tampered
     /\ IF Assumable(s)
        THEN AssumeStage(s, obj, loop.w) /\ loop' = [loop EXCEPT !.pc = "permit"]
        ELSE UNCHANGED cache /\ loop' = [loop EXCEPT !.pc = "get"]
     /\ UNCHANGED <<api, cacheAt, queueAt, held, queue, workers, bindings, waiting, exited,
                    writes, troubles, stranded, doubtful, merged, remade>>

\* RunPermitPlugins, then the binding goroutine is started; a rejected stage
\* is forgotten and fails.
Permit ==
  LET s == loop.s
      Starts(pc) == bindings' = bindings \cup {[loop EXCEPT !.pc = pc]} /\ loop' = Popping
  IN /\ ~exited /\ loop.pc = "permit"
     /\ \E answer \in RunPermitPlugins :
          \/ /\ answer.status = "pass"
             /\ Starts("bind")
             /\ UNCHANGED <<cache, waiting>>
          \/ /\ answer.status = "wait"
             /\ Starts("wait")
             /\ waiting' = [waiting EXCEPT ![s] = [pending |-> answer.pending, chan |-> "empty"]]
             /\ UNCHANGED cache
          \/ /\ answer.status = "reject"
             /\ cache' = ForgetStage(s, loop.obj)
             /\ loop' = [loop EXCEPT !.pc = "get", !.w = NoWorker]
             /\ UNCHANGED <<bindings, waiting>>
     /\ UNCHANGED <<api, handlers, queue, workers, exited, writes, troubles, history>>

(* The error function, in the loop or in a binding: the lister's object,   *)
(* whatever its state, is queued again unless the stage is queued already. *)

Listed(s) == Len(told[s]) > 0 /\ ~told[s][Len(told[s])].gone

RequeueForgets_mutant(s, obj) == UNCHANGED <<queue, stranded>>

AddUnschedulableIfNotPresent(s, obj) ==
  IF queue[s] = 0 THEN Enqueue(s, obj) ELSE UNCHANGED <<queue, stranded>>

LoopGets ==
  /\ ~exited /\ loop.pc = "get"
  /\ loop' = IF Listed(loop.s)
             THEN [loop EXCEPT !.pc = "requeue", !.obj = Len(told[loop.s])]
             ELSE Popping
  /\ UNCHANGED <<api, handlers, queue, cache, workers, bindings, waiting, exited, writes,
                 troubles, history>>

LoopRequeues ==
  /\ ~exited /\ loop.pc = "requeue"
  /\ AddUnschedulableIfNotPresent(loop.s, loop.obj)
  /\ loop' = Popping
  /\ UNCHANGED <<api, handlers, cache, workers, bindings, waiting, exited, writes,
                 troubles, doubtful, tampered, merged, remade>>

BindingGets(b) ==
  /\ ~exited /\ b.pc = "get"
  /\ bindings' = (bindings \ {b}) \cup
                 (IF Listed(b.s) THEN {[b EXCEPT !.pc = "requeue", !.obj = Len(told[b.s])]}
                  ELSE {})
  /\ UNCHANGED <<api, handlers, queue, cache, workers, loop, waiting, exited, writes,
                 troubles, history>>

BindingRequeues(b) ==
  /\ ~exited /\ b.pc = "requeue"
  /\ AddUnschedulableIfNotPresent(b.s, b.obj)
  /\ bindings' = bindings \ {b}
  /\ UNCHANGED <<api, handlers, cache, workers, loop, waiting, exited, writes, troubles,
                 doubtful, tampered, merged, remade>>

----------------------------------------------------------------------------
(* The permit phase of a binding *)

AllowAny_mutant(s, p) ==
  /\ ~exited /\ waiting[s].chan # "none" /\ p \in waiting[s].pending
  /\ waiting' = [waiting EXCEPT ![s].pending = @ \ {p}]
  /\ UNCHANGED <<api, handlers, queue, cache, workers, loop, bindings, exited, writes,
                 troubles, history>>

\* Allow: the channel gets its answer when the last plugin has allowed.
Allow(s, p) ==
  /\ ~exited /\ waiting[s].chan # "none" /\ p \in waiting[s].pending
  /\ LET pending == waiting[s].pending \ {p}
         chan == IF pending = {} /\ waiting[s].chan = "empty" THEN "allow"
                 ELSE waiting[s].chan
     IN waiting' = [waiting EXCEPT ![s] = [pending |-> pending, chan |-> chan]]
  /\ UNCHANGED <<api, handlers, queue, cache, workers, loop, bindings, exited, writes,
                 troubles, history>>

\* Reject: a plugin's, or that of a timer; the timers of plugins that have
\* allowed are stopped.
Reject(s) ==
  /\ ~exited /\ waiting[s].chan = "empty" /\ waiting[s].pending # {}
  /\ waiting' = Rejected(s)
  /\ UNCHANGED <<api, handlers, queue, cache, workers, loop, bindings, exited, writes,
                 troubles, history>>

\* WaitOnPermit returns with the first answer.
WaitOnPermit(b) ==
  /\ ~exited /\ b.pc = "wait" /\ waiting[b.s].chan \in {"allow", "reject"}
  /\ waiting' = [waiting EXCEPT ![b.s] = NotWaiting]
  /\ IF waiting[b.s].chan = "allow"
     THEN /\ bindings' = (bindings \ {b}) \cup {[b EXCEPT !.pc = "bind"]}
          /\ UNCHANGED cache
     ELSE /\ bindings' = (bindings \ {b}) \cup {[b EXCEPT !.pc = "get"]}
          /\ cache' = ForgetStage(b.s, b.obj)
  /\ UNCHANGED <<api, handlers, queue, workers, loop, exited, writes, troubles, history>>

----------------------------------------------------------------------------
(* The bind request *)

\* stageBinding stores whatever the stage's state is; a deleted stage is an
\* error.
stageBinding(b) ==
  /\ b.pc = "bind" /\ ~stages[b.s].gone
  /\ Put(b.s, [state |-> "bind", worker |-> b.w, gone |-> FALSE])
  /\ bindings' = (bindings \ {b}) \cup {[b EXCEPT !.pc = "bound"]}
  /\ UNCHANGED <<handlers, queue, cache, workers, loop, waiting, exited, writes, troubles,
                 history>>

\* The answer: FinishBinding starts no timer, as the cache's ttl is 0.
Bound(b) ==
  /\ ~exited /\ b.pc = "bound"
  /\ bindings' = bindings \ {b}
  /\ UNCHANGED <<api, handlers, queue, cache, workers, loop, waiting, exited, writes,
                 troubles, history>>

\* A failed bind is forgotten; the stage itself is put into no queue.
BindFails(b) ==
  /\ ~exited
  /\ \/ b.pc = "bind" /\ stages[b.s].gone /\ UNCHANGED <<troubles, doubtful>>
     \/ b.pc = "bind" /\ Trouble /\ UNCHANGED doubtful
     \/ b.pc = "bound" /\ Trouble /\ doubtful' = doubtful \cup {b.s}
  /\ cache' = ForgetStage(b.s, b.obj)
  /\ stranded' = IF queue[b.s] = 0 THEN stranded \cup {b.s} ELSE stranded
  /\ bindings' = bindings \ {b}
  /\ UNCHANGED <<api, handlers, queue, workers, loop, waiting, exited, writes, tampered,
                 merged, remade>>

\* A new process, after a crash or an exit: the informer lists the stages. A
\* request on its way may still be served.
Restart ==
  /\ Trouble
  /\ feed' = [s \in Stages |-> IF stages[s].gone THEN <<>> ELSE <<stages[s]>>]
  /\ told' = [s \in Stages |-> <<>>]
  /\ cacheAt' = [s \in Stages |-> 0] /\ queueAt' = cacheAt'
  /\ held' = NoStage
  /\ queue' = [s \in Stages |-> 0]
  /\ cache' = [s \in Stages |-> NotCached]
  /\ loop' = Popping
  /\ bindings' = {[b EXCEPT !.pc = "orphan"] : b \in {c \in bindings : c.pc = "bind"}}
  /\ waiting' = [s \in Stages |-> NotWaiting]
  /\ exited' = FALSE
  /\ doubtful' = doubtful \cup {b.s : b \in {c \in bindings : c.pc = "bind"}}
  /\ stranded' = {} /\ tampered' = {} /\ merged' = {} /\ remade' = {}
  /\ UNCHANGED <<stages, workers, writes>>

OrphanServed(b) ==
  /\ b.pc = "orphan"
  /\ bindings' = bindings \ {b}
  /\ \/ ~stages[b.s].gone /\ Put(b.s, [state |-> "bind", worker |-> b.w, gone |-> FALSE])
     \/ UNCHANGED api
  /\ UNCHANGED <<handlers, queue, cache, workers, loop, waiting, exited, writes, troubles,
                 history>>

----------------------------------------------------------------------------
Next ==
  \/ \E s \in Stages :
       \/ OthersWrite(s) \/ MadeReadyAgain(s) \/ Deliver(s) \/ CacheHandler(s)
       \/ addStageToSchedulingQueue(s) \/ updateStageInSchedulingQueue(s) \/ QueueUpdate(s)
       \/ deleteStageFromSchedulingQueue(s) \/ QueueFilterDrops(s)
       \/ Pop(s) \/ Reject(s)
       \/ \E p \in permitPlugins : Allow(s, p)
  \/ \E w \in Workers : WorkerEvent(w)
  \/ ScheduleStage \/ assume \/ Permit \/ LoopGets \/ LoopRequeues
  \/ \E b \in bindings :
       \/ BindingGets(b) \/ BindingRequeues(b) \/ WaitOnPermit(b) \/ stageBinding(b)
       \/ Bound(b) \/ BindFails(b) \/ OrphanServed(b)
  \/ Restart

Spec == Init /\ [][Next]_vars

(* Fairness: the API server answers, the informer delivers, every handler  *)
(* and goroutine runs, and the timers of the permit phase fire. Pop is     *)
(* strongly fair: the queue pops a stage that stays in it in the end.      *)

LoopStep == ScheduleStage \/ assume \/ Permit \/ LoopGets \/ LoopRequeues
QueueHandler(s) ==
  \/ addStageToSchedulingQueue(s) \/ updateStageInSchedulingQueue(s) \/ QueueUpdate(s)
  \/ deleteStageFromSchedulingQueue(s) \/ QueueFilterDrops(s)
BindingStep(s) ==
  \E b \in bindings :
    /\ b.s = s
    /\ \/ BindingGets(b) \/ BindingRequeues(b) \/ WaitOnPermit(b) \/ stageBinding(b)
       \/ Bound(b) \/ OrphanServed(b) \/ (b.pc = "bind" /\ stages[s].gone /\ BindFails(b))

Fairness ==
  /\ WF_vars(LoopStep)
  /\ \A s \in Stages :
       /\ WF_vars(Deliver(s)) /\ WF_vars(CacheHandler(s)) /\ WF_vars(QueueHandler(s))
       /\ WF_vars(Reject(s)) /\ WF_vars(BindingStep(s))
       /\ SF_vars(Pop(s))

FairSpec == Spec /\ Fairness

----------------------------------------------------------------------------
(* Properties *)

Busy(s) == loop.s = s \/ \E b \in bindings : b.s = s /\ b.pc # "orphan"
Informed(s) == feed[s] = <<>> /\ cacheAt[s] = Len(told[s]) /\ queueAt[s] = Len(told[s])

(* A ready stage that the informer has delivered is queued, attempted or   *)
(* being bound: neither an update that is dropped because the stage is     *)
(* assumed, nor a copy that is skipped, nor an attempt that fails in the   *)
(* loop or in the permit phase loses it. The exception is in the code: a   *)
(* stage whose bind request failed is queued again by nobody.              *)
ReadyStageIsSomewhere ==
  \A s \in Stages :
    stages[s].state = "ready" /\ ~stages[s].gone /\ Informed(s) /\ ~exited
      => queue[s] # 0 \/ Busy(s) \/ s \in stranded \cup remade

(* A bind request is not sent twice: a stage that is bound or has run is   *)
(* never bound to another worker, however late the handlers are and        *)
(* whatever copies the queue holds, unless a bind request went without its *)
(* answer.                                                                 *)
BoundStaysBound ==
  [][\A s \in Stages :
       assignedStage(stages[s]) /\ stages'[s].state = "bind" /\ s \notin doubtful \cup remade
         => stages'[s].worker = stages[s].worker]_vars

(* The cache finds itself corrupted and ends the process only when assume  *)
(* has written a worker into an object that was assigned already (a bound  *)
(* stage that the error function queued again), or when a re-list merged   *)
(* several changes of the stage.                                           *)
ExitsOnlyWhenTampered ==
  exited => tampered \cup merged \cup doubtful \cup remade # {}

(* When the informer has delivered everything and nobody works on a stage, *)
(* the cache holds it exactly if the API server has it assigned, and on    *)
(* the same worker.                                                        *)
CacheSettles ==
  \A s \in Stages :
    Informed(s) /\ ~Busy(s) /\ s \notin tampered \cup merged \cup doubtful \cup remade
      /\ ~exited
      => LET assigned == assignedStage(stages[s]) /\ ~stages[s].gone
         IN /\ (cache[s].obj # 0) = assigned
            /\ assigned => cache[s].on = stages[s].worker /\ ~cache[s].assumed

(* Every ready stage gets on: it is bound or deleted, unless no worker     *)
(* fits, a permit plugin or its timer turns it down, or it is one of those *)
(* the code loses (ReadyStageIsSomewhere). A binding that waits for a      *)
(* permit is answered, and an attempt that fails is followed by another.   *)
TurnedDown(s) ==
  \/ findWorkersThatPassFilters(s, workers) = {}
  \/ loop.s = s /\ loop.pc = "get" /\ loop.w = NoWorker
  \/ waiting[s].chan = "reject"

ReadyIsBound ==
  \A s \in Stages :
    stages[s].state = "ready"
      ~> \/ stages[s].state # "ready" \/ stages[s].gone
         \/ TurnedDown(s) \/ s \in stranded \cup remade \/ exited
=============================================================================
