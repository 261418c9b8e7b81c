------------------------------ MODULE Pipeline ------------------------------
(***************************************************************************)
(* How a job runs: the dag controller splits it into one stage per node,   *)
(* the scheduler binds the ready ones, the worker agent executes them, the *)
(* stage controller makes their children ready or failed and the job       *)
(* controller gives the job its final state. They share nothing but the    *)
(* API server's objects; each reads them from the cache of an informer     *)
(* that lags behind, or with a request, and writes whole objects back      *)
(* without a version check, so the last writer wins.                       *)
(*                                                                         *)
(* One job, one worker agent. A stage is <<node, k>>, k being the split    *)
(* that created it, and its object is its state. A watch event is the      *)
(* state written; an informer delivers the events of an object in order.   *)
(* The scheduler is its promise: a stage that becomes ready is bound once. *)
(* A request that fails, one that loses the store's compare-and-swap to    *)
(* another among them, has no effect; a restart loses what is in memory    *)
(* and lists everything again. Retries come back without their delay,      *)
(* which DelayingQueue models.                                             *)
(***************************************************************************)
EXTENDS Naturals, Sequences, FiniteSets

CONSTANTS
  Nodes,
  Depends,        \* node -> the nodes it depends on
  Syncs,          \* ConcurrentStageSyncs, ConcurrentJobSyncs
  StageWorkers,   \* concurrent executions of the worker agent
  MaxSplits,      \* bound on the times the job is split
  MaxLag,         \* bound on the undelivered events of an object
  MaxRuns,        \* bound on the executions of a stage
  MaxTroubles     \* bound on failing requests and restarts

ASSUME PipelineAssumption ==
  /\ Depends \in [Nodes -> SUBSET Nodes]
  /\ Syncs \in Nat \ {0} /\ StageWorkers \in Nat \ {0}
  /\ MaxSplits \in Nat \ {0} /\ MaxLag \in Nat \ {0}
  /\ MaxRuns \in Nat \ {0} /\ MaxTroubles \in Nat

VARIABLES
  job, stages,     \* the API server: the job's state, every stage's state
  order,           \* node -> its splits, the last written first, as lists are sorted
  splits,          \* the number of splits begun
  jobCache, jobEvents, dagKey, dag,             \* the dag controller
  cache, events,                                \* the stage and job controllers' informer
  stageKeys, stageSyncs, jobKeys, jobSyncs,     \* their queues and running syncs
  toSchedule,                                   \* the scheduler's queue
  wcache, wevents, wkeys, execs,                \* the worker agent
  troubles,        \* failed requests and restarts
  early,           \* history: a stage finished before the split did
  rewritten,       \* history: the stage controller overwrote a stage past create
  dropped,         \* history: a failed request nobody retries
  succeeded,       \* history: nodes with a stage that succeeded
  runs             \* history: how often a stage was executed

api == <<job, stages, order>>
dagvars == <<splits, jobCache, jobEvents, dagKey, dag>>
ctlvars == <<cache, events, stageKeys, stageSyncs, jobKeys, jobSyncs>>
wvars == <<wcache, wevents, wkeys, execs>>
envvars == <<troubles, dropped>>
history == <<early, rewritten, succeeded, runs>>
vars == <<job, stages, order, splits, jobCache, jobEvents, dagKey, dag, cache,
          events, stageKeys, stageSyncs, jobKeys, jobSyncs, toSchedule, wcache,
          wevents, wkeys, execs, troubles, early, rewritten, dropped,
          succeeded, runs>>

Ids == Nodes \X (1..MaxSplits)
StageStates == {"none", "create", "ready", "bind", "success", "failed"}
JobStates == {"create", "stage", "success", "failed"}
Finished == {"success", "failed"}
Idle == [pc |-> "idle", left |-> {}, fresh |-> FALSE]

----------------------------------------------------------------------------
Init ==
  /\ job = "create" /\ jobCache = "create" /\ jobEvents = <<>>
  /\ stages = [id \in Ids |-> "none"]
  /\ order = [n \in Nodes |-> <<>>]
  /\ splits = 0 /\ dagKey = TRUE /\ dag = Idle
  /\ cache = stages /\ wcache = stages
  /\ events = [id \in Ids |-> <<>>] /\ wevents = events
  /\ stageKeys = {} /\ stageSyncs = {} /\ jobKeys = {} /\ jobSyncs = {}
  /\ toSchedule = {} /\ wkeys = {} /\ execs = {}
  /\ troubles = 0
  /\ early = FALSE /\ rewritten = FALSE /\ dropped = FALSE
  /\ succeeded = {}
  /\ runs = [id \in Ids |-> 0]

\* The events an informer still has to deliver after a write. One whose object
\* passes the filter neither before nor after reaches no handler: left out.
Heard(queue, cached, state, passes) ==
  LET last == IF queue = <<>> THEN cached ELSE queue[Len(queue)]
  IN IF {last, state} \cap passes = {} THEN queue ELSE Append(queue, state)

\* Lists are sorted by modification revision, descending. A split is in the
\* list at most once.
LastWrittenFirst(seq, k) ==
  LET at == CHOOSE i \in 1..Len(seq) : seq[i] = k
  IN IF k \in {seq[i] : i \in 1..Len(seq)}
     THEN <<k>> \o SubSeq(seq, 1, at - 1) \o SubSeq(seq, at + 1, Len(seq))
     ELSE <<k>> \o seq

(* The API server stores the object whatever it holds, and every informer  *)
(* will hear of it.                                                        *)
Put(id, state) ==
  /\ stages' = [stages EXCEPT ![id] = state]
  /\ order' = [order EXCEPT ![id[1]] = LastWrittenFirst(@, id[2])]
  /\ events' = [events EXCEPT ![id] = Heard(@, cache[id], state, Finished)]
  /\ wevents' = [wevents EXCEPT ![id] = Heard(@, wcache[id], state, {"bind"})]
  /\ Len(events'[id]) <= MaxLag /\ Len(wevents'[id]) <= MaxLag
  /\ early' = (early \/ (state \in Finished /\ job = "create"))
  /\ succeeded' = IF state = "success" THEN succeeded \cup {id[1]} ELSE succeeded

PutJob(state) ==
  /\ Len(jobEvents) < MaxLag
  /\ job' = state
  /\ jobEvents' = Append(jobEvents, state)

\* What the scheduler's filter makes of a write: a stage that becomes ready
\* is queued, one that stays ready is only updated.
Queues(id, state) ==
  toSchedule' = IF state = "ready" /\ stages[id] # "ready" THEN toSchedule \cup {id}
                ELSE toSchedule

Trouble ==
  /\ troubles < MaxTroubles
  /\ troubles' = troubles + 1

Fails == Trouble /\ UNCHANGED <<api, toSchedule, history>>

----------------------------------------------------------------------------
(* The dag controller *)

\* The filter passes a job in state create; its becoming something else is a
\* delete to the handler, which enqueues the key too. The cached object is
\* replaced, so a split that runs still holds the old one.
DeliverJob ==
  /\ jobEvents # <<>>
  /\ jobCache' = Head(jobEvents)
  /\ jobEvents' = Tail(jobEvents)
  /\ dagKey' = (dagKey \/ "create" \in {jobCache, Head(jobEvents)})
  /\ dag' = [dag EXCEPT !.fresh = FALSE]
  /\ UNCHANGED <<api, splits, ctlvars, toSchedule, wvars, envvars, history>>

\* split: the job's state is not looked at.
SplitStarts ==
  /\ dagKey /\ dag = Idle /\ splits < MaxSplits
  /\ dagKey' = FALSE
  /\ splits' = splits + 1
  /\ dag' = [pc |-> "create", left |-> Nodes, fresh |-> TRUE]
  /\ UNCHANGED <<api, jobCache, jobEvents, ctlvars, toSchedule, wvars, envvars, history>>

\* A failing GetDag passes for a deleted dag: the key is not added again.
SplitGivenUp ==
  /\ dagKey /\ dag = Idle
  /\ Fails
  /\ dropped' = TRUE
  /\ dagKey' = FALSE
  /\ UNCHANGED <<splits, jobCache, jobEvents, dag, ctlvars, wvars>>

\* dagSort: the roots are ready.
InitialState(n) == IF Depends[n] = {} THEN "ready" ELSE "create"

\* The stages are created one by one, in the order of a Go map.
CreateStage(n) ==
  LET id == <<n, splits>>
      state == InitialState(n)
  IN /\ dag.pc = "create" /\ n \in dag.left
     /\ Put(id, state) /\ Queues(id, state)
     /\ dag' = [dag EXCEPT !.left = @ \ {n}]
     /\ UNCHANGED <<job, splits, jobCache, jobEvents, dagKey, cache, stageKeys,
                    stageSyncs, jobKeys, jobSyncs, wcache, wkeys, execs, envvars,
                    rewritten, runs>>

KeepsCache_mutant ==
  /\ dag.pc = "create" /\ dag.left = {}
  /\ dag' = [dag EXCEPT !.pc = "update"]
  /\ UNCHANGED <<api, splits, jobCache, jobEvents, dagKey, ctlvars, toSchedule, wvars,
                 envvars, history>>

\* job.State = JobStage, on the object of the informer's cache, so that the
\* event of the update that follows finds a job that is past create already.
SplitEnds ==
  /\ dag.pc = "create" /\ dag.left = {}
  /\ dag' = [dag EXCEPT !.pc = "update"]
  /\ jobCache' = IF dag.fresh THEN "stage" ELSE jobCache
  /\ UNCHANGED <<api, splits, jobEvents, dagKey, ctlvars, toSchedule, wvars,
                 envvars, history>>

UpdateStatus ==
  /\ dag.pc = "update"
  /\ PutJob("stage")
  /\ dag' = Idle
  /\ UNCHANGED <<stages, order, splits, jobCache, dagKey, ctlvars, toSchedule,
                 wvars, envvars, history>>

\* A failing CreateStage or UpdateStatus: AddRateLimited, and all over again.
SplitFails ==
  /\ dag # Idle
  /\ Fails
  /\ dag' = Idle /\ dagKey' = TRUE
  /\ UNCHANGED <<dropped, splits, jobCache, jobEvents, ctlvars, wvars>>

----------------------------------------------------------------------------
(* The stage controller *)

\* Both controllers' filters pass finished stages. Entering and leaving
\* enqueues the key; an update of a finished stage does not (its handler
\* expects a job).
Deliver(id) ==
  LET new == Head(events[id])
      crosses == (cache[id] \in Finished) # (new \in Finished)
  IN /\ events[id] # <<>>
     /\ cache' = [cache EXCEPT ![id] = new]
     /\ events' = [events EXCEPT ![id] = Tail(@)]
     /\ stageKeys' = IF crosses THEN stageKeys \cup {id} ELSE stageKeys
     /\ jobKeys' = IF crosses THEN jobKeys \cup {id} ELSE jobKeys
     /\ UNCHANGED <<api, dagvars, stageSyncs, jobSyncs, toSchedule, wvars, envvars, history>>

\* depend: the finished stage as the lister has it.
DependStarts(id) ==
  /\ id \in stageKeys /\ Cardinality(stageSyncs) < Syncs
  /\ \A r \in stageSyncs : r.id # id
  /\ stageKeys' = stageKeys \ {id}
  /\ stageSyncs' = stageSyncs \cup {[id |-> id, upper |-> cache[id], pc |-> "list", items |-> {}]}
  /\ UNCHANGED <<api, dagvars, cache, events, jobKeys, jobSyncs, toSchedule,
                 wvars, envvars, history>>

\* jobStages: one stage per node; the list is sorted by the last write, and
\* of two stages of a node the later in the list stays.
Present == {n \in Nodes : order[n] # <<>>}
JobStage(n) == <<n, order[n][Len(order[n])]>>

Children(n) == {c \in Present : n \in Depends[c]}

Descendants(n) ==
  LET reach[i \in 0..Cardinality(Nodes)] ==
        IF i = 0 THEN Children(n)
        ELSE reach[i - 1] \cup UNION {Children(c) : c \in reach[i - 1]}
  IN {c \in Present : c \in reach[Cardinality(Nodes)]}

TrustsGraph_mutant == FALSE

\* AddEdge refuses an edge from a node without a stage.
MissingParent == \E n \in Present : ~(Depends[n] \subseteq Present)

ReadyChildren(n) ==
  {JobStage(c) : c \in {d \in Children(n) :
                          \A p \in Depends[d] \cap Present :
                            stages[JobStage(p)] = "success"}}

FailedDescendants(n) ==
  {JobStage(c) : c \in {d \in Descendants(n) : stages[JobStage(d)] = "create"}}

\* DescendantsFlow runs its callback concurrently on nodes none of which
\* follows the other, and the callbacks append to one slice: one of two
\* appends by such callbacks can be lost.
Concurrent(a, b) == a # b /\ a \notin Descendants(b) /\ b \notin Descendants(a)
AppendsKept(n, items) ==
  LET visited == {n} \cup Descendants(n)
      racy == {x \in items : \E y \in items \ {x} :
                 \E a \in Depends[x[1]] \cap visited, b \in Depends[y[1]] \cap visited :
                   Concurrent(a, b)}
  IN {kept \in SUBSET items : items \ racy \subseteq kept /\ (items # {} => kept # {})}

ItemsOf(r) ==
  IF r.upper = "success" THEN {ReadyChildren(r.id[1])}
  ELSE IF r.upper = "failed" THEN AppendsKept(r.id[1], FailedDescendants(r.id[1]))
  ELSE {{}}

\* dependStage: lists all stages; an error puts the key back.
DependList(r) ==
  /\ r \in stageSyncs /\ r.pc = "list"
  /\ \/ /\ MissingParent
        /\ stageSyncs' = stageSyncs \ {r}
        /\ stageKeys' = stageKeys \cup {r.id}
     \/ /\ ~MissingParent
        /\ \E items \in ItemsOf(r) :
             stageSyncs' = IF items = {} THEN stageSyncs \ {r}
                           ELSE (stageSyncs \ {r}) \cup {[r EXCEPT !.pc = "put", !.items = items]}
        /\ UNCHANGED stageKeys
  /\ UNCHANGED <<api, dagvars, cache, events, jobKeys, jobSyncs, toSchedule,
                 wvars, envvars, history>>

\* stageUpdateList writes the items one by one, as they were listed but for
\* the new state.
UpdateListStatus(r, id) ==
  LET state == IF r.upper = "success" THEN "ready" ELSE "failed"
      rest == r.items \ {id}
  IN /\ r \in stageSyncs /\ r.pc = "put" /\ id \in r.items
     /\ Put(id, state) /\ Queues(id, state)
     /\ rewritten' = (rewritten \/ stages[id] # "create")
     /\ stageSyncs' = IF rest = {} THEN stageSyncs \ {r}
                      ELSE (stageSyncs \ {r}) \cup {[r EXCEPT !.items = rest]}
     /\ UNCHANGED <<job, dagvars, cache, stageKeys, jobKeys, jobSyncs, wcache,
                    wkeys, execs, envvars, runs>>

ForgetsKey_mutant(r) ==
  /\ r \in stageSyncs
  /\ Fails
  /\ stageSyncs' = stageSyncs \ {r}
  /\ UNCHANGED <<stageKeys, dropped, dagvars, cache, events, jobKeys, jobSyncs, wvars>>

\* A failing request, of the list or of the update: AddRateLimited.
DependFails(r) ==
  /\ r \in stageSyncs
  /\ Fails
  /\ stageSyncs' = stageSyncs \ {r}
  /\ stageKeys' = stageKeys \cup {r.id}
  /\ UNCHANGED <<dropped, dagvars, cache, events, jobKeys, jobSyncs, wvars>>

----------------------------------------------------------------------------
(* The job controller *)

IgnoresUnfinished_mutant ==
  IF \E id \in Ids : stages[id] = "failed" THEN "failed" ELSE "success"

\* Any failed stage fails the job; it succeeds when all its stages have.
Verdict ==
  LET states == {stages[id] : id \in {i \in Ids : stages[i] # "none"}}
  IN IF "failed" \in states THEN "failed"
     ELSE IF states = {"success"} THEN "success"
     ELSE "none"

\* complete: lists all stages, and writes the job when there is a verdict.
CompleteJob(id) ==
  /\ id \in jobKeys /\ Cardinality(jobSyncs) < Syncs
  /\ \A r \in jobSyncs : r.id # id
  /\ jobKeys' = jobKeys \ {id}
  /\ jobSyncs' = IF Verdict = "none" THEN jobSyncs
                 ELSE jobSyncs \cup {[id |-> id, state |-> Verdict]}
  /\ UNCHANGED <<api, dagvars, cache, events, stageKeys, stageSyncs, toSchedule,
                 wvars, envvars, history>>

UpdateJob(r) ==
  /\ r \in jobSyncs
  /\ PutJob(r.state)
  /\ jobSyncs' = jobSyncs \ {r}
  /\ UNCHANGED <<stages, order, splits, jobCache, dagKey, dag, cache, events,
                 stageKeys, stageSyncs, jobKeys, toSchedule, wvars, envvars, history>>

CompleteFails(r) ==
  /\ r \in jobSyncs
  /\ Fails
  /\ jobSyncs' = jobSyncs \ {r}
  /\ jobKeys' = jobKeys \cup {r.id}
  /\ UNCHANGED <<dropped, dagvars, cache, events, stageKeys, stageSyncs, wvars>>

----------------------------------------------------------------------------
(* The scheduler *)

\* stageBinding sets the state to bind, whatever it was.
Bind(id) ==
  /\ id \in toSchedule
  /\ Put(id, "bind")
  /\ toSchedule' = toSchedule \ {id}
  /\ UNCHANGED <<job, dagvars, cache, stageKeys, stageSyncs, jobKeys, jobSyncs,
                 wcache, wkeys, execs, envvars, rewritten, runs>>

\* A failing bind: the stage is forgotten and not queued again.
BindFails(id) ==
  /\ id \in toSchedule
  /\ Trouble
  /\ dropped' = TRUE
  /\ toSchedule' = toSchedule \ {id}
  /\ UNCHANGED <<api, dagvars, ctlvars, wvars, history>>

\* The scheduler hears that the stage is not ready any more.
Unqueue(id) ==
  /\ id \in toSchedule /\ stages[id] # "ready"
  /\ toSchedule' = toSchedule \ {id}
  /\ UNCHANGED <<api, dagvars, ctlvars, wvars, envvars, history>>

----------------------------------------------------------------------------
(* The worker agent *)

\* The filter passes a stage that is bound to this worker; entering, leaving
\* and updating all enqueue the key. The cached object is replaced.
DeliverToWorker(id) ==
  LET new == Head(wevents[id])
  IN /\ wevents[id] # <<>>
     /\ wcache' = [wcache EXCEPT ![id] = new]
     /\ wevents' = [wevents EXCEPT ![id] = Tail(@)]
     /\ wkeys' = IF "bind" \in {wcache[id], new} THEN wkeys \cup {id} ELSE wkeys
     /\ execs' = {IF e.id = id THEN [e EXCEPT !.fresh = FALSE] ELSE e : e \in execs}
     /\ UNCHANGED <<api, dagvars, ctlvars, toSchedule, envvars, history>>

\* execute: runs the code of the stage the lister has, whatever its state.
Execute(id) ==
  /\ id \in wkeys /\ Cardinality(execs) < StageWorkers /\ runs[id] < MaxRuns
  /\ \A e \in execs : e.id # id
  /\ wkeys' = wkeys \ {id}
  /\ execs' = execs \cup {[id |-> id, result |-> "none", puts |-> 0, fresh |-> TRUE]}
  /\ runs' = [runs EXCEPT ![id] = @ + 1]
  /\ UNCHANGED <<api, dagvars, ctlvars, toSchedule, wcache, wevents, envvars,
                 early, rewritten, succeeded>>

LeavesCache_mutant(e) ==
  /\ e \in execs /\ e.result = "none"
  /\ \E result \in Finished :
       execs' = (execs \ {e}) \cup
         {[e EXCEPT !.result = result, !.puts = 1, !.fresh = FALSE]}
  /\ UNCHANGED <<api, dagvars, ctlvars, toSchedule, wcache, wevents, wkeys, envvars, history>>

\* executeCode: the result goes into the cached object. A code that returns an
\* error is written twice, one that panics once.
CodeReturns(e) ==
  /\ e \in execs /\ e.result = "none"
  /\ \E result \in Finished, puts \in 1..2 :
       /\ result = "success" => puts = 1
       /\ execs' = (execs \ {e}) \cup
            {[e EXCEPT !.result = result, !.puts = puts, !.fresh = FALSE]}
       /\ wcache' = IF e.fresh THEN [wcache EXCEPT ![e.id] = result] ELSE wcache
  /\ UNCHANGED <<api, dagvars, ctlvars, toSchedule, wevents, wkeys, envvars, history>>

UpdateStage(e) ==
  /\ e \in execs /\ e.puts > 0
  /\ Put(e.id, e.result)
  /\ execs' = (execs \ {e}) \cup
       (IF e.puts = 1 THEN {} ELSE {[e EXCEPT !.puts = @ - 1]})
  /\ UNCHANGED <<job, dagvars, cache, stageKeys, stageSyncs, jobKeys, jobSyncs,
                 toSchedule, wcache, wkeys, envvars, rewritten, runs>>

\* AddRateLimited: the code runs again.
UpdateStageFails(e) ==
  /\ e \in execs /\ e.puts > 0
  /\ Fails
  /\ execs' = execs \ {e}
  /\ wkeys' = wkeys \cup {e.id}
  /\ UNCHANGED <<dropped, dagvars, ctlvars, wcache, wevents>>

----------------------------------------------------------------------------
(* Restarts: what is in memory is lost, and the first list delivers every   *)
(* object as added.                                                         *)

ManagerRestarts ==
  /\ Trouble
  /\ jobCache' = job /\ jobEvents' = <<>>
  /\ dagKey' = (job = "create") /\ dag' = Idle
  /\ cache' = stages /\ events' = [id \in Ids |-> <<>>]
  /\ stageKeys' = {id \in Ids : stages[id] \in Finished} /\ jobKeys' = stageKeys'
  /\ stageSyncs' = {} /\ jobSyncs' = {}
  /\ UNCHANGED <<api, splits, toSchedule, wvars, dropped, history>>

WorkerRestarts ==
  /\ Trouble
  /\ wcache' = stages /\ wevents' = [id \in Ids |-> <<>>]
  /\ wkeys' = {id \in Ids : stages[id] = "bind"}
  /\ execs' = {}
  /\ UNCHANGED <<api, dagvars, ctlvars, toSchedule, dropped, history>>

----------------------------------------------------------------------------
DagController ==
  DeliverJob \/ SplitStarts \/ SplitGivenUp \/ (\E n \in Nodes : CreateStage(n))
    \/ SplitEnds \/ UpdateStatus \/ SplitFails

StageController ==
  \/ \E id \in Ids : Deliver(id) \/ DependStarts(id)
  \/ \E r \in stageSyncs : \/ DependList(r) \/ DependFails(r)
                           \/ \E id \in r.items : UpdateListStatus(r, id)

JobController ==
  \/ \E id \in Ids : CompleteJob(id)
  \/ \E r \in jobSyncs : UpdateJob(r) \/ CompleteFails(r)

Scheduler == \E id \in toSchedule : Bind(id) \/ BindFails(id) \/ Unqueue(id)

WorkerAgent ==
  \/ \E id \in Ids : DeliverToWorker(id) \/ Execute(id)
  \/ \E e \in execs : CodeReturns(e) \/ UpdateStage(e) \/ UpdateStageFails(e)

Next ==
  \/ DagController \/ StageController \/ JobController \/ Scheduler \/ WorkerAgent
  \/ ManagerRestarts \/ WorkerRestarts

Spec == Init /\ [][Next]_vars

\* Every goroutine keeps running while it has something to do, and user code
\* returns. Nothing is assumed of which key, event or stage is taken first.
Fairness ==
  /\ WF_vars(DeliverJob) /\ WF_vars(SplitStarts) /\ WF_vars(SplitEnds) /\ WF_vars(UpdateStatus)
  /\ WF_vars(\E n \in Nodes : CreateStage(n))
  /\ WF_vars(\E id \in Ids : Deliver(id)) /\ WF_vars(\E id \in Ids : DeliverToWorker(id))
  /\ WF_vars(\E id \in Ids : DependStarts(id))
  /\ WF_vars(\E r \in stageSyncs : DependList(r))
  /\ WF_vars(\E r \in stageSyncs : \E id \in r.items : UpdateListStatus(r, id))
  /\ WF_vars(\E id \in Ids : CompleteJob(id)) /\ WF_vars(\E r \in jobSyncs : UpdateJob(r))
  /\ WF_vars(\E id \in Ids : Bind(id)) /\ WF_vars(\E id \in Ids : Execute(id))
  /\ WF_vars(\E e \in execs : CodeReturns(e)) /\ WF_vars(\E e \in execs : UpdateStage(e))

FairSpec == Spec /\ Fairness

----------------------------------------------------------------------------
Split == [pc : {"idle", "create", "update"}, left : SUBSET Nodes, fresh : BOOLEAN]
StageSync == [id : Ids, upper : StageStates, pc : {"list", "put"}, items : SUBSET Ids]
JobSync == [id : Ids, state : Finished]
Exec == [id : Ids, result : Finished \cup {"none"}, puts : 0..2, fresh : BOOLEAN]

\* Every variable keeps its type.
TypeOK ==
  /\ job \in JobStates /\ jobCache \in JobStates /\ jobEvents \in Seq(JobStates)
  /\ stages \in [Ids -> StageStates]
  /\ cache \in [Ids -> StageStates] /\ wcache \in [Ids -> StageStates]
  /\ events \in [Ids -> Seq(StageStates)] /\ wevents \in [Ids -> Seq(StageStates)]
  /\ order \in [Nodes -> Seq(1..MaxSplits)]
  /\ splits \in 0..MaxSplits /\ troubles \in 0..MaxTroubles
  /\ dag \in Split /\ stageSyncs \subseteq StageSync
  /\ jobSyncs \subseteq JobSync /\ execs \subseteq Exec
  /\ toSchedule \subseteq Ids /\ stageKeys \subseteq Ids
  /\ jobKeys \subseteq Ids /\ wkeys \subseteq Ids
  /\ dagKey \in BOOLEAN /\ dropped \in BOOLEAN
  /\ early \in BOOLEAN /\ rewritten \in BOOLEAN
  /\ succeeded \subseteq Nodes /\ runs \in [Ids -> 0..MaxRuns]

\* The code of a stage never runs before all the nodes it depends on have
\* succeeded, whatever is retried, restarted, split again or late: the test of
\* the parents in dependStage and AddEdge's refusal are all there is.
DependenciesSucceeded ==
  \A e \in execs : Depends[e.id[1]] \subseteq succeeded

\* A job is only reported successful when all its nodes have succeeded. The
\* job controller counts the stages there are: unless one finished while the
\* dag controller was still creating them, these are all of them.
JobSuccessIsEarned == job = "success" => (early \/ Nodes \subseteq succeeded)

SplitAgain == splits > 1 \/ (splits = 1 /\ dagKey)

\* A job is not asked to be split again unless something failed, restarted or
\* was early, although its update is a delete event to the filter and split
\* looks at no state: what protects it is that the state was assigned to the
\* cached object before the request.
SplitOnce == SplitAgain => (early \/ troubles > 0)

\* The code of a stage runs once unless something failed or restarted or the
\* stage was rewritten, although leaving the filter enqueues it again: the
\* result was assigned to the cached object before the request.
RunOnce == \A id \in Ids : runs[id] > 1 => (rewritten \/ troubles > 0)

Created == {id \in Ids : stages[id] # "none"}
Settled ==
  \/ job = "success" /\ \A id \in Created : stages[id] = "success"
  \/ job = "failed" /\ \A id \in Created : stages[id] \in Finished

\* The job ends, for good, in the state its stages have, all finished, unless
\* a request was lost for good, a stage finished before the split ended, a
\* stage past create was overwritten, or the job was split again.
JobSettles == <>[](Settled \/ dropped \/ early \/ rewritten \/ SplitAgain)
=============================================================================
