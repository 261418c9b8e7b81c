--------------------------- MODULE PipelineProofs ---------------------------
(***************************************************************************)
(* Proofs about Pipeline, for every set of nodes, every dependency relation *)
(* and any number of splits, syncs, executions, failures and restarts.     *)
(***************************************************************************)
EXTENDS Pipeline, TLAPS

----------------------------------------------------------------------------
(* The inductive invariants *)

\* All the nodes a stage depends on have succeeded.
Cleared(id) == Depends[id[1]] \subseteq succeeded

Has(seq, x) == \E i \in 1..Len(seq) : seq[i] = x

\* Wherever a stage is on its way to the worker, it is cleared: in the API
\* server, as an item of a sync of the stage controller, in the scheduler's
\* queue, in an event, in the worker's cache or queue.
DependInv ==
  /\ \A id \in Ids : stages[id] = "success" => id[1] \in succeeded
  /\ \A id \in Ids : stages[id] \in {"ready", "bind"} => Cleared(id)
  /\ \A r \in stageSyncs : r.upper = "success" => \A id \in r.items : Cleared(id)
  /\ \A id \in toSchedule \cup wkeys : Cleared(id)
  /\ \A id \in Ids : wcache[id] = "bind" => Cleared(id)
  /\ \A id \in Ids : Has(wevents[id], "bind") => Cleared(id)
  /\ \A e \in execs : Cleared(e.id)

\* Every node has a stage.
AllCreated == \A n \in Nodes : \E k \in 1..MaxSplits : stages[<<n, k>>] # "none"

\* The stages of the running split that are created; nothing is written under
\* the number of a split that has not begun.
SplitInv ==
  /\ dag.pc # "idle" => splits >= 1
  /\ dag.pc = "idle" => dag = Idle
  /\ dag.pc = "update" => dag.left = {}
  /\ dag.pc # "idle" => \A n \in Nodes \ dag.left : stages[<<n, splits>>] # "none"

\* Unless a stage was early: finished stages, and the job controller's verdicts,
\* come after the job's first update, and with it all nodes have stages.
EarnedInv ==
  ~early =>
    /\ \A id \in Ids : stages[id] \in Finished => job # "create"
    /\ jobSyncs # {} => job # "create"
    /\ job # "create" => AllCreated
    /\ \A r \in jobSyncs : r.state = "success" => Nodes \subseteq succeeded
    /\ job = "success" => Nodes \subseteq succeeded

\* Without a failure, a restart or an early stage there is one split: the job's
\* events come after the split has changed the cached job.
OnceInv ==
  ~early /\ troubles = 0 =>
    /\ splits <= 1
    /\ splits = 0 => dag.pc = "idle" /\ job = "create" /\ jobEvents = <<>>
    /\ splits = 1 => ~dagKey
    /\ dag.pc # "idle" => job = "create" /\ jobEvents = <<>>
    /\ dag.pc = "create" => dag.fresh
    /\ splits = 1 /\ dag.pc # "create" => jobCache # "create"
    /\ \A i \in 1..Len(jobEvents) : jobEvents[i] # "create"

----------------------------------------------------------------------------
\* A stage and the worker, while nothing fails and the stage controller writes
\* only stages in create: the worker has not heard of the stage ...
Unheard(id) ==
  /\ runs[id] = 0 /\ wcache[id] = "none" /\ wevents[id] = <<>> /\ id \notin wkeys
  /\ \A e \in execs : e.id # id

\* ... it was bound and waits ...
Waits(id) ==
  /\ runs[id] = 0 /\ stages[id] = "bind" /\ \A e \in execs : e.id # id
  /\ \/ wcache[id] = "none" /\ wevents[id] = <<"bind">> /\ id \notin wkeys
     \/ wcache[id] = "bind" /\ wevents[id] = <<>> /\ id \in wkeys

\* ... it runs, and what it returned is in the cache before it is written ...
Runs(id) ==
  /\ runs[id] = 1 /\ wevents[id] = <<>> /\ id \notin wkeys
  /\ \E e \in execs : e.id = id
  /\ \A e \in execs : e.id = id =>
       \/ e.result = "none" /\ e.fresh /\ wcache[id] = "bind" /\ stages[id] = "bind"
       \/ /\ e.result \in Finished /\ wcache[id] = e.result
          /\ stages[id] \in {"bind", e.result}

\* ... or it has run.
HasRun(id) ==
  /\ runs[id] = 1 /\ wevents[id] = <<>> /\ id \notin wkeys
  /\ \A e \in execs : e.id # id
  /\ wcache[id] \in Finished /\ stages[id] \in Finished

InPhase(id) ==
  (Unheard(id) /\ stages[id] # "bind") \/ Waits(id) \/ Runs(id) \/ HasRun(id)

\* Without a failure, a restart or a stage past create overwritten: a stage is
\* created once, queued while it is ready, and goes through the phases.
QuietInv ==
  ~rewritten /\ troubles = 0 =>
    /\ \A id \in Ids : id[2] > splits => stages[id] = "none"
    /\ dag.pc = "create" => \A n \in dag.left : stages[<<n, splits>>] = "none"
    /\ \A id \in toSchedule : stages[id] = "ready"
    /\ \A id \in Ids : InPhase(id)

\* A stage is executed by one goroutine at a time, which writes what the code
\* returned.
ExecsInv ==
  /\ \A e, f \in execs : e.id = f.id => e = f
  /\ \A e \in execs : (e.puts > 0) = (e.result # "none")

IInv == TypeOK /\ DependInv /\ SplitInv /\ EarnedInv /\ OnceInv /\ ExecsInv /\ QuietInv

----------------------------------------------------------------------------
(* Lemmas about the operators *)

\* A list keeps its type when a split moves to its head.
LEMMA LastWrittenFirstType ==
  ASSUME NEW S, NEW seq \in Seq(S), NEW k \in S
  PROVE  LastWrittenFirst(seq, k) \in Seq(S)
  <1> DEFINE at == CHOOSE i \in 1..Len(seq) : seq[i] = k
  <1>1. CASE k \in {seq[i] : i \in 1..Len(seq)}
    <2>1. at \in 1..Len(seq)
      BY <1>1
    <2> HIDE DEF at
    <2>2. SubSeq(seq, 1, at - 1) \in Seq(S) /\ SubSeq(seq, at + 1, Len(seq)) \in Seq(S)
      BY <2>1
    <2>3. <<k>> \o SubSeq(seq, 1, at - 1) \o SubSeq(seq, at + 1, Len(seq)) \in Seq(S)
      BY <2>2
    <2> QED BY <1>1, <2>3 DEF LastWrittenFirst, at
  <1>2. CASE k \notin {seq[i] : i \in 1..Len(seq)}
    <2>1. <<k>> \o seq \in Seq(S)
      OBVIOUS
    <2> QED BY <1>2, <2>1 DEF LastWrittenFirst
  <1> QED BY <1>1, <1>2

\* An informer's queue after a write: as it was, or with the state behind it.
LEMMA HeardIs ==
  ASSUME NEW queue \in Seq(StageStates), NEW cached, NEW state \in StageStates, NEW passes
  PROVE  /\ Heard(queue, cached, state, passes) \in Seq(StageStates)
         /\ \A x : Has(Heard(queue, cached, state, passes), x) => Has(queue, x) \/ state = x
  <1>1. Heard(queue, cached, state, passes) \in {queue, Append(queue, state)}
    BY DEF Heard
  <1>2. \A x : Has(Append(queue, state), x) => Has(queue, x) \/ state = x
    BY DEF Has
  <1>3. Append(queue, state) \in Seq(StageStates)
    OBVIOUS
  <1> QED BY <1>1, <1>2, <1>3

\* Delivering the head of a queue leaves nothing new in it.
LEMMA TailHas ==
  ASSUME NEW S, NEW queue \in Seq(S), queue # <<>>
  PROVE  /\ Head(queue) \in S /\ Tail(queue) \in Seq(S) /\ Has(queue, Head(queue))
         /\ \A x : Has(Tail(queue), x) => Has(queue, x)
  <1>1. /\ Len(queue) \in Nat /\ Len(queue) >= 1 /\ Head(queue) = queue[1]
        /\ Head(queue) \in S /\ Tail(queue) \in Seq(S) /\ Len(Tail(queue)) = Len(queue) - 1
        /\ \A n \in 1..Len(Tail(queue)) : Tail(queue)[n] = queue[n + 1]
    OBVIOUS
  <1> QED BY <1>1 DEF Has

\* What a write does to the API server and to the informers.
LEMMA PutType ==
  ASSUME TypeOK, NEW id \in Ids, NEW state \in StageStates, Put(id, state)
  PROVE  /\ stages' \in [Ids -> StageStates]
         /\ order' \in [Nodes -> Seq(1..MaxSplits)]
         /\ events' \in [Ids -> Seq(StageStates)]
         /\ wevents' \in [Ids -> Seq(StageStates)]
         /\ early' \in BOOLEAN /\ succeeded' \subseteq Nodes
  <1>1. id[1] \in Nodes /\ id[2] \in 1..MaxSplits
    BY DEF Ids
  <1>2. order' \in [Nodes -> Seq(1..MaxSplits)]
    <2>1. LastWrittenFirst(order[id[1]], id[2]) \in Seq(1..MaxSplits)
      BY <1>1, LastWrittenFirstType DEF TypeOK
    <2> QED BY <1>1, <2>1 DEF Put, TypeOK
  <1>3. events' \in [Ids -> Seq(StageStates)] /\ wevents' \in [Ids -> Seq(StageStates)]
    BY HeardIs DEF Put, TypeOK
  <1>4. early' \in BOOLEAN
    BY DEF Put, TypeOK
  <1> QED BY <1>1, <1>2, <1>3, <1>4 DEF Put, TypeOK

\* The last of a list.
LEMMA LastType ==
  ASSUME NEW S, NEW seq \in Seq(S), seq # <<>>
  PROVE  seq[Len(seq)] \in S
  OBVIOUS

\* What the stage controller writes are stages there are.
LEMMA JobStageType ==
  ASSUME TypeOK, NEW n \in Present
  PROVE  JobStage(n) \in Ids /\ JobStage(n)[1] = n
  <1>1. n \in Nodes /\ order[n] \in Seq(1..MaxSplits) /\ order[n] # <<>>
    BY DEF Present, TypeOK
  <1>2. order[n][Len(order[n])] \in 1..MaxSplits
    BY <1>1, LastType
  <1> QED BY <1>1, <1>2 DEF JobStage, Ids

LEMMA ItemsType ==
  ASSUME TypeOK, NEW r \in stageSyncs, NEW items \in ItemsOf(r)
  PROVE  items \subseteq Ids
  <1>1. ReadyChildren(r.id[1]) \subseteq Ids
    BY JobStageType DEF ReadyChildren, Children
  <1>2. FailedDescendants(r.id[1]) \subseteq Ids
    BY JobStageType DEF FailedDescendants, Descendants
  <1>3. \A n, X : \A Y \in AppendsKept(n, X) : Y \subseteq X
    BY DEF AppendsKept
  <1> QED BY <1>1, <1>2, <1>3 DEF ItemsOf

\* The records of the executions.
LEMMA ExecChanges ==
  ASSUME NEW e \in Exec
  PROVE  /\ \A result \in Finished, puts \in 1..2 :
              [e EXCEPT !.result = result, !.puts = puts, !.fresh = FALSE] \in Exec
         /\ e.puts > 0 /\ e.puts # 1 => [e EXCEPT !.puts = @ - 1] \in Exec
  <1>1. e.puts \in 0..2
    BY DEF Exec
  <1>2. e.puts > 0 /\ e.puts # 1 => e.puts - 1 \in 0..2
    BY <1>1
  <1>3. \A n \in 1..2 : n \in 0..2
    OBVIOUS
  <1> QED BY <1>2, <1>3 DEF Exec

\* Every step keeps the types.
LEMMA TypeStep == ASSUME TypeOK, SplitInv, Next PROVE TypeOK'
  <1> USE PipelineAssumption DEF TypeOK, api, dagvars, ctlvars, wvars, envvars, history
  <1>1. ASSUME DeliverJob PROVE TypeOK'
    <2>1. Head(jobEvents) \in JobStates /\ Tail(jobEvents) \in Seq(JobStates)
      BY <1>1, TailHas DEF DeliverJob
    <2>2. dag' \in Split
      BY <1>1 DEF DeliverJob, Split
    <2> QED BY <1>1, <2>1, <2>2 DEF DeliverJob
  <1>2. ASSUME SplitStarts PROVE TypeOK'
    <2>1. splits' \in 0..MaxSplits
      BY <1>2 DEF SplitStarts
    <2>2. dag' \in Split
      BY <1>2 DEF SplitStarts, Split
    <2> QED BY <1>2, <2>1, <2>2 DEF SplitStarts
  <1>3. ASSUME SplitGivenUp PROVE TypeOK'
    <2>1. troubles' \in 0..MaxTroubles
      BY <1>3 DEF SplitGivenUp, Fails, Trouble
    <2> QED BY <1>3, <2>1 DEF SplitGivenUp, Fails
  <1>4. ASSUME NEW n \in Nodes, CreateStage(n) PROVE TypeOK'
    <2>1. <<n, splits>> \in Ids /\ InitialState(n) \in StageStates
      BY <1>4 DEF CreateStage, SplitInv, Ids, InitialState, StageStates
    <2>2. dag' \in Split
      BY <1>4 DEF CreateStage, Split
    <2>3. toSchedule' \subseteq Ids
      BY <1>4, <2>1 DEF CreateStage, Queues
    <2> QED BY <1>4, <2>1, <2>2, <2>3, PutType DEF CreateStage
  <1>5. ASSUME SplitEnds PROVE TypeOK'
    BY <1>5 DEF SplitEnds, JobStates, Split
  <1>6. ASSUME UpdateStatus PROVE TypeOK'
    BY <1>6 DEF UpdateStatus, PutJob, JobStates, Idle, Split
  <1>7. ASSUME SplitFails PROVE TypeOK'
    BY <1>7 DEF SplitFails, Fails, Trouble, Idle, Split
  <1>8. ASSUME NEW id \in Ids, Deliver(id) PROVE TypeOK'
    BY <1>8, TailHas DEF Deliver
  <1>9. ASSUME NEW id \in Ids, DependStarts(id) PROVE TypeOK'
    BY <1>9 DEF DependStarts, StageSync
  <1>10. ASSUME NEW r \in stageSyncs, DependList(r) PROVE TypeOK'
    <2>1. \A items \in SUBSET Ids : [r EXCEPT !.pc = "put", !.items = items] \in StageSync
      BY DEF StageSync
    <2>2. stageSyncs' \subseteq StageSync
      <3>1. CASE MissingParent
        BY <1>10, <3>1 DEF DependList
      <3>2. CASE ~MissingParent
        <4>1. PICK items \in ItemsOf(r) : stageSyncs' =
                IF items = {} THEN stageSyncs \ {r}
                ELSE (stageSyncs \ {r}) \cup {[r EXCEPT !.pc = "put", !.items = items]}
          BY <1>10, <3>2 DEF DependList
        <4>2. items \in SUBSET Ids
          BY ItemsType
        <4> QED BY <2>1, <4>1, <4>2
      <3> QED BY <3>1, <3>2
    <2>3. r.id \in Ids
      BY DEF StageSync
    <2>4. stageKeys' \subseteq Ids
      BY <1>10, <2>3 DEF DependList
    <2> QED BY <1>10, <2>2, <2>4 DEF DependList
  <1>11. ASSUME NEW r \in stageSyncs, DependFails(r) PROVE TypeOK'
    BY <1>11 DEF DependFails, Fails, Trouble, StageSync
  <1>12. ASSUME NEW r \in stageSyncs, NEW id \in r.items, UpdateListStatus(r, id) PROVE TypeOK'
    <2> DEFINE state == IF r.upper = "success" THEN "ready" ELSE "failed"
    <2>1. id \in Ids /\ state \in StageStates
      BY DEF StageStates, StageSync
    <2>2. Put(id, state) /\ Queues(id, state)
      BY <1>12 DEF UpdateListStatus
    <2> HIDE DEF state
    <2>3. toSchedule' \subseteq Ids
      BY <2>1, <2>2 DEF Queues
    <2>4. stageSyncs' \subseteq StageSync
      <3>1. [r EXCEPT !.items = r.items \ {id}] \in StageSync
        <4>1. r \in StageSync /\ r.items \in SUBSET Ids
          BY DEF TypeOK, StageSync
        <4>2. r.items \ {id} \in SUBSET Ids
          BY <4>1
        <4> QED BY <4>1, <4>2 DEF StageSync
      <3> QED BY <1>12, <3>1 DEF UpdateListStatus
    <2>5. rewritten' \in BOOLEAN
      BY <1>12 DEF UpdateListStatus
    <2> QED BY <1>12, <2>1, <2>2, <2>3, <2>4, <2>5, PutType DEF UpdateListStatus
  <1>13. ASSUME NEW id \in Ids, CompleteJob(id) PROVE TypeOK'
    <2>1. Verdict \in Finished \cup {"none"}
      BY DEF Verdict, Finished
    <2>2. jobSyncs' \subseteq JobSync
      BY <1>13, <2>1 DEF CompleteJob, JobSync
    <2> QED BY <1>13, <2>2 DEF CompleteJob
  <1>14. ASSUME NEW r \in jobSyncs, UpdateJob(r) PROVE TypeOK'
    BY <1>14 DEF UpdateJob, PutJob, JobStates, Finished, JobSync
  <1>15. ASSUME NEW r \in jobSyncs, CompleteFails(r) PROVE TypeOK'
    BY <1>15 DEF CompleteFails, Fails, Trouble, JobSync
  <1>16. ASSUME NEW id \in toSchedule, Bind(id) PROVE TypeOK'
    BY <1>16, PutType DEF Bind, Queues, InitialState, StageStates, Ids, Finished
  <1>17. ASSUME NEW id \in toSchedule, BindFails(id) PROVE TypeOK'
    BY <1>17 DEF BindFails, Trouble
  <1>18. ASSUME NEW id \in toSchedule, Unqueue(id) PROVE TypeOK'
    BY <1>18 DEF Unqueue
  <1>19. ASSUME NEW id \in Ids, DeliverToWorker(id) PROVE TypeOK'
    <2>1. Head(wevents[id]) \in StageStates /\ Tail(wevents[id]) \in Seq(StageStates)
      BY <1>19, TailHas DEF DeliverToWorker
    <2>2. execs' \subseteq Exec
      <3>1. \A e \in execs : [e EXCEPT !.fresh = FALSE] \in Exec
        BY DEF Exec
      <3> QED BY <1>19, <3>1 DEF DeliverToWorker
    <2> QED BY <1>19, <2>1, <2>2 DEF DeliverToWorker
  <1>20. ASSUME NEW id \in Ids, Execute(id) PROVE TypeOK'
    <2>1. execs' \subseteq Exec
      <3>1. [id |-> id, result |-> "none", puts |-> 0, fresh |-> TRUE] \in Exec
        BY DEF Exec
      <3> QED BY <1>20, <3>1 DEF Execute
    <2>2. runs' \in [Ids -> 0..MaxRuns]
      BY <1>20 DEF Execute
    <2> QED BY <1>20, <2>1, <2>2 DEF Execute
  <1>21. ASSUME NEW e \in execs, CodeReturns(e) PROVE TypeOK'
    <2>1. PICK result \in Finished, puts \in 1..2 :
            /\ execs' = (execs \ {e}) \cup
                 {[e EXCEPT !.result = result, !.puts = puts, !.fresh = FALSE]}
            /\ wcache' = IF e.fresh THEN [wcache EXCEPT ![e.id] = result] ELSE wcache
      BY <1>21 DEF CodeReturns
    <2>2. execs' \subseteq Exec
      <3> DEFINE f == [e EXCEPT !.result = result, !.puts = puts, !.fresh = FALSE]
      <3>1. f \in Exec
        BY ExecChanges
      <3>2. execs' = (execs \ {e}) \cup {f}
        BY <2>1
      <3> HIDE DEF f
      <3> QED BY <3>1, <3>2
    <2>3. wcache' \in [Ids -> StageStates]
      BY <2>1 DEF Finished, StageStates
    <2> QED BY <1>21, <2>2, <2>3 DEF CodeReturns
  <1>22. ASSUME NEW e \in execs, UpdateStage(e) PROVE TypeOK'
    <2>1. e.id \in Ids
      BY DEF Exec
    <2>2. e.result \in StageStates
      BY DEF Exec, Finished, StageStates
    <2>3. execs' \subseteq Exec
      BY <1>22, ExecChanges DEF UpdateStage
    <2> QED BY <1>22, <2>1, <2>2, <2>3, PutType DEF UpdateStage
  <1>23. ASSUME NEW e \in execs, UpdateStageFails(e) PROVE TypeOK'
    BY <1>23 DEF UpdateStageFails, Fails, Trouble, Exec
  <1>24. ASSUME ManagerRestarts PROVE TypeOK'
    BY <1>24 DEF ManagerRestarts, Trouble, Idle, Split
  <1>25. ASSUME WorkerRestarts PROVE TypeOK'
    BY <1>25 DEF WorkerRestarts, Trouble
  <1> QED BY <1>1, <1>2, <1>3, <1>4, <1>5, <1>6, <1>7, <1>8, <1>9, <1>10, <1>11, <1>12, <1>13, <1>14, <1>15, <1>16, <1>17, <1>18, <1>19, <1>20, <1>21, <1>22, <1>23, <1>24, <1>25
    DEF Next, DagController, StageController, JobController, Scheduler, WorkerAgent

----------------------------------------------------------------------------
(* Dependencies *)

\* A write keeps what is cleared so, when it is of a cleared stage.
LEMMA PutDepend ==
  ASSUME TypeOK, DependInv, NEW id \in Ids, NEW state \in StageStates, Put(id, state),
         state \in {"ready", "bind"} => Cleared(id)
  PROVE  /\ \A i \in Ids : Cleared(i) => Cleared(i)'
         /\ \A i \in Ids : stages'[i] = "success" => i[1] \in succeeded'
         /\ \A i \in Ids : stages'[i] \in {"ready", "bind"} => Cleared(i)'
         /\ \A i \in Ids : Has(wevents'[i], "bind") => Cleared(i)'
  <1>1. succeeded \subseteq succeeded' /\ (state = "success" => id[1] \in succeeded')
    BY DEF Put
  <1>2. \A i \in Ids : Cleared(i) => Cleared(i)'
    BY <1>1 DEF Cleared
  <1>3. \A i \in Ids : stages'[i] = IF i = id THEN state ELSE stages[i]
    BY DEF Put, TypeOK
  <1>4. ASSUME NEW i \in Ids, Has(wevents'[i], "bind") PROVE Cleared(i)
    <2>1. CASE i = id
      <3>1. wevents'[i] = Heard(wevents[i], wcache[i], state, {"bind"}) /\ wevents[i] \in Seq(StageStates)
        BY <2>1 DEF Put, TypeOK
      <3>2. Has(wevents[i], "bind") \/ state = "bind"
        BY <1>4, <3>1, HeardIs
      <3> QED BY <2>1, <3>2 DEF DependInv
    <2>2. CASE i # id
      BY <1>4, <2>2 DEF Put, TypeOK, DependInv
    <2> QED BY <2>1, <2>2
  <1>5. \A i \in Ids : stages'[i] = "success" => i[1] \in succeeded'
    BY <1>1, <1>3 DEF DependInv
  <1>6. \A i \in Ids : stages'[i] \in {"ready", "bind"} => Cleared(i)'
    BY <1>2, <1>3 DEF DependInv
  <1> QED BY <1>2, <1>4, <1>5, <1>6

\* The children whose parents are all there and have succeeded are cleared.
LEMMA ReadyIsCleared ==
  ASSUME TypeOK, DependInv, ~MissingParent, NEW n, NEW id \in ReadyChildren(n)
  PROVE  Cleared(id)
  <1>1. PICK c \in Present : /\ id = JobStage(c)
                             /\ \A p \in Depends[c] \cap Present : stages[JobStage(p)] = "success"
    BY DEF ReadyChildren, Children
  <1>2. Depends[c] \subseteq Present
    BY DEF MissingParent
  <1>3. id[1] = c
    BY <1>1, JobStageType
  <1>4. ASSUME NEW p \in Depends[c] PROVE p \in succeeded
    <2>1. p \in Present /\ stages[JobStage(p)] = "success"
      BY <1>1, <1>2
    <2>2. JobStage(p) \in Ids /\ JobStage(p)[1] = p
      BY <2>1, JobStageType
    <2> QED BY <2>1, <2>2 DEF DependInv
  <1> QED BY <1>3, <1>4 DEF Cleared

\* No step lets a stage on its way that is not cleared.
LEMMA DependStep == ASSUME TypeOK, SplitInv, DependInv, Next PROVE DependInv'
  <1> USE DEF api, dagvars, ctlvars, wvars, envvars, history
  <1>1. ASSUME UNCHANGED <<stages, succeeded, toSchedule, wkeys, wcache, wevents, execs>>,
               \A r \in stageSyncs' : r.upper = "success" => \A id \in r.items : Cleared(id)
        PROVE  DependInv'
    BY <1>1 DEF DependInv, Cleared
  <1>2. ASSUME UNCHANGED <<stages, succeeded, toSchedule, wkeys, wcache, wevents, execs>>,
               stageSyncs' \subseteq stageSyncs
        PROVE  DependInv'
    BY <1>1, <1>2 DEF DependInv
  <1>3. ASSUME NEW id \in Ids, NEW state \in StageStates, Put(id, state),
               state \in {"ready", "bind"} => Cleared(id),
               \A r \in stageSyncs' : r.upper = "success" => \A i \in r.items : Cleared(i),
               toSchedule' \subseteq toSchedule \cup (IF state = "ready" THEN {id} ELSE {}),
               UNCHANGED <<wkeys, wcache>>,
               \A e \in execs' : \E f \in execs : e.id = f.id
        PROVE  DependInv'
    <2>1. /\ \A i \in Ids : Cleared(i) => Cleared(i)'
          /\ \A i \in Ids : stages'[i] = "success" => i[1] \in succeeded'
          /\ \A i \in Ids : stages'[i] \in {"ready", "bind"} => Cleared(i)'
          /\ \A i \in Ids : Has(wevents'[i], "bind") => Cleared(i)'
      BY <1>3, PutDepend
    <2>2. \A i \in toSchedule' \cup wkeys' : i \in Ids /\ Cleared(i)
      BY <1>3 DEF DependInv, TypeOK
    <2>3. \A i \in Ids : wcache'[i] = "bind" => Cleared(i)
      BY <1>3 DEF DependInv
    <2>4. \A e \in execs' : e.id \in Ids /\ Cleared(e.id)
      <3>1. \A e \in execs : e.id \in Ids
        BY DEF TypeOK, Exec
      <3> QED BY <1>3, <3>1 DEF DependInv
    <2>5. succeeded \subseteq succeeded'
      BY <1>3 DEF Put
    <2>6. \A r \in stageSyncs' : r.upper = "success" => \A i \in r.items : Cleared(i)'
      BY <1>3, <2>5 DEF Cleared
    <2> QED BY <2>1, <2>2, <2>3, <2>4, <2>6 DEF DependInv
  <1>4. CASE DagController
    <2>1. ASSUME NEW n \in Nodes, CreateStage(n) PROVE DependInv'
      <3> DEFINE id == <<n, splits>>
      <3>1. Put(id, InitialState(n)) /\ Queues(id, InitialState(n))
        BY <2>1 DEF CreateStage
      <3>2. id \in Ids /\ InitialState(n) \in StageStates
        BY <2>1 DEF CreateStage, SplitInv, TypeOK, Ids, InitialState, StageStates
      <3>3. InitialState(n) \in {"ready", "bind"} => Cleared(id)
        BY DEF InitialState, Cleared
      <3>4. toSchedule' \subseteq toSchedule \cup (IF InitialState(n) = "ready" THEN {id} ELSE {})
        BY <3>1 DEF Queues
      <3>5. UNCHANGED <<stageSyncs, wkeys, wcache, execs>>
        BY <2>1 DEF CreateStage
      <3> HIDE DEF id
      <3> QED BY <1>3, <3>1, <3>2, <3>3, <3>4, <3>5 DEF DependInv
    <2> QED BY <1>2, <1>4, <2>1 DEF DagController, DeliverJob, SplitStarts, SplitGivenUp,
         SplitEnds, UpdateStatus, SplitFails, Fails
  <1>5. CASE StageController
    <2>1. ASSUME NEW id \in Ids, Deliver(id) PROVE DependInv'
      BY <1>2, <2>1 DEF Deliver
    <2>2. ASSUME NEW id \in Ids, DependStarts(id) PROVE DependInv'
      BY <1>1, <2>2 DEF DependStarts, DependInv
    <2>3. ASSUME NEW r \in stageSyncs, DependList(r) PROVE DependInv'
      <3>1. CASE MissingParent
        BY <1>2, <2>3, <3>1 DEF DependList
      <3>2. CASE ~MissingParent
        <4>1. PICK items \in ItemsOf(r) : stageSyncs' =
                IF items = {} THEN stageSyncs \ {r}
                ELSE (stageSyncs \ {r}) \cup {[r EXCEPT !.pc = "put", !.items = items]}
          BY <2>3, <3>2 DEF DependList
        <4>2. r.upper = "success" => \A id \in items : Cleared(id)
          BY <3>2, ReadyIsCleared DEF ItemsOf
        <4> DEFINE new == [r EXCEPT !.pc = "put", !.items = items]
        <4>3. new.upper = r.upper /\ new.items = items
          BY DEF TypeOK, StageSync
        <4>4. stageSyncs' \subseteq stageSyncs \cup {new}
          BY <4>1
        <4> HIDE DEF new
        <4>5. \A q \in stageSyncs' : q.upper = "success" => \A id \in q.items : Cleared(id)
          BY <4>2, <4>3, <4>4 DEF DependInv
        <4> QED BY <1>1, <2>3, <4>5 DEF DependList
      <3> QED BY <3>1, <3>2
    <2>4. ASSUME NEW r \in stageSyncs, DependFails(r) PROVE DependInv'
      BY <1>2, <2>4 DEF DependFails, Fails
    <2>5. ASSUME NEW r \in stageSyncs, NEW id \in r.items, UpdateListStatus(r, id) PROVE DependInv'
      <3> DEFINE state == IF r.upper = "success" THEN "ready" ELSE "failed"
                 new == [r EXCEPT !.items = r.items \ {id}]
      <3>1. Put(id, state) /\ Queues(id, state)
        BY <2>5 DEF UpdateListStatus
      <3>2. id \in Ids /\ state \in StageStates
        BY DEF TypeOK, StageStates, StageSync
      <3>3. state \in {"ready", "bind"} => Cleared(id)
        BY DEF DependInv
      <3>4. toSchedule' \subseteq toSchedule \cup (IF state = "ready" THEN {id} ELSE {})
        BY <3>1 DEF Queues
      <3>5. UNCHANGED <<wkeys, wcache, execs>>
        BY <2>5 DEF UpdateListStatus
      <3>6. new.upper = r.upper /\ new.items \subseteq r.items
        BY DEF TypeOK, StageSync
      <3>7. stageSyncs' \subseteq stageSyncs \cup {new}
        BY <2>5 DEF UpdateListStatus
      <3> HIDE DEF new, state
      <3>8. \A q \in stageSyncs' : q.upper = "success" => \A i \in q.items : Cleared(i)
        BY <3>6, <3>7 DEF DependInv
      <3> QED BY <1>3, <3>1, <3>2, <3>3, <3>4, <3>5, <3>8
    <2> QED BY <1>5, <2>1, <2>2, <2>3, <2>4, <2>5 DEF StageController
  <1>6. CASE JobController
    BY <1>2, <1>6 DEF JobController, CompleteJob, UpdateJob, CompleteFails, Fails
  <1>7. CASE Scheduler
    <2>1. ASSUME NEW id \in toSchedule, Bind(id) PROVE DependInv'
      <3>1. id \in Ids /\ "bind" \in StageStates /\ Cleared(id)
        BY DEF TypeOK, StageStates, DependInv
      <3> QED BY <1>3, <2>1, <3>1 DEF Bind, DependInv
    <2>2. ASSUME NEW id \in toSchedule, BindFails(id) \/ Unqueue(id) PROVE DependInv'
      <3>1. /\ toSchedule' \subseteq toSchedule
            /\ UNCHANGED <<stages, succeeded, wkeys, wcache, wevents, execs, stageSyncs>>
        BY <2>2 DEF BindFails, Unqueue
      <3> QED BY <3>1 DEF DependInv, Cleared
    <2> QED BY <1>7, <2>1, <2>2 DEF Scheduler
  <1>8. CASE WorkerAgent
    <2>0. \A e \in execs : e.id \in Ids
      BY DEF TypeOK, Exec
    <2>1. ASSUME NEW id \in Ids, DeliverToWorker(id) PROVE DependInv'
      <3>1. /\ wevents[id] \in Seq(StageStates) /\ wevents[id] # <<>>
            /\ wevents' = [wevents EXCEPT ![id] = Tail(wevents[id])]
            /\ wcache' = [wcache EXCEPT ![id] = Head(wevents[id])]
            /\ UNCHANGED <<stages, succeeded, toSchedule, stageSyncs>>
        BY <2>1 DEF DeliverToWorker, TypeOK
      <3>2. /\ Has(wevents[id], Head(wevents[id]))
            /\ \A x : Has(Tail(wevents[id]), x) => Has(wevents[id], x)
        BY <3>1, TailHas
      <3>3. \A i \in Ids : wcache'[i] = "bind" => Cleared(i)
        BY <3>1, <3>2 DEF TypeOK, DependInv
      <3>4. \A i \in Ids : Has(wevents'[i], "bind") => Cleared(i)
        BY <3>1, <3>2 DEF TypeOK, DependInv
      <3>5. \A i \in wkeys' : Cleared(i)
        BY <2>1, <3>2 DEF DeliverToWorker, DependInv
      <3>6. \A e \in execs' : Cleared(e.id)
        <4>1. \A e \in execs : [e EXCEPT !.fresh = FALSE].id = e.id
          BY DEF TypeOK, Exec
        <4> QED BY <2>1, <4>1 DEF DeliverToWorker, DependInv
      <3> QED BY <3>1, <3>3, <3>4, <3>5, <3>6 DEF DependInv, Cleared
    <2>2. ASSUME NEW id \in Ids, Execute(id) PROVE DependInv'
      BY <2>2 DEF Execute, DependInv, Cleared
    <2>3. ASSUME NEW e \in execs, CodeReturns(e) PROVE DependInv'
      <3>1. PICK result \in Finished, puts \in 1..2 :
              /\ execs' = (execs \ {e}) \cup
                   {[e EXCEPT !.result = result, !.puts = puts, !.fresh = FALSE]}
              /\ wcache' = IF e.fresh THEN [wcache EXCEPT ![e.id] = result] ELSE wcache
        BY <2>3 DEF CodeReturns
      <3>2. [e EXCEPT !.result = result, !.puts = puts, !.fresh = FALSE].id = e.id
        BY DEF TypeOK, Exec
      <3>3. \A f \in execs' : Cleared(f.id)
        BY <3>1, <3>2 DEF DependInv
      <3>4. \A i \in Ids : wcache'[i] = "bind" => Cleared(i)
        BY <3>1, <2>0 DEF TypeOK, DependInv, Finished
      <3>5. UNCHANGED <<stages, succeeded, toSchedule, wkeys, wevents, stageSyncs>>
        BY <2>3 DEF CodeReturns
      <3> QED BY <3>3, <3>4, <3>5 DEF DependInv, Cleared
    <2>4. ASSUME NEW e \in execs, UpdateStage(e) PROVE DependInv'
      <3>1. e.id \in Ids /\ e.result \in StageStates /\ e.result \notin {"ready", "bind"}
        BY DEF TypeOK, Exec, Finished, StageStates
      <3>2. \A f \in execs' : \E g \in execs : f.id = g.id
        <4>1. [e EXCEPT !.puts = @ - 1].id = e.id
          BY DEF TypeOK, Exec
        <4> QED BY <2>4, <4>1 DEF UpdateStage
      <3> QED BY <1>3, <2>4, <3>1, <3>2 DEF UpdateStage, DependInv
    <2>5. ASSUME NEW e \in execs, UpdateStageFails(e) PROVE DependInv'
      BY <2>5 DEF UpdateStageFails, Fails, DependInv, Cleared
    <2> QED BY <1>8, <2>1, <2>2, <2>3, <2>4, <2>5 DEF WorkerAgent
  <1>9. CASE ManagerRestarts
    BY <1>2, <1>9 DEF ManagerRestarts
  <1>10. CASE WorkerRestarts
    BY <1>10 DEF WorkerRestarts, DependInv, Cleared, Has
  <1> QED BY <1>4, <1>5, <1>6, <1>7, <1>8, <1>9, <1>10 DEF Next

----------------------------------------------------------------------------
(* What a step may write *)

\* A step writes one stage, and leaves the job alone, or no stage. A stage is
\* never deleted.
LEMMA Writes ==
  ASSUME IInv, Next
  PROVE  \/ UNCHANGED <<stages, order, early, succeeded>>
         \/ job' = job /\ \E id \in Ids, state \in StageStates \ {"none"} : Put(id, state)
  <1> USE DEF api, dagvars, ctlvars, wvars, envvars, history, Fails
  <1> DEFINE Same == UNCHANGED <<stages, order, early, succeeded>>
             Written == job' = job /\ \E id \in Ids, state \in StageStates \ {"none"} : Put(id, state)
  <1>1. CASE DagController
    <2>1. ASSUME NEW n \in Nodes, CreateStage(n) PROVE Written
      <3>1. Put(<<n, splits>>, InitialState(n)) /\ job' = job
        BY <2>1 DEF CreateStage
      <3>2. <<n, splits>> \in Ids /\ InitialState(n) \in StageStates \ {"none"}
        BY <2>1 DEF CreateStage, IInv, SplitInv, TypeOK, Ids, InitialState, StageStates
      <3> QED BY <3>1, <3>2
    <2>2. CASE DeliverJob \/ SplitStarts \/ SplitGivenUp \/ SplitEnds \/ UpdateStatus \/ SplitFails
      BY <2>2 DEF DeliverJob, SplitStarts, SplitGivenUp, SplitEnds, UpdateStatus, SplitFails
    <2> QED BY <1>1, <2>1, <2>2 DEF DagController
  <1>2. CASE StageController
    <2>1. ASSUME NEW r \in stageSyncs, NEW id \in r.items, UpdateListStatus(r, id) PROVE Written
      <3> DEFINE state == IF r.upper = "success" THEN "ready" ELSE "failed"
      <3>1. Put(id, state) /\ job' = job
        BY <2>1 DEF UpdateListStatus
      <3>2. id \in Ids /\ state \in StageStates \ {"none"}
        BY DEF IInv, TypeOK, StageStates, StageSync
      <3> HIDE DEF state
      <3> QED BY <3>1, <3>2
    <2>2. ASSUME NEW id \in Ids, Deliver(id) \/ DependStarts(id) PROVE Same
      BY <2>2 DEF Deliver, DependStarts
    <2>3. ASSUME NEW r \in stageSyncs, DependList(r) \/ DependFails(r) PROVE Same
      BY <2>3 DEF DependList, DependFails
    <2> QED BY <1>2, <2>1, <2>2, <2>3 DEF StageController
  <1>3. CASE JobController
    BY <1>3 DEF JobController, CompleteJob, UpdateJob, CompleteFails
  <1>4. CASE Scheduler
    <2>1. ASSUME NEW id \in toSchedule, Bind(id) PROVE Written
      <3>1. id \in Ids /\ "bind" \in StageStates \ {"none"}
        BY DEF IInv, TypeOK, StageStates
      <3>2. Put(id, "bind") /\ job' = job
        BY <2>1 DEF Bind
      <3> QED BY <3>1, <3>2
    <2>2. ASSUME NEW id \in toSchedule, BindFails(id) \/ Unqueue(id) PROVE Same
      BY <2>2 DEF BindFails, Unqueue
    <2> QED BY <1>4, <2>1, <2>2 DEF Scheduler
  <1>5. CASE WorkerAgent
    <2>1. ASSUME NEW e \in execs, UpdateStage(e) PROVE Written
      <3>1. Put(e.id, e.result) /\ job' = job
        BY <2>1 DEF UpdateStage
      <3>2. e.id \in Ids /\ e.result \in StageStates
        BY DEF IInv, TypeOK, Exec, Finished, StageStates
      <3>3. e.result # "none"
        BY <2>1 DEF UpdateStage, IInv, ExecsInv
      <3> QED BY <3>1, <3>2, <3>3
    <2>2. ASSUME NEW id \in Ids, DeliverToWorker(id) \/ Execute(id) PROVE Same
      BY <2>2 DEF DeliverToWorker, Execute
    <2>3. ASSUME NEW e \in execs, CodeReturns(e) \/ UpdateStageFails(e) PROVE Same
      BY <2>3 DEF CodeReturns, UpdateStageFails
    <2> QED BY <1>5, <2>1, <2>2, <2>3 DEF WorkerAgent
  <1>6. CASE ManagerRestarts \/ WorkerRestarts
    BY <1>6 DEF ManagerRestarts, WorkerRestarts
  <1> QED BY <1>1, <1>2, <1>3, <1>4, <1>5, <1>6 DEF Next

LEMMA NothingLost ==
  ASSUME IInv, Next
  PROVE  /\ \A id \in Ids : stages[id] # "none" => stages'[id] # "none"
         /\ succeeded \subseteq succeeded' /\ (early => early')
         /\ ~early' => \A id \in Ids : stages'[id] \in Finished =>
                         stages[id] \in Finished \/ job # "create"
  <1>1. CASE UNCHANGED <<stages, order, early, succeeded>>
    BY <1>1
  <1>2. ASSUME NEW id \in Ids, NEW state \in StageStates \ {"none"}, Put(id, state)
        PROVE  /\ \A i \in Ids : stages[i] # "none" => stages'[i] # "none"
               /\ succeeded \subseteq succeeded' /\ (early => early')
               /\ ~early' => \A i \in Ids : stages'[i] \in Finished =>
                               stages[i] \in Finished \/ job # "create"
    <2>1. \A i \in Ids : stages'[i] = IF i = id THEN state ELSE stages[i]
      BY <1>2 DEF Put, IInv, TypeOK
    <2>2. succeeded \subseteq succeeded' /\ (early => early')
      BY <1>2 DEF Put
    <2>3. ~early' => ~(state \in Finished /\ job = "create")
      BY <1>2 DEF Put
    <2> QED BY <2>1, <2>2, <2>3
  <1> QED BY <1>1, <1>2, Writes

\* What the job becomes: the job is in create until its first update.
LEMMA JobChanges ==
  ASSUME IInv, Next
  PROVE  \/ job' = job
         \/ UpdateStatus /\ job' = "stage"
         \/ \E r \in jobSyncs : UpdateJob(r) /\ job' = r.state
  <1> USE DEF api, Fails
  <1>1. CASE DagController
    BY <1>1 DEF DagController, DeliverJob, SplitStarts, SplitGivenUp, CreateStage, SplitEnds,
                UpdateStatus, PutJob, SplitFails
  <1>2. CASE StageController
    BY <1>2 DEF StageController, Deliver, DependStarts, DependList, UpdateListStatus, DependFails
  <1>3. CASE JobController
    BY <1>3 DEF JobController, CompleteJob, UpdateJob, PutJob, CompleteFails
  <1>4. CASE Scheduler
    BY <1>4 DEF Scheduler, Bind, BindFails, Unqueue
  <1>5. CASE WorkerAgent
    BY <1>5 DEF WorkerAgent, DeliverToWorker, Execute, CodeReturns, UpdateStage, UpdateStageFails
  <1>6. CASE ManagerRestarts \/ WorkerRestarts
    BY <1>6 DEF ManagerRestarts, WorkerRestarts
  <1> QED BY <1>1, <1>2, <1>3, <1>4, <1>5, <1>6 DEF Next

----------------------------------------------------------------------------
(* The split *)

LEMMA SplitStep == ASSUME IInv, Next PROVE SplitInv'
  <1> USE DEF api, dagvars, ctlvars, wvars, envvars, history, Fails
  <1>1. \A id \in Ids : stages[id] # "none" => stages'[id] # "none"
    BY NothingLost
  <1>2. \A n \in Nodes : splits >= 1 => <<n, splits>> \in Ids
    BY DEF IInv, TypeOK, Ids
  <1>3. ASSUME UNCHANGED splits, dag'.pc = dag.pc, dag'.left = dag.left, dag.pc # "idle" \/ dag' = dag
        PROVE  SplitInv'
    BY <1>1, <1>2, <1>3 DEF IInv, SplitInv
  <1>4. ASSUME dag' = Idle PROVE SplitInv'
    BY <1>4 DEF SplitInv, Idle
  <1>5. CASE DagController
    <2>1. CASE DeliverJob
      <3>1. UNCHANGED splits /\ dag' = [dag EXCEPT !.fresh = FALSE]
        BY <2>1 DEF DeliverJob
      <3>2. dag'.pc = dag.pc /\ dag'.left = dag.left
        BY <3>1 DEF IInv, TypeOK, Split
      <3>3. dag.pc = "idle" => dag' = dag
        BY <3>1 DEF IInv, SplitInv, Idle
      <3> QED BY <1>3, <3>1, <3>2, <3>3
    <2>2. CASE SplitStarts
      BY <2>2 DEF SplitStarts, IInv, TypeOK, SplitInv, Idle
    <2>3. CASE SplitGivenUp
      BY <1>3, <2>3 DEF SplitGivenUp
    <2>4. ASSUME NEW n \in Nodes, CreateStage(n) PROVE SplitInv'
      <3>1. dag.pc = "create" /\ UNCHANGED splits /\ Put(<<n, splits>>, InitialState(n))
        BY <2>4 DEF CreateStage
      <3>2. dag'.pc = "create" /\ dag'.left = dag.left \ {n}
        BY <2>4 DEF CreateStage, IInv, TypeOK, Split
      <3>3. <<n, splits>> \in Ids
        BY <1>2, <3>1 DEF IInv, SplitInv
      <3>4. stages'[<<n, splits>>] # "none"
        BY <3>1, <3>3 DEF Put, IInv, TypeOK, InitialState
      <3> QED BY <1>1, <1>2, <3>1, <3>2, <3>4 DEF IInv, SplitInv
    <2>5. CASE SplitEnds
      <3>1. dag.pc = "create" /\ dag.left = {} /\ UNCHANGED <<splits, stages>>
        BY <2>5 DEF SplitEnds
      <3>2. dag'.pc = "update" /\ dag'.left = {}
        BY <2>5, <3>1 DEF SplitEnds, IInv, TypeOK, Split
      <3> QED BY <3>1, <3>2 DEF IInv, SplitInv
    <2>6. CASE UpdateStatus \/ SplitFails
      BY <1>4, <2>6 DEF UpdateStatus, SplitFails
    <2> QED BY <1>5, <2>1, <2>2, <2>3, <2>4, <2>5, <2>6 DEF DagController
  <1>6. CASE StageController
    BY <1>3, <1>6 DEF StageController, Deliver, DependStarts, DependList, UpdateListStatus, DependFails
  <1>7. CASE JobController
    BY <1>3, <1>7 DEF JobController, CompleteJob, UpdateJob, CompleteFails
  <1>8. CASE Scheduler
    BY <1>3, <1>8 DEF Scheduler, Bind, BindFails, Unqueue
  <1>9. CASE WorkerAgent
    BY <1>3, <1>9 DEF WorkerAgent, DeliverToWorker, Execute, CodeReturns, UpdateStage, UpdateStageFails
  <1>10. CASE ManagerRestarts
    BY <1>4, <1>10 DEF ManagerRestarts
  <1>11. CASE WorkerRestarts
    BY <1>3, <1>11 DEF WorkerRestarts
  <1> QED BY <1>5, <1>6, <1>7, <1>8, <1>9, <1>10, <1>11 DEF Next

\* Which verdicts the job controller has: all of them, but for an early stage,
\* come when every node has a stage.
LEMMA VerdictIsEarned ==
  ASSUME IInv, ~early
  PROVE  /\ Verdict # "none" => job # "create"
         /\ Verdict = "success" => Nodes \subseteq succeeded
  <1> DEFINE states == {stages[id] : id \in {i \in Ids : stages[i] # "none"}}
  <1>1. Verdict = IF "failed" \in states THEN "failed"
                  ELSE IF states = {"success"} THEN "success" ELSE "none"
    BY DEF Verdict
  <1>2. Verdict # "none" => \E id \in Ids : stages[id] \in Finished
    <2>1. Verdict # "none" => \E x \in states : x \in Finished
      BY <1>1 DEF Finished
    <2> QED BY <2>1
  <1>3. Verdict # "none" => job # "create"
    BY <1>2 DEF IInv, EarnedInv
  <1>4. ASSUME Verdict = "success", NEW n \in Nodes PROVE n \in succeeded
    <2>1. states = {"success"}
      BY <1>1, <1>4
    <2>2. AllCreated
      BY <1>3, <1>4 DEF IInv, EarnedInv
    <2>3. PICK k \in 1..MaxSplits : stages[<<n, k>>] # "none"
      BY <2>2 DEF AllCreated
    <2>4. <<n, k>> \in Ids /\ <<n, k>>[1] = n
      BY DEF Ids
    <2>5. stages[<<n, k>>] = "success"
      BY <2>1, <2>3, <2>4
    <2> QED BY <2>4, <2>5 DEF IInv, DependInv
  <1> QED BY <1>3, <1>4

LEMMA EarnedStep == ASSUME IInv, Next PROVE EarnedInv'
  <1> SUFFICES ASSUME ~early' PROVE EarnedInv'
    BY DEF EarnedInv
  <1>1. /\ ~early /\ succeeded \subseteq succeeded'
        /\ \A id \in Ids : stages[id] # "none" => stages'[id] # "none"
        /\ \A id \in Ids : stages'[id] \in Finished => stages[id] \in Finished \/ job # "create"
    BY NothingLost
  <1>2. /\ \A id \in Ids : stages[id] \in Finished => job # "create"
        /\ jobSyncs # {} => job # "create"
        /\ job # "create" => AllCreated
        /\ \A r \in jobSyncs : r.state = "success" => Nodes \subseteq succeeded
        /\ job = "success" => Nodes \subseteq succeeded
    BY <1>1 DEF IInv, EarnedInv
  <1>3. job # "create" => job' # "create"
    <2>1. \A r \in jobSyncs : r.state # "create"
      BY DEF IInv, TypeOK, JobSync, Finished
    <2> QED BY <2>1, JobChanges
  <1>4. AllCreated => AllCreated'
    <2>1. \A n \in Nodes, k \in 1..MaxSplits : <<n, k>> \in Ids
      BY DEF Ids
    <2> QED BY <1>1, <2>1 DEF AllCreated
  <1>5. ASSUME job = "create", job' # "create" PROVE AllCreated'
    <2>1. UpdateStatus
      BY <1>2, <1>5, JobChanges
    <2>2. dag.pc = "update" /\ UNCHANGED stages
      BY <2>1 DEF UpdateStatus
    <2>3. splits \in 1..MaxSplits /\ \A n \in Nodes : stages[<<n, splits>>] # "none"
      <3>1. splits \in 0..MaxSplits
        BY DEF IInv, TypeOK
      <3>2. splits >= 1 /\ dag.left = {} /\ \A n \in Nodes \ dag.left : stages[<<n, splits>>] # "none"
        BY <2>2 DEF IInv, SplitInv
      <3> QED BY <3>1, <3>2
    <2> QED BY <2>2, <2>3 DEF AllCreated
  <1>6. jobSyncs' \subseteq jobSyncs \/ (Verdict # "none" /\ \E id :
          jobSyncs' = jobSyncs \cup {[id |-> id, state |-> Verdict]})
    <2> USE DEF api, dagvars, ctlvars, wvars, envvars, history, Fails
    <2>1. CASE DagController
      BY <2>1 DEF DagController, DeliverJob, SplitStarts, SplitGivenUp, CreateStage, SplitEnds,
                  UpdateStatus, SplitFails
    <2>2. CASE StageController
      BY <2>2 DEF StageController, Deliver, DependStarts, DependList, UpdateListStatus, DependFails
    <2>3. CASE JobController
      BY <2>3 DEF JobController, CompleteJob, UpdateJob, CompleteFails
    <2>4. CASE Scheduler
      BY <2>4 DEF Scheduler, Bind, BindFails, Unqueue
    <2>5. CASE WorkerAgent
      BY <2>5 DEF WorkerAgent, DeliverToWorker, Execute, CodeReturns, UpdateStage, UpdateStageFails
    <2>6. CASE ManagerRestarts \/ WorkerRestarts
      BY <2>6 DEF ManagerRestarts, WorkerRestarts
    <2> QED BY <2>1, <2>2, <2>3, <2>4, <2>5, <2>6 DEF Next
  <1>7. /\ Verdict # "none" => job # "create"
        /\ Verdict = "success" => Nodes \subseteq succeeded
    BY <1>1, VerdictIsEarned
  <1>8. /\ jobSyncs' # {} => job # "create"
        /\ \A r \in jobSyncs' : r.state = "success" => Nodes \subseteq succeeded
    BY <1>2, <1>6, <1>7
  <1>9. job' = "success" => Nodes \subseteq succeeded
    BY <1>2, JobChanges
  <1> QED BY <1>1, <1>2, <1>3, <1>4, <1>5, <1>8, <1>9 DEF EarnedInv

\* Without a failure, a restart or an early stage nothing asks for another
\* split.
LEMMA OnceStep == ASSUME IInv, Next PROVE OnceInv'
  <1> USE DEF api, dagvars, ctlvars, wvars, envvars, history, Fails, Trouble
  <1> SUFFICES ASSUME ~early', troubles' = 0 PROVE OnceInv'
    BY DEF OnceInv
  <1>0. troubles \in Nat /\ splits \in Nat /\ jobEvents \in Seq(JobStates)
    BY PipelineAssumption DEF IInv, TypeOK
  <1>1. ~early
    BY NothingLost
  <1>2. UNCHANGED troubles => troubles = 0
    OBVIOUS
  <1> DEFINE Quiet == /\ splits <= 1
                      /\ splits = 0 => dag.pc = "idle" /\ job = "create" /\ jobEvents = <<>>
                      /\ splits = 1 => ~dagKey
                      /\ dag.pc # "idle" => job = "create" /\ jobEvents = <<>>
                      /\ dag.pc = "create" => dag.fresh
                      /\ splits = 1 /\ dag.pc # "create" => jobCache # "create"
                      /\ \A i \in 1..Len(jobEvents) : jobEvents[i] # "create"
  <1>3. troubles = 0 => Quiet
    BY <1>1 DEF IInv, OnceInv
  <1>4. Quiet' => OnceInv'
    BY DEF OnceInv
  <1>5. ASSUME UNCHANGED <<dagvars, job, troubles>> PROVE OnceInv'
    BY <1>2, <1>3, <1>4, <1>5
  <1> HIDE DEF Quiet
  <1>6. CASE DagController
    <2>1. CASE DeliverJob
      <3>1. Quiet /\ troubles = 0
        BY <1>2, <1>3, <2>1 DEF DeliverJob
      <3>2. /\ Len(jobEvents) \in Nat /\ Len(jobEvents) >= 1 /\ Head(jobEvents) = jobEvents[1]
            /\ jobEvents' \in Seq(JobStates) /\ Len(jobEvents') = Len(jobEvents) - 1
            /\ \A n \in 1..Len(jobEvents') : jobEvents'[n] = jobEvents[n + 1]
        BY <1>0, <2>1 DEF DeliverJob
      <3>3. splits = 1 /\ dag.pc = "idle"
        BY <1>0, <2>1, <3>1 DEF Quiet, DeliverJob
      <3>4. dag'.pc = "idle"
        BY <2>1, <3>3 DEF DeliverJob, IInv, TypeOK, Split
      <3>5. jobCache' # "create" /\ jobCache # "create"
        BY <2>1, <3>1, <3>2, <3>3 DEF Quiet, DeliverJob
      <3>6. ~dagKey'
        BY <2>1, <3>1, <3>3, <3>5 DEF Quiet, DeliverJob
      <3>7. \A n \in 1..Len(jobEvents') : jobEvents'[n] # "create"
        BY <3>1, <3>2 DEF Quiet
      <3> QED BY <1>4, <2>1, <3>3, <3>4, <3>5, <3>6, <3>7 DEF Quiet, DeliverJob
    <2>2. CASE SplitStarts
      <3>1. Quiet
        BY <1>2, <1>3, <2>2 DEF SplitStarts
      <3>2. splits = 0 /\ splits' = 1
        BY <1>0, <2>2, <3>1 DEF Quiet, SplitStarts
      <3> QED BY <1>4, <2>2, <3>1, <3>2 DEF Quiet, SplitStarts
    <2>3. ASSUME NEW n \in Nodes, CreateStage(n) PROVE OnceInv'
      <3>1. Quiet
        BY <1>2, <1>3, <2>3 DEF CreateStage
      <3>2. dag.pc = "create" /\ dag'.pc = "create" /\ dag'.fresh = dag.fresh
        BY <2>3 DEF CreateStage, IInv, TypeOK, Split
      <3> QED BY <1>4, <2>3, <3>1, <3>2 DEF Quiet, CreateStage
    <2>4. CASE SplitEnds
      <3>1. Quiet
        BY <1>2, <1>3, <2>4 DEF SplitEnds
      <3>2. dag.pc = "create" /\ dag'.pc = "update" /\ jobCache' = "stage"
        BY <2>4, <3>1 DEF Quiet, SplitEnds, IInv, TypeOK, Split
      <3> QED BY <1>4, <2>4, <3>1, <3>2 DEF Quiet, SplitEnds
    <2>5. CASE UpdateStatus
      <3>1. Quiet
        BY <1>2, <1>3, <2>5 DEF UpdateStatus
      <3>2. dag.pc = "update" /\ dag'.pc = "idle"
        BY <2>5 DEF UpdateStatus, Idle
      <3>3. jobEvents' = <<"stage">>
        BY <2>5, <3>1, <3>2 DEF Quiet, UpdateStatus, PutJob
      <3>4. splits = 1
        BY <1>0, <3>1, <3>2 DEF Quiet, IInv, SplitInv
      <3> QED BY <1>4, <2>5, <3>1, <3>2, <3>3, <3>4 DEF Quiet, UpdateStatus
    <2>6. ~SplitGivenUp /\ ~SplitFails
      BY <1>0 DEF SplitGivenUp, SplitFails
    <2> QED BY <1>6, <2>1, <2>2, <2>3, <2>4, <2>5, <2>6 DEF DagController
  <1>7. CASE StageController
    <2>1. ASSUME NEW id \in Ids, Deliver(id) \/ DependStarts(id) PROVE OnceInv'
      BY <1>5, <2>1 DEF Deliver, DependStarts
    <2>2. ASSUME NEW r \in stageSyncs, DependList(r) PROVE OnceInv'
      BY <1>5, <2>2 DEF DependList
    <2>3. ASSUME NEW r \in stageSyncs, NEW id \in r.items, UpdateListStatus(r, id) PROVE OnceInv'
      BY <1>5, <2>3 DEF UpdateListStatus
    <2>4. ASSUME NEW r \in stageSyncs PROVE ~DependFails(r)
      BY <1>0 DEF DependFails
    <2> QED BY <1>7, <2>1, <2>2, <2>3, <2>4 DEF StageController
  <1>8. CASE JobController
    <2>1. ASSUME NEW r \in jobSyncs, UpdateJob(r) PROVE OnceInv'
      <3>1. Quiet
        BY <1>2, <1>3, <2>1 DEF UpdateJob
      <3>2. job # "create"
        BY <1>1 DEF IInv, EarnedInv
      <3>3. splits = 1 /\ dag.pc = "idle"
        BY <1>0, <3>1, <3>2 DEF Quiet
      <3>4. r.state \in JobStates /\ r.state # "create"
        BY DEF IInv, TypeOK, JobSync, Finished, JobStates
      <3>5. jobEvents' = Append(jobEvents, r.state)
        BY <2>1 DEF UpdateJob, PutJob
      <3>6. \A i \in 1..Len(jobEvents') : jobEvents'[i] # "create"
        BY <1>0, <3>1, <3>4, <3>5 DEF Quiet
      <3> QED BY <1>4, <2>1, <3>1, <3>3, <3>6 DEF Quiet, UpdateJob
    <2>2. ASSUME NEW id \in Ids, CompleteJob(id) PROVE OnceInv'
      BY <1>5, <2>2 DEF CompleteJob
    <2>3. ASSUME NEW r \in jobSyncs PROVE ~CompleteFails(r)
      BY <1>0 DEF CompleteFails
    <2> QED BY <1>8, <2>1, <2>2, <2>3 DEF JobController
  <1>9. CASE Scheduler
    BY <1>0, <1>5, <1>9 DEF Scheduler, Bind, BindFails, Unqueue
  <1>10. CASE WorkerAgent
    <2>1. ASSUME NEW id \in Ids, DeliverToWorker(id) \/ Execute(id) PROVE OnceInv'
      BY <1>5, <2>1 DEF DeliverToWorker, Execute
    <2>2. ASSUME NEW e \in execs, CodeReturns(e) \/ UpdateStage(e) PROVE OnceInv'
      BY <1>5, <2>2 DEF CodeReturns, UpdateStage
    <2>3. ASSUME NEW e \in execs PROVE ~UpdateStageFails(e)
      BY <1>0 DEF UpdateStageFails
    <2> QED BY <1>10, <2>1, <2>2, <2>3 DEF WorkerAgent
  <1>11. ~ManagerRestarts /\ ~WorkerRestarts
    BY <1>0 DEF ManagerRestarts, WorkerRestarts
  <1> QED BY <1>6, <1>7, <1>8, <1>9, <1>10, <1>11 DEF Next

----------------------------------------------------------------------------
(* Executions *)

\* Only the worker agent's steps change the executions.
LEMMA ExecsKept ==
  ASSUME Next
  PROVE  UNCHANGED execs \/ WorkerAgent \/ WorkerRestarts
  <1> USE DEF wvars, Fails
  <1>1. CASE DagController
    BY <1>1 DEF DagController, DeliverJob, SplitStarts, SplitGivenUp, CreateStage, SplitEnds,
                UpdateStatus, SplitFails
  <1>2. CASE StageController
    BY <1>2 DEF StageController, Deliver, DependStarts, DependList, UpdateListStatus, DependFails
  <1>3. CASE JobController
    BY <1>3 DEF JobController, CompleteJob, UpdateJob, CompleteFails
  <1>4. CASE Scheduler
    BY <1>4 DEF Scheduler, Bind, BindFails, Unqueue
  <1>5. CASE ManagerRestarts
    BY <1>5 DEF ManagerRestarts
  <1> QED BY <1>1, <1>2, <1>3, <1>4, <1>5 DEF Next

LEMMA ExecsStep == ASSUME IInv, Next PROVE ExecsInv'
  <1>0. ExecsInv /\ execs \subseteq Exec
    BY DEF IInv, TypeOK
  <1>1. CASE UNCHANGED execs
    BY <1>0, <1>1 DEF ExecsInv
  <1>2. ASSUME NEW id \in Ids, DeliverToWorker(id) PROVE ExecsInv'
    <2> DEFINE g(e) == IF e.id = id THEN [e EXCEPT !.fresh = FALSE] ELSE e
    <2>1. execs' = {g(e) : e \in execs}
      BY <1>2 DEF DeliverToWorker
    <2>2. \A e \in execs : g(e).id = e.id /\ g(e).result = e.result /\ g(e).puts = e.puts
      BY <1>0 DEF Exec
    <2> HIDE DEF g
    <2> QED BY <1>0, <2>1, <2>2 DEF ExecsInv
  <1>3. ASSUME NEW id \in Ids, Execute(id) PROVE ExecsInv'
    <2> DEFINE new == [id |-> id, result |-> "none", puts |-> 0, fresh |-> TRUE]
    <2>1. new.id = id /\ new.result = "none" /\ ~(new.puts > 0)
      OBVIOUS
    <2>2. execs' = execs \cup {new} /\ \A e \in execs : e.id # id
      BY <1>3 DEF Execute
    <2> HIDE DEF new
    <2> QED BY <1>0, <2>1, <2>2 DEF ExecsInv
  <1>4. ASSUME NEW e \in execs, CodeReturns(e) PROVE ExecsInv'
    <2>1. PICK result \in Finished, puts \in 1..2 :
            execs' = (execs \ {e}) \cup
              {[e EXCEPT !.result = result, !.puts = puts, !.fresh = FALSE]}
      BY <1>4 DEF CodeReturns
    <2> DEFINE new == [e EXCEPT !.result = result, !.puts = puts, !.fresh = FALSE]
    <2>2. new.id = e.id /\ new.result # "none" /\ new.puts > 0
      BY <1>0 DEF Exec, Finished
    <2>3. execs' = (execs \ {e}) \cup {new}
      BY <2>1
    <2> HIDE DEF new
    <2> QED BY <1>0, <2>2, <2>3 DEF ExecsInv
  <1>5. ASSUME NEW e \in execs, UpdateStage(e) PROVE ExecsInv'
    <2> DEFINE new == [e EXCEPT !.puts = @ - 1]
    <2>1. new.id = e.id /\ new.result = e.result /\ new.puts = e.puts - 1 /\ e.puts \in 0..2
      BY <1>0 DEF Exec
    <2>2. execs' = (execs \ {e}) \cup (IF e.puts = 1 THEN {} ELSE {new}) /\ e.puts > 0
      BY <1>5 DEF UpdateStage
    <2> HIDE DEF new
    <2>3. e.puts # 1 => e.puts = 2
      BY <2>1, <2>2
    <2> QED BY <1>0, <2>1, <2>2, <2>3 DEF ExecsInv
  <1>6. ASSUME NEW e \in execs, UpdateStageFails(e) PROVE ExecsInv'
    BY <1>0, <1>6 DEF UpdateStageFails, ExecsInv
  <1>7. CASE WorkerRestarts
    BY <1>7 DEF WorkerRestarts, ExecsInv
  <1> QED BY <1>1, <1>2, <1>3, <1>4, <1>5, <1>6, <1>7, ExecsKept DEF WorkerAgent

\* A stage stays in its phase while nothing that the phase is about changes.
LEMMA PhaseKept ==
  ASSUME NEW id \in Ids, InPhase(id), stages'[id] = stages[id], wcache'[id] = wcache[id],
         wevents'[id] = wevents[id], runs'[id] = runs[id], (id \in wkeys') = (id \in wkeys),
         \A e : e.id = id => ((e \in execs') = (e \in execs))
  PROVE  InPhase(id)'
  <1>1. CASE Unheard(id) /\ stages[id] # "bind"
    BY <1>1 DEF InPhase, Unheard
  <1>2. CASE Waits(id)
    BY <1>2 DEF InPhase, Waits
  <1>3. CASE Runs(id)
    BY <1>3 DEF InPhase, Runs
  <1>4. CASE HasRun(id)
    BY <1>4 DEF InPhase, HasRun
  <1> QED BY <1>1, <1>2, <1>3, <1>4 DEF InPhase

\* A write of a stage the worker has not heard of, but for the scheduler's.
LEMMA UnheardKept ==
  ASSUME TypeOK, NEW id \in Ids, NEW state \in StageStates, Put(id, state), state # "bind",
         InPhase(id), stages[id] \notin {"bind", "success", "failed"},
         UNCHANGED <<wcache, runs, wkeys, execs>>
  PROVE  InPhase(id)'
  <1>1. Unheard(id)
    BY DEF InPhase, Waits, Runs, HasRun, Finished, TypeOK, Exec
  <1>2. wevents'[id] = <<>> /\ stages'[id] = state
    BY <1>1 DEF Put, TypeOK, Unheard, Heard
  <1> QED BY <1>1, <1>2 DEF InPhase, Unheard

LEMMA QuietStep == ASSUME IInv, Next PROVE QuietInv'
  <1> USE DEF api, dagvars, ctlvars, wvars, envvars, history, Fails, Trouble
  <1> SUFFICES ASSUME ~rewritten', troubles' = 0 PROVE QuietInv'
    BY DEF QuietInv
  <1>0. /\ TypeOK /\ ExecsInv /\ SplitInv /\ QuietInv /\ troubles \in Nat /\ splits \in Nat
        /\ \A id \in Ids : id[2] \in Nat
    BY SMTT(30), PipelineAssumption DEF IInv, TypeOK, Ids
  <1> DEFINE Later == \A id \in Ids : id[2] > splits => stages[id] = "none"
             Left == dag.pc = "create" => \A n \in dag.left : stages[<<n, splits>>] = "none"
             Queued == \A id \in toSchedule : stages[id] = "ready"
             Phases == \A id \in Ids : InPhase(id)
  <1>1. ~rewritten /\ troubles = 0 => Later /\ Left /\ Queued /\ Phases
    BY <1>0 DEF QuietInv
  <1>2. Later' /\ Left' /\ Queued' /\ Phases' => QuietInv'
    BY DEF QuietInv
  \* Steps that write no stage and leave the split and the worker alone.
  <1>3. ASSUME UNCHANGED <<stages, splits, wcache, wevents, wkeys, execs, runs, rewritten, troubles>>,
               dag'.pc = "create" => dag.pc = "create" /\ dag'.left = dag.left,
               toSchedule' \subseteq toSchedule
        PROVE  QuietInv'
    <2>1. Later /\ Left /\ Queued /\ Phases
      BY <1>1, <1>3
    <2>2. Phases'
      BY <1>3, <2>1, PhaseKept
    <2> QED BY <1>2, <1>3, <2>1, <2>2
  \* Steps that write a stage.
  <1>4. ASSUME NEW id \in Ids, NEW state \in StageStates, Put(id, state), Later, Left, Queued, Phases,
               UNCHANGED <<splits, wcache, wkeys, runs>>, InPhase(id)',
               \A e : e.id # id => ((e \in execs') = (e \in execs)),
               id[2] <= splits,
               dag'.pc = "create" => /\ dag.pc = "create" /\ dag'.left \subseteq dag.left
                                     /\ \A n \in dag'.left : <<n, splits>> # id,
               id \notin toSchedule' \/ state = "ready", toSchedule' \subseteq toSchedule \cup {id}
        PROVE  QuietInv'
    <2>1. stages'[id] = state /\ \A i \in Ids : i # id => stages'[i] = stages[i] /\ wevents'[i] = wevents[i]
      BY <1>0, <1>4 DEF Put, TypeOK
    <2>2. Later'
      BY <1>0, <1>4, <2>1
    <2>3. Left'
      <3>1. \A n \in dag.left : dag.pc = "create" => <<n, splits>> \in Ids
        BY <1>0 DEF TypeOK, Split, SplitInv, Ids
      <3> QED BY <1>4, <2>1, <3>1
    <2>4. Queued'
      BY <1>0, <1>4, <2>1 DEF TypeOK
    <2>5. Phases'
      BY <1>4, <2>1, PhaseKept
    <2> QED BY <1>2, <2>2, <2>3, <2>4, <2>5
  <1> HIDE DEF Later, Left, Queued, Phases
  <1>5. CASE DagController
    <2>1. CASE DeliverJob
      <3>1. dag'.pc = dag.pc /\ dag'.left = dag.left
        BY <1>0, <2>1 DEF DeliverJob, TypeOK, Split
      <3> QED BY <1>3, <2>1, <3>1 DEF DeliverJob
    <2>2. CASE SplitStarts
      <3>1. Later /\ Queued /\ Phases /\ splits' = splits + 1 /\ splits' \in 1..MaxSplits
        BY <1>0, <1>1, <2>2, PipelineAssumption DEF SplitStarts, TypeOK
      <3>2. UNCHANGED <<stages, toSchedule, wcache, wevents, wkeys, execs, runs>>
        BY <2>2 DEF SplitStarts
      <3>3. Later' /\ Queued'
        BY <1>0, <3>1, <3>2 DEF Later, Queued
      <3>4. Phases'
        BY <3>1, <3>2, PhaseKept DEF Phases
      <3>5. \A n \in Nodes : stages[<<n, splits'>>] = "none"
        BY <1>0, <3>1 DEF Later, Ids
      <3>6. Left'
        BY <2>2, <3>2, <3>5 DEF Left, SplitStarts
      <3> QED BY <1>2, <3>3, <3>4, <3>6
    <2>3. ASSUME NEW n \in Nodes, CreateStage(n) PROVE QuietInv'
      <3> DEFINE state == InitialState(n)
      <3>0. PICK id \in Ids : id = <<n, splits>>
        BY <1>0, <2>3 DEF CreateStage, SplitInv, TypeOK, Ids
      <3>1. Later /\ Left /\ Queued /\ Phases
        BY <1>1, <2>3 DEF CreateStage
      <3>2. Put(id, state) /\ Queues(id, state) /\ UNCHANGED <<splits, wcache, wkeys, runs, execs>>
        BY <2>3, <3>0 DEF CreateStage
      <3>3. state \in {"ready", "create"} /\ state \in StageStates /\ id[2] = splits
        BY <3>0 DEF InitialState, StageStates
      <3>4. stages[id] = "none"
        BY <2>3, <3>0, <3>1 DEF Left, CreateStage
      <3>5. dag'.left = dag.left \ {n} /\ dag'.pc = "create" /\ dag.pc = "create"
        BY <1>0, <2>3 DEF CreateStage, TypeOK, Split
      <3>6. id \notin toSchedule
        BY <3>1, <3>4 DEF Queued
      <3>7. toSchedule' \subseteq toSchedule \cup {id} /\ (id \notin toSchedule' \/ state = "ready")
        BY <3>2, <3>6 DEF Queues
      <3>8. \A m \in dag'.left : <<m, splits>> # id
        BY <3>0, <3>5
      <3> HIDE DEF state
      <3>9. InPhase(id)'
        BY <1>0, <3>1, <3>2, <3>3, <3>4, UnheardKept DEF Phases
      <3>10. id[2] <= splits
        BY <1>0, <3>3
      <3> QED BY <1>4, <3>1, <3>2, <3>3, <3>5, <3>7, <3>8, <3>9, <3>10
    <2>4. CASE SplitEnds
      <3>1. dag'.pc = "update"
        BY <1>0, <2>4 DEF SplitEnds, TypeOK, Split
      <3> QED BY <1>3, <2>4, <3>1 DEF SplitEnds
    <2>5. CASE UpdateStatus
      BY <1>3, <2>5 DEF UpdateStatus, Idle
    <2>6. ~SplitGivenUp /\ ~SplitFails
      BY <1>0 DEF SplitGivenUp, SplitFails
    <2> QED BY <1>5, <2>1, <2>2, <2>3, <2>4, <2>5, <2>6 DEF DagController
  <1>6. CASE StageController
    <2>1. ASSUME NEW id \in Ids, Deliver(id) \/ DependStarts(id) PROVE QuietInv'
      BY <1>3, <2>1 DEF Deliver, DependStarts
    <2>2. ASSUME NEW r \in stageSyncs, DependList(r) PROVE QuietInv'
      BY <1>3, <2>2 DEF DependList
    <2>3. ASSUME NEW r \in stageSyncs, NEW id \in r.items, UpdateListStatus(r, id) PROVE QuietInv'
      <3> DEFINE state == IF r.upper = "success" THEN "ready" ELSE "failed"
      <3>1. Later /\ Left /\ Queued /\ Phases
        BY <1>1, <2>3 DEF UpdateListStatus
      <3>2. /\ Put(id, state) /\ Queues(id, state) /\ stages[id] = "create"
            /\ UNCHANGED <<splits, dag, wcache, wkeys, runs, execs>>
        BY <2>3 DEF UpdateListStatus
      <3>3. id \in Ids /\ state \in {"ready", "failed"} /\ state \in StageStates
        BY <1>0 DEF TypeOK, StageStates, StageSync
      <3>4. id[2] <= splits
        BY <1>0, <3>1, <3>2, <3>3 DEF Later
      <3>5. id \notin toSchedule
        BY <3>1, <3>2 DEF Queued
      <3>6. toSchedule' \subseteq toSchedule \cup {id} /\ (id \notin toSchedule' \/ state = "ready")
        BY <3>2, <3>5 DEF Queues
      <3>7. dag.pc = "create" => \A m \in dag.left : <<m, splits>> # id
        BY <3>1, <3>2 DEF Left
      <3> HIDE DEF state
      <3>8. InPhase(id)'
        BY <1>0, <3>1, <3>2, <3>3, UnheardKept DEF Phases
      <3> QED BY <1>4, <3>1, <3>2, <3>3, <3>4, <3>6, <3>7, <3>8
    <2>4. ASSUME NEW r \in stageSyncs PROVE ~DependFails(r)
      BY <1>0 DEF DependFails
    <2> QED BY <1>6, <2>1, <2>2, <2>3, <2>4 DEF StageController
  <1>7. CASE JobController
    <2>1. ASSUME NEW id \in Ids, CompleteJob(id) PROVE QuietInv'
      BY <1>3, <2>1 DEF CompleteJob
    <2>2. ASSUME NEW r \in jobSyncs, UpdateJob(r) PROVE QuietInv'
      BY <1>3, <2>2 DEF UpdateJob
    <2>3. ASSUME NEW r \in jobSyncs PROVE ~CompleteFails(r)
      BY <1>0 DEF CompleteFails
    <2> QED BY <1>7, <2>1, <2>2, <2>3 DEF JobController
  <1>8. CASE Scheduler
    <2>1. ASSUME NEW id \in toSchedule, Bind(id) PROVE QuietInv'
      <3>1. Later /\ Left /\ Queued /\ Phases
        BY <1>1, <2>1 DEF Bind
      <3>2. /\ Put(id, "bind") /\ toSchedule' = toSchedule \ {id} /\ stages[id] = "ready"
            /\ UNCHANGED <<splits, dag, wcache, wkeys, runs, execs>>
        BY <2>1, <3>1 DEF Bind, Queued
      <3>3. id \in Ids /\ "bind" \in StageStates
        BY <1>0 DEF TypeOK, StageStates
      <3>4. id[2] <= splits
        BY <1>0, <3>1, <3>2, <3>3 DEF Later
      <3>5. dag.pc = "create" => \A m \in dag.left : <<m, splits>> # id
        BY <3>1, <3>2 DEF Left
      <3>6. InPhase(id)'
        <4>1. Unheard(id)
          <5>1. InPhase(id)
            BY <3>1, <3>3 DEF Phases
          <5> QED BY <1>0, <3>2, <5>1 DEF InPhase, Waits, Runs, HasRun, Finished, TypeOK, Exec
        <4>2. wevents'[id] = <<"bind">> /\ stages'[id] = "bind"
          BY <1>0, <3>2, <3>3, <4>1 DEF Put, TypeOK, Unheard, Heard
        <4> QED BY <3>2, <4>1, <4>2 DEF InPhase, Unheard, Waits
      <3> QED BY <1>4, <3>1, <3>2, <3>3, <3>4, <3>5, <3>6
    <2>2. ASSUME NEW id \in toSchedule, Unqueue(id) PROVE QuietInv'
      BY <1>3, <2>2 DEF Unqueue
    <2>3. ASSUME NEW id \in toSchedule PROVE ~BindFails(id)
      BY <1>0 DEF BindFails
    <2> QED BY <1>8, <2>1, <2>2, <2>3 DEF Scheduler
  <1>9. CASE WorkerAgent
    <2>1. ASSUME NEW id \in Ids, DeliverToWorker(id) PROVE QuietInv'
      <3>1. Later /\ Left /\ Queued /\ Phases
        BY <1>1, <2>1 DEF DeliverToWorker
      <3>2. /\ UNCHANGED <<stages, splits, dag, toSchedule, runs>> /\ wevents[id] # <<>>
            /\ wcache' = [wcache EXCEPT ![id] = Head(wevents[id])]
            /\ wevents' = [wevents EXCEPT ![id] = Tail(wevents[id])]
            /\ wkeys' = IF "bind" \in {wcache[id], Head(wevents[id])} THEN wkeys \cup {id} ELSE wkeys
        BY <2>1 DEF DeliverToWorker
      <3>3. Waits(id) /\ wcache[id] = "none" /\ wevents[id] = <<"bind">>
        <4>1. InPhase(id)
          BY <3>1 DEF Phases
        <4> QED BY <3>2, <4>1 DEF InPhase, Unheard, Waits, Runs, HasRun
      <3>4. execs' = execs
        BY <2>1, <3>3 DEF DeliverToWorker, Waits
      <3>5. wcache'[id] = "bind" /\ wevents'[id] = <<>> /\ id \in wkeys'
        BY <1>0, <3>2, <3>3 DEF TypeOK
      <3>6. InPhase(id)'
        BY <3>2, <3>3, <3>4, <3>5 DEF InPhase, Waits
      <3>7. \A i \in Ids : i # id => /\ wcache'[i] = wcache[i] /\ wevents'[i] = wevents[i]
                                     /\ (i \in wkeys') = (i \in wkeys)
        BY <1>0, <3>2 DEF TypeOK
      <3>8. Phases'
        BY <3>1, <3>2, <3>4, <3>6, <3>7, PhaseKept DEF Phases
      <3> QED BY <1>2, <3>1, <3>2, <3>8 DEF Later, Left, Queued
    <2>2. ASSUME NEW id \in Ids, Execute(id) PROVE QuietInv'
      <3> DEFINE new == [id |-> id, result |-> "none", puts |-> 0, fresh |-> TRUE]
      <3>1. Later /\ Left /\ Queued /\ Phases
        BY <1>1, <2>2 DEF Execute
      <3>2. /\ UNCHANGED <<stages, splits, dag, toSchedule, wcache, wevents>>
            /\ id \in wkeys /\ wkeys' = wkeys \ {id} /\ execs' = execs \cup {new}
            /\ runs' = [runs EXCEPT ![id] = runs[id] + 1]
        BY <2>2 DEF Execute
      <3>3. Waits(id) /\ wcache[id] = "bind" /\ wevents[id] = <<>>
        <4>1. InPhase(id)
          BY <3>1 DEF Phases
        <4> QED BY <3>2, <4>1 DEF InPhase, Unheard, Waits, Runs, HasRun
      <3>4. runs'[id] = 1 /\ \A i \in Ids : i # id => runs'[i] = runs[i]
        BY <1>0, <3>2, <3>3 DEF TypeOK, Waits
      <3>5. new.id = id /\ new.result = "none" /\ new.fresh
        OBVIOUS
      <3> HIDE DEF new
      <3>6. \A e \in execs' : e.id = id => e = new
        BY <3>2, <3>3 DEF Waits
      <3>7. Runs(id)'
        BY <3>2, <3>3, <3>4, <3>5, <3>6 DEF Runs, Waits
      <3>8. Phases'
        BY <3>1, <3>2, <3>4, <3>5, <3>7, PhaseKept DEF Phases, InPhase
      <3> QED BY <1>2, <3>1, <3>2, <3>8 DEF Later, Left, Queued
    <2>3. ASSUME NEW e \in execs, CodeReturns(e) PROVE QuietInv'
      <3>1. Later /\ Left /\ Queued /\ Phases
        BY <1>1, <2>3 DEF CodeReturns
      <3>2. UNCHANGED <<stages, splits, dag, toSchedule, wevents, wkeys, runs>> /\ e.result = "none"
        BY <2>3 DEF CodeReturns
      <3>3. PICK result \in Finished, puts \in 1..2 :
              /\ execs' = (execs \ {e}) \cup
                   {[e EXCEPT !.result = result, !.puts = puts, !.fresh = FALSE]}
              /\ wcache' = IF e.fresh THEN [wcache EXCEPT ![e.id] = result] ELSE wcache
        BY <2>3 DEF CodeReturns
      <3> DEFINE new == [e EXCEPT !.result = result, !.puts = puts, !.fresh = FALSE]
      <3>4. e.id \in Ids /\ new.id = e.id /\ new.result = result
        BY <1>0 DEF TypeOK, Exec
      <3>5. execs' = (execs \ {e}) \cup {new}
        BY <3>3
      <3> HIDE DEF new
      <3>6. Runs(e.id)
        <4>1. InPhase(e.id)
          BY <3>1, <3>4 DEF Phases
        <4> QED BY <4>1 DEF InPhase, Unheard, Waits, HasRun
      <3>7. e.fresh /\ stages[e.id] = "bind"
        BY <3>2, <3>6 DEF Runs, Finished
      <3>8. \A f \in execs' : f.id = e.id => f = new
        BY <1>0, <3>5 DEF ExecsInv
      <3>9. wcache'[e.id] = result /\ \A i \in Ids : i # e.id => wcache'[i] = wcache[i]
        BY <1>0, <3>3, <3>4, <3>7 DEF TypeOK
      <3>10. Runs(e.id)'
        BY <3>2, <3>4, <3>5, <3>6, <3>7, <3>8, <3>9 DEF Runs
      <3>11. Phases'
        BY <3>1, <3>2, <3>4, <3>5, <3>9, <3>10, PhaseKept DEF Phases, InPhase
      <3> QED BY <1>2, <3>1, <3>2, <3>11 DEF Later, Left, Queued
    <2>4. ASSUME NEW e \in execs, UpdateStage(e) PROVE QuietInv'
      <3> DEFINE new == [e EXCEPT !.puts = @ - 1]
      <3>1. Later /\ Left /\ Queued /\ Phases
        BY <1>1, <2>4 DEF UpdateStage
      <3>2. /\ Put(e.id, e.result) /\ UNCHANGED <<splits, dag, toSchedule, wcache, wkeys, runs>>
            /\ execs' = (execs \ {e}) \cup (IF e.puts = 1 THEN {} ELSE {new})
        BY <2>4 DEF UpdateStage
      <3>3. e.id \in Ids /\ e.result \in Finished /\ e.result \in StageStates
        <4>1. e.result # "none"
          BY <1>0, <2>4 DEF UpdateStage, ExecsInv
        <4> QED BY <1>0, <4>1 DEF TypeOK, Exec, Finished, StageStates
      <3>4. new.id = e.id /\ new.result = e.result
        BY <1>0 DEF TypeOK, Exec
      <3> HIDE DEF new
      <3>5. Runs(e.id)
        <4>1. InPhase(e.id)
          BY <3>1, <3>3 DEF Phases
        <4> QED BY <4>1 DEF InPhase, Unheard, Waits, HasRun
      <3>6. wcache[e.id] = e.result /\ stages[e.id] \in {"bind", e.result} /\ wevents[e.id] = <<>>
        BY <3>3, <3>5 DEF Runs, Finished
      <3>7. wevents'[e.id] = <<>> /\ stages'[e.id] = e.result
        BY <1>0, <3>2, <3>3, <3>6 DEF Put, TypeOK, Heard, Finished
      <3>8. \A f \in execs' : f.id = e.id => f = new
        BY <1>0, <3>2 DEF ExecsInv
      <3>9. \A f : f.id # e.id => ((f \in execs') = (f \in execs))
        BY <3>2, <3>4
      <3>10. InPhase(e.id)'
        <4>1. CASE e.puts = 1
          <5>1. \A f \in execs' : f.id # e.id
            BY <1>0, <3>2, <4>1 DEF ExecsInv
          <5> QED BY <3>2, <3>3, <3>5, <3>6, <3>7, <5>1 DEF InPhase, Runs, HasRun
        <4>2. CASE e.puts # 1
          <5>1. new \in execs'
            BY <3>2, <4>2
          <5>2. Runs(e.id)'
            BY <3>2, <3>3, <3>4, <3>5, <3>6, <3>7, <3>8, <5>1 DEF Runs
          <5> QED BY <5>2 DEF InPhase
        <4> QED BY <4>1, <4>2
      <3>11. stages[e.id] \notin {"none", "ready"}
        BY <3>3, <3>6 DEF Finished
      <3>12. e.id[2] <= splits
        BY <1>0, <3>1, <3>3, <3>11 DEF Later
      <3>13. e.id \notin toSchedule
        BY <3>1, <3>11 DEF Queued
      <3>14. dag.pc = "create" => \A m \in dag.left : <<m, splits>> # e.id
        BY <3>1, <3>11 DEF Left
      <3> QED BY <1>4, <3>1, <3>2, <3>3, <3>9, <3>10, <3>12, <3>13, <3>14
    <2>5. ASSUME NEW e \in execs PROVE ~UpdateStageFails(e)
      BY <1>0 DEF UpdateStageFails
    <2> QED BY <1>9, <2>1, <2>2, <2>3, <2>4, <2>5 DEF WorkerAgent
  <1>10. ~ManagerRestarts /\ ~WorkerRestarts
    BY <1>0 DEF ManagerRestarts, WorkerRestarts
  <1> QED BY <1>5, <1>6, <1>7, <1>8, <1>9, <1>10 DEF Next

----------------------------------------------------------------------------
(* The theorems *)

LEMMA InitIInv == Init => IInv
  <1> SUFFICES ASSUME Init PROVE IInv
    OBVIOUS
  <1>1. TypeOK
    <2>1. Idle \in Split
      BY DEF Idle, Split
    <2>2. "create" \in JobStates /\ "none" \in StageStates /\ 0 \in 0..MaxSplits
          /\ 0 \in 0..MaxTroubles /\ 0 \in 0..MaxRuns
      BY PipelineAssumption DEF JobStates, StageStates
    <2>3. /\ stages \in [Ids -> StageStates] /\ cache \in [Ids -> StageStates]
          /\ wcache \in [Ids -> StageStates] /\ runs \in [Ids -> 0..MaxRuns]
      BY <2>2 DEF Init
    <2>4. /\ events \in [Ids -> Seq(StageStates)] /\ wevents \in [Ids -> Seq(StageStates)]
          /\ order \in [Nodes -> Seq(1..MaxSplits)] /\ jobEvents \in Seq(JobStates)
      BY DEF Init
    <2> QED BY <2>1, <2>2, <2>3, <2>4 DEF Init, TypeOK
  <1>2. DependInv
    BY DEF Init, DependInv, Has
  <1>3. SplitInv /\ EarnedInv /\ OnceInv /\ ExecsInv
    BY DEF Init, SplitInv, Idle, EarnedInv, Finished, OnceInv, ExecsInv
  <1>4. QuietInv
    BY DEF Init, Idle, QuietInv, InPhase, Unheard
  <1> QED BY <1>1, <1>2, <1>3, <1>4 DEF IInv

LEMMA IInvStep == IInv /\ [Next]_vars => IInv'
  <1> SUFFICES ASSUME IInv, [Next]_vars PROVE IInv'
    OBVIOUS
  <1>1. CASE Next
    <2>1. TypeOK'
      BY <1>1, TypeStep DEF IInv
    <2>2. DependInv'
      BY <1>1, DependStep DEF IInv
    <2> QED BY <1>1, <2>1, <2>2, SplitStep, EarnedStep, OnceStep, ExecsStep, QuietStep DEF IInv
  <1>2. CASE UNCHANGED vars
    <2>1. TypeOK' /\ DependInv' /\ SplitInv'
      BY <1>2 DEF vars, IInv, TypeOK, DependInv, Cleared, SplitInv
    <2>2. EarnedInv' /\ OnceInv' /\ ExecsInv'
      BY <1>2 DEF vars, IInv, EarnedInv, AllCreated, OnceInv, ExecsInv
    <2>3. QuietInv'
      BY <1>2 DEF vars, IInv, QuietInv, InPhase, Unheard, Waits, Runs, HasRun
    <2> QED BY <2>1, <2>2, <2>3 DEF IInv
  <1> QED BY <1>1, <1>2

\* All the parts of the invariant hold in every reachable state.
THEOREM Invariant == Spec => []IInv
  BY InitIInv, IInvStep, PTL DEF Spec

\* Every variable of the pipeline keeps its type.
THEOREM TypeCorrect == Spec => []TypeOK
  <1>1. IInv => TypeOK
    BY DEF IInv
  <1> QED BY <1>1, Invariant, PTL

\* The worker agent's execute never runs the code of a stage before all the
\* nodes it depends on have succeeded, for every graph and any failures,
\* restarts, repeated splits and delays.
THEOREM DependenciesFirst == Spec => []DependenciesSucceeded
  <1>1. IInv => DependenciesSucceeded
    BY DEF IInv, DependInv, Cleared, DependenciesSucceeded
  <1> QED BY <1>1, Invariant, PTL

\* The job controller's complete reports success only when every node of the
\* graph has succeeded, unless a stage finished before the split did.
THEOREM SuccessIsEarned == Spec => []JobSuccessIsEarned
  <1>1. IInv => JobSuccessIsEarned
    BY DEF IInv, EarnedInv, JobSuccessIsEarned
  <1> QED BY <1>1, Invariant, PTL

\* The dag controller's split is not asked for again while nothing fails,
\* restarts or is early.
THEOREM JobIsSplitOnce == Spec => []SplitOnce
  <1>1. IInv => SplitOnce
    <2> SUFFICES ASSUME IInv, SplitAgain, ~early, ~(troubles > 0) PROVE FALSE
      BY DEF SplitOnce
    <2>1. troubles = 0 /\ splits \in Nat
      BY PipelineAssumption DEF IInv, TypeOK
    <2> QED BY <2>1 DEF IInv, OnceInv, SplitAgain
  <1> QED BY <1>1, Invariant, PTL

\* The worker agent runs the code of a stage once while nothing fails or
\* restarts and no stage past create is overwritten.
THEOREM StageRunsOnce == Spec => []RunOnce
  <1>1. IInv => RunOnce
    <2> SUFFICES ASSUME IInv, NEW id \in Ids, runs[id] > 1, ~rewritten, ~(troubles > 0) PROVE FALSE
      BY DEF RunOnce
    <2>1. troubles = 0
      BY PipelineAssumption DEF IInv, TypeOK
    <2>2. InPhase(id)
      BY <2>1 DEF IInv, QuietInv
    <2> QED BY <2>2 DEF InPhase, Unheard, Waits, Runs, HasRun
  <1> QED BY <1>1, Invariant, PTL

=============================================================================
