--------------------------- MODULE SchedulerCache ---------------------------
(***************************************************************************)
(* The scheduler's cache (pkg/scheduler/cache): which stage runs, or is    *)
(* assumed to run, on which worker; the list of workers ordered by their   *)
(* last change; and the incremental snapshot the scheduling loop works on. *)
(* Callers are the scheduling goroutine (UpdateSnapshot, AssumeStage), one *)
(* binding goroutine per assumed stage (FinishBinding, ForgetStage) and    *)
(* the informers' handlers (AddStage ... RemoveWorker).                    *)
(*                                                                         *)
(* A section under mu.Lock is one action; AssumeStage and FinishBinding    *)
(* only take mu.RLock and are two, with their effect at the second, so     *)
(* that they overlap as the lock lets them. The scheduler makes the cache  *)
(* with ttl 0, so no assumed stage expires. Zones of the worker tree and   *)
(* resource sums (which the code leaves at zero) are not modelled.         *)
(***************************************************************************)
EXTENDS Integers, Sequences, FiniteSets

CONSTANTS
  Stages, NoStage,
  Workers, NoWorker,  \* worker UIDs
  NameOf,             \* the Name of every worker
  MaxGeneration,      \* bound on nextGeneration
  MaxBindings         \* bound on the binding goroutines that run at a time

ASSUME SchedulerCacheAssumption ==
  /\ NoStage \notin Stages /\ NoWorker \notin Workers
  /\ MaxGeneration \in Nat /\ MaxBindings \in Nat
  /\ DOMAIN NameOf = Workers
  /\ \A u, v \in Workers : NameOf[u] = NameOf[v] => u = v

VARIABLES
  assumedStages,  \* the set of assumed stages
  stageStates,    \* stage -> its worker
  workers,        \* UID -> [live, stages, gen]; live: the worker object is set
  list,           \* the UIDs of workers from headWorker on
  tree,           \* the names in workerTree
  generation,     \* the last value of nextGeneration
  snapMap,        \* Snapshot.workerInfoMap: name -> stages
  snapList,       \* the names in Snapshot.workerInfoList
  snapGeneration,
  snapErr,        \* UpdateSnapshot returned an error
  assuming,       \* the stage and worker AssumeStage is inside RLock with
  binding,        \* the binding goroutines: [stage, worker, pc]
  informed,       \* stage -> the worker of the last event delivered for it
  known           \* the workers whose last event was not a delete

cache == <<assumedStages, stageStates, workers, list, generation>>
snapshot == <<snapMap, snapList, snapGeneration, snapErr>>
goroutines == <<assuming, binding>>
vars == <<assumedStages, stageStates, workers, list, tree, generation, snapMap,
          snapList, snapGeneration, snapErr, assuming, binding, informed, known>>

\* A binding goroutine calls bind, which returned with or without an error,
\* is inside FinishBinding's RLock, and then forgets the stage on an error.
BindingPC == {"call", "bound", "failed", "finishBound", "finishFailed", "forget"}
InFinish == {"finishBound", "finishFailed"}

NotAssuming == [stage |-> NoStage, worker |-> NoWorker]

With(f, k, v) == [x \in DOMAIN f \cup {k} |-> IF x = k THEN v ELSE f[x]]
Without(f, S) == [x \in DOMAIN f \ S |-> f[x]]
Names(S) == {NameOf[u] : u \in S}

----------------------------------------------------------------------------
(* The worker list: operators on c = [workers, list, generation]           *)

Current == [workers |-> workers, list |-> list, generation |-> generation]

MoveNot_mutant(c, u) ==
  [c EXCEPT !.list = IF \E n \in 1..Len(@) : @[n] = u THEN @ ELSE <<u>> \o @]

\* An item's neighbours become each other's: seq without the one place that
\* has u, if any.
Unlink(seq, u) ==
  LET at == CHOOSE n \in 1..Len(seq) : seq[n] = u
  IN IF \E n \in 1..Len(seq) : seq[n] = u
     THEN SubSeq(seq, 1, at - 1) \o SubSeq(seq, at + 1, Len(seq))
     ELSE seq

moveWorkerInfoToHead(c, u) ==
  [workers |-> c.workers, list |-> <<u>> \o Unlink(c.list, u), generation |-> c.generation]

removeWorkerInfoFromList(c, u) ==
  [workers |-> Without(c.workers, {u}), list |-> Unlink(c.list, u), generation |-> c.generation]

\* WorkerInfo u becomes [live, stages]; every change bumps its generation.
SetInfo(c, u, live, stages) ==
  [workers |-> With(c.workers, u, [live |-> live, stages |-> stages, gen |-> c.generation + 1]),
   list |-> c.list, generation |-> c.generation + 1]

InfoOf(c, u) == IF u \in DOMAIN c.workers THEN c.workers[u]
                ELSE [live |-> FALSE, stages |-> {}, gen |-> 0]

addStageTo(c, s, u) ==
  moveWorkerInfoToHead(SetInfo(c, u, InfoOf(c, u).live, InfoOf(c, u).stages \cup {s}), u)

\* removeStage: a deleted worker is only kept for its stages.
removeStageFrom(c, s, u) ==
  LET d == SetInfo(c, u, c.workers[u].live, c.workers[u].stages \ {s})
  IN IF u \notin DOMAIN c.workers THEN c
     ELSE IF d.workers[u].stages = {} /\ ~d.workers[u].live
          THEN removeWorkerInfoFromList(d, u)
          ELSE moveWorkerInfoToHead(d, u)

Becomes(c) ==
  /\ c.generation <= MaxGeneration
  /\ workers' = c.workers /\ list' = c.list /\ generation' = c.generation

\* mu.Lock waits for the readers.
Lock == assuming = NotAssuming /\ \A b \in binding : b.pc \notin InFinish

Step(b, pc) == binding' = (binding \ {b}) \cup {[b EXCEPT !.pc = pc]}
End(b) == binding' = binding \ {b}

----------------------------------------------------------------------------
Init ==
  /\ assumedStages = {}
  /\ stageStates = [s \in {} |-> NoWorker]
  /\ workers = [u \in {} |-> {}]
  /\ list = <<>>
  /\ tree = {}
  /\ generation = 0
  /\ snapMap = [n \in {} |-> {}]
  /\ snapList = {}
  /\ snapGeneration = 0
  /\ snapErr = FALSE
  /\ assuming = NotAssuming
  /\ binding = {}
  /\ informed = [s \in Stages |-> NoWorker]
  /\ known = {}

(* The scheduling goroutine: AssumeStage for a worker of its snapshot,     *)
(* refused for a stage the cache has; the binding goroutine then starts.   *)
AssumeStage(s, u) ==
  /\ assuming = NotAssuming
  /\ NameOf[u] \in snapList /\ ~snapErr
  /\ assuming' = [stage |-> s, worker |-> u]
  /\ UNCHANGED <<cache, tree, snapshot, binding, informed, known>>

AssumeAgain_mutant ==
  /\ assuming # NotAssuming
  /\ LET s == assuming.stage
         u == assuming.worker
     IN /\ Becomes(addStageTo(Current, s, u))
        /\ stageStates' = With(stageStates, s, u)
        /\ assumedStages' = assumedStages \cup {s}
        /\ Cardinality(binding) < MaxBindings
        /\ binding' = binding \cup {[stage |-> s, worker |-> u, pc |-> "call"]}
  /\ assuming' = NotAssuming
  /\ UNCHANGED <<tree, snapshot, informed, known>>

AssumeStageUnlocks ==
  /\ assuming # NotAssuming
  /\ LET s == assuming.stage
         u == assuming.worker
     IN \/ s \in DOMAIN stageStates /\ UNCHANGED <<cache, binding>>
        \/ /\ s \notin DOMAIN stageStates
           /\ Becomes(addStageTo(Current, s, u))
           /\ stageStates' = With(stageStates, s, u)
           /\ assumedStages' = assumedStages \cup {s}
           /\ Cardinality(binding) < MaxBindings
           /\ binding' = binding \cup {[stage |-> s, worker |-> u, pc |-> "call"]}
  /\ assuming' = NotAssuming
  /\ UNCHANGED <<tree, snapshot, informed, known>>

(* A binding goroutine: bind returns, FinishBinding, and ForgetStage when  *)
(* bind returned an error. bindingFinished matters to expiry only.         *)
BindReturns(b) ==
  /\ b.pc = "call"
  /\ Step(b, "bound") \/ Step(b, "failed")
  /\ UNCHANGED <<cache, tree, snapshot, assuming, informed, known>>

FinishBinding(b) ==
  /\ \/ b.pc = "bound" /\ Step(b, "finishBound")
     \/ b.pc = "failed" /\ Step(b, "finishFailed")
  /\ UNCHANGED <<cache, tree, snapshot, assuming, informed, known>>

FinishBindingUnlocks(b) ==
  /\ \/ b.pc = "finishBound" /\ End(b)
     \/ b.pc = "finishFailed" /\ Step(b, "forget")
  /\ UNCHANGED <<cache, tree, snapshot, assuming, informed, known>>

ForgetsAdded_mutant(b) ==
  /\ b.pc = "forget" /\ Lock
  /\ End(b)
  /\ IF b.stage \in DOMAIN stageStates
     THEN /\ Becomes(removeStageFrom(Current, b.stage, stageStates[b.stage]))
          /\ stageStates' = Without(stageStates, {b.stage})
          /\ assumedStages' = assumedStages \ {b.stage}
     ELSE UNCHANGED cache
  /\ UNCHANGED <<tree, snapshot, assuming, informed, known>>

\* Only a stage that is still assumed, and on the same worker, is forgotten.
ForgetStage(b) ==
  LET s == b.stage
      assumedHere == s \in assumedStages /\ stageStates[s] = b.worker
  IN /\ b.pc = "forget" /\ Lock
     /\ End(b)
     /\ \/ /\ assumedHere
           /\ Becomes(removeStageFrom(Current, s, b.worker))
           /\ stageStates' = Without(stageStates, {s})
           /\ assumedStages' = assumedStages \ {s}
        \/ ~assumedHere /\ UNCHANGED cache
     /\ UNCHANGED <<tree, snapshot, assuming, informed, known>>

----------------------------------------------------------------------------
(* Stage events *)

\* AddStage: confirms an assumed stage, moves it when it was assumed on
\* another worker, adds an unknown one and refuses one already added.
AddStage(s, u) ==
  /\ informed[s] = NoWorker /\ Lock
  /\ informed' = [informed EXCEPT ![s] = u]
  /\ \/ /\ s \in assumedStages /\ stageStates[s] = u
        /\ assumedStages' = assumedStages \ {s}
        /\ UNCHANGED <<stageStates, workers, list, generation>>
     \/ /\ s \in assumedStages /\ stageStates[s] # u
        /\ Becomes(addStageTo(removeStageFrom(Current, s, stageStates[s]), s, u))
        /\ stageStates' = With(stageStates, s, u)
        /\ assumedStages' = assumedStages \ {s}
     \/ /\ s \notin DOMAIN stageStates
        /\ Becomes(addStageTo(Current, s, u))
        /\ stageStates' = With(stageStates, s, u)
        /\ UNCHANGED assumedStages
     \/ s \in DOMAIN stageStates \ assumedStages /\ UNCHANGED cache
  /\ UNCHANGED <<tree, snapshot, goroutines, known>>

\* UpdateStage removes and adds the stage; it refuses an assumed or unknown
\* one. A stage that is on another worker in the cache makes UpdateStage and
\* RemoveStage exit the process: there is no step then (NeverExits).
UpdateStage(s) ==
  LET u == informed[s]
      added == s \in DOMAIN stageStates \ assumedStages
  IN /\ u # NoWorker /\ Lock
     /\ \/ /\ added /\ stageStates[s] = u
           /\ Becomes(addStageTo(removeStageFrom(Current, s, u), s, u))
        \/ ~added /\ UNCHANGED <<workers, list, generation>>
     /\ UNCHANGED <<assumedStages, stageStates, tree, snapshot, goroutines, informed, known>>

RemoveStage(s) ==
  /\ informed[s] # NoWorker /\ Lock
  /\ informed' = [informed EXCEPT ![s] = NoWorker]
  /\ \/ s \notin DOMAIN stageStates /\ UNCHANGED cache
     \/ /\ s \in DOMAIN stageStates /\ stageStates[s] = informed[s]
        /\ Becomes(removeStageFrom(Current, s, informed[s]))
        /\ stageStates' = Without(stageStates, {s})
        /\ assumedStages' = assumedStages \ {s}
  /\ UNCHANGED <<tree, snapshot, goroutines, known>>

----------------------------------------------------------------------------
(* Worker events *)

\* AddWorker and UpdateWorker: into the list (at its head) and the tree.
SetWorker(u) ==
  /\ Lock
  /\ Becomes(SetInfo(moveWorkerInfoToHead(Current, u), u, TRUE, InfoOf(Current, u).stages))
  /\ tree' = tree \cup {NameOf[u]}
  /\ UNCHANGED <<assumedStages, stageStates, snapshot, goroutines, informed>>

AddWorker(u) ==
  /\ u \notin known
  /\ known' = known \cup {u}
  /\ SetWorker(u)

UpdateWorker(u) ==
  /\ u \in known
  /\ UNCHANGED known
  /\ SetWorker(u)

RemoveWorker(u) ==
  /\ u \in known /\ Lock
  /\ known' = known \ {u}
  /\ LET c == SetInfo(Current, u, FALSE, workers[u].stages)
     IN Becomes(IF workers[u].stages = {} THEN removeWorkerInfoFromList(c, u)
                ELSE moveWorkerInfoToHead(c, u))
  /\ tree' = tree \ {NameOf[u]}
  /\ UNCHANGED <<assumedStages, stageStates, snapshot, goroutines, informed>>

----------------------------------------------------------------------------
(* UpdateSnapshot *)

\* The prefix of the list that changed since the last snapshot, live ones.
Changed ==
  {list[n] : n \in {m \in 1..Len(list) :
     /\ \A k \in 1..m : workers[list[k]].gen > snapGeneration
     /\ workers[list[m]].live}}

Refreshed ==
  [n \in DOMAIN snapMap \cup Names(Changed) |->
     IF n \in Names(Changed)
     THEN workers[CHOOSE u \in Changed : NameOf[u] = n].stages
     ELSE snapMap[n]]

\* removeDeletedWorkersFromSnapshot looks the names of the snapshot up in
\* workers, whose keys are UIDs, and deletes as many as there are too many, in
\* the order of a Go map.
RemovesNone_mutant(m) == {m}

removeDeletedWorkersFromSnapshot(m) ==
  LET toDelete == Cardinality(DOMAIN m) - Cardinality(tree)
      missing == {n \in DOMAIN m : n \notin DOMAIN workers \/ ~workers[n].live}
  IN IF toDelete <= 0 THEN {m}
     ELSE {Without(m, D) : D \in {E \in SUBSET missing :
             Cardinality(E) = IF toDelete < Cardinality(missing) THEN toDelete
                              ELSE Cardinality(missing)}}

UpdateSnapshot ==
  /\ Lock
  /\ snapGeneration' = IF list = <<>> THEN snapGeneration ELSE workers[Head(list)].gen
  /\ \E m \in removeDeletedWorkersFromSnapshot(Refreshed) :
       LET updateAllLists == \/ DOMAIN Refreshed # DOMAIN snapMap
                             \/ Cardinality(DOMAIN Refreshed) > Cardinality(tree)
           names == IF updateAllLists THEN tree \cap DOMAIN m ELSE snapList
       IN /\ snapMap' = m
          /\ snapErr' = (Cardinality(names) # Cardinality(tree))
          /\ snapList' = IF snapErr' THEN tree \cap DOMAIN m ELSE names
  /\ UNCHANGED <<cache, tree, goroutines, informed, known>>

----------------------------------------------------------------------------
Next ==
  \/ \E s \in Stages, u \in Workers : AssumeStage(s, u) \/ AddStage(s, u)
  \/ AssumeStageUnlocks
  \/ \E b \in binding :
       BindReturns(b) \/ FinishBinding(b) \/ FinishBindingUnlocks(b) \/ ForgetStage(b)
  \/ \E s \in Stages : UpdateStage(s) \/ RemoveStage(s)
  \/ \E u \in Workers : AddWorker(u) \/ UpdateWorker(u) \/ RemoveWorker(u)
  \/ UpdateSnapshot

Spec == Init /\ [][Next]_vars

----------------------------------------------------------------------------
(* Properties *)

\* Every variable keeps its type; generations and the snapshot's generation
\* never exceed the last one given out.
TypeOK ==
  /\ DOMAIN stageStates \subseteq Stages /\ assumedStages \subseteq DOMAIN stageStates
  /\ \A s \in DOMAIN stageStates : stageStates[s] \in Workers
  /\ workers \in [DOMAIN workers ->
       [live : BOOLEAN, stages : SUBSET Stages, gen : 1..generation]]
  /\ list \in Seq(Workers) /\ generation \in 0..MaxGeneration
  /\ tree \subseteq Names(Workers) /\ snapList \subseteq Names(Workers)
  /\ DOMAIN snapMap \subseteq Names(Workers) /\ snapErr \in BOOLEAN
  /\ snapGeneration \in 0..generation
  /\ assuming \in [stage : Stages, worker : Workers] \cup {NotAssuming}
  /\ binding \subseteq [stage : Stages, worker : Workers, pc : BindingPC]
  /\ informed \in [Stages -> Workers \cup {NoWorker}] /\ known \subseteq Workers

\* An added stage is in the cache, on the worker its events name, whatever
\* assumptions and failed bindings of it are still on their way; an unknown
\* one is at most assumed. So UpdateStage and RemoveStage never find the
\* cache corrupted and exit, and the expiry loop finds every assumed stage.
NeverExits ==
  \A s \in Stages :
    /\ informed[s] # NoWorker =>
         s \in DOMAIN stageStates \ assumedStages /\ stageStates[s] = informed[s]
    /\ informed[s] = NoWorker => s \in assumedStages \/ s \notin DOMAIN stageStates

\* The two views of who runs where agree: a worker's stages are the stages
\* the cache has on it, and a worker stays in the map and in the list exactly
\* while it exists or still has stages.
WorkersMatchStages ==
  /\ \A u \in DOMAIN workers :
       /\ workers[u].stages = {s \in DOMAIN stageStates : stageStates[s] = u}
       /\ workers[u].live \/ workers[u].stages # {}
  /\ \A s \in DOMAIN stageStates : stageStates[s] \in DOMAIN workers
  /\ {u \in DOMAIN workers : workers[u].live} = known
  /\ {list[n] : n \in 1..Len(list)} = DOMAIN workers
  /\ tree = Names(known)

\* The list is in descending order of generation, which is what lets
\* UpdateSnapshot stop at the first worker that did not change.
ListIsByGeneration ==
  \A m, n \in 1..Len(list) : m < n => workers[list[m]].gen > workers[list[n]].gen

\* The incremental snapshot misses no change: after UpdateSnapshot it has
\* exactly the existing workers, each with its present stages, and it
\* reports no inconsistency. This needs workers whose name is their UID.
SnapshotIsCurrent ==
  [][UpdateSnapshot =>
       /\ ~snapErr'
       /\ snapList' = tree /\ DOMAIN snapMap' = tree
       /\ \A u \in known : snapMap'[NameOf[u]] = workers[u].stages]_vars

\* "Worker exists in workerTree but not in WorkerInfoMap, this should not
\* happen" (cache.go:504): after UpdateSnapshot every worker of the tree is
\* in the snapshot.
TreeIsInSnapshot ==
  [][UpdateSnapshot => tree \subseteq DOMAIN snapMap']_vars

=============================================================================
