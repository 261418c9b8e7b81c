----------------------------- MODULE Framework -----------------------------
(***************************************************************************)
(* The scheduling framework without its state: which profiles it accepts   *)
(* (pkg/scheduler/framework/runtime/framework.go) and how the filter and   *)
(* score phases choose the worker of a stage (scheduler.go,                *)
(* schedule_one.go). A plugin is a name; the registry says at which        *)
(* extension points its type can serve. What a score plugin answers, after *)
(* NormalizeScore, is a constant. The nominator files every nomination     *)
(* under the empty worker name, so that no stage is nominated for a worker *)
(* and the filters run once.                                               *)
(***************************************************************************)
EXTENDS Integers, Sequences, FiniteSetsExt

CONSTANTS
  Stages, Workers,
  Runtime,         \* stage -> the runtime it asks for
  Runtimes,        \* worker -> the runtimes it offers
  Profile,         \* extension point -> sequence of [name, weight]
  Registry,        \* plugin -> the extension points it implements
  Score,           \* score plugin -> worker -> its normalized score
  MaxTotalScore    \* math.MaxInt64 in the code

MinWorkerScore == 0
MaxWorkerScore == 100

Points == {"queueSort", "filter", "score", "permit", "bind"}
Names(point) == {Profile[point][i].name : i \in DOMAIN Profile[point]}

----------------------------------------------------------------------------
(* NewFramework: the profile is checked once, when the scheduler starts *)

\* updatePluginList: every plugin named exists, implements the extension
\* point and is named once.
updatePluginList(point) ==
  /\ \A p \in Names(point) : p \in DOMAIN Registry /\ point \in Registry[p]
  /\ Cardinality(Names(point)) = Len(Profile[point])

\* getScoreWeights: the first entry of a plugin counts, and a weight of zero
\* is one.
scorePluginWeight ==
  [p \in Names("score") |->
     LET i == Min({j \in DOMAIN Profile["score"] : Profile["score"][j].name = p})
         weight == Profile["score"][i].weight
     IN IF weight = 0 THEN 1 ELSE weight]

\* The test in the loop keeps the sum of the products at most MaxTotalScore.
getScoreWeights ==
  MapThenSumSet(LAMBDA p : scorePluginWeight[p] * MaxWorkerScore, Names("score"))
    <= MaxTotalScore

NewFramework ==
  /\ \A point \in Points : updatePluginList(point)
  /\ Len(Profile["queueSort"]) = 1
  /\ Len(Profile["bind"]) > 0
  /\ getScoreWeights

ASSUME FrameworkAssumption ==
  /\ Runtimes \in [Workers -> SUBSET STRING] /\ Runtime \in [Stages -> STRING]
  /\ Score \in [Names("score") -> [Workers -> Int]]
  /\ NewFramework

----------------------------------------------------------------------------
(* One attempt: filter, score, select *)

\* The WorkerRuntime plugin. A stage without a runtime fits no worker.
Fits(s, w) == Runtime[s] # "" /\ Runtime[s] \in Runtimes[w]

RunFilterPlugins(s, w) == "WorkerRuntime" \in Names("filter") => Fits(s, w)

findWorkersThatPassFilters(s, snapshot) == {w \in snapshot : RunFilterPlugins(s, w)}

\* RunScorePlugins: one score out of range fails the attempt.
ScoresInRange(ws) ==
  \A p \in Names("score"), w \in ws : Score[p][w] \in MinWorkerScore..MaxWorkerScore

RunScorePlugins(w) ==
  MapThenSumSet(LAMBDA p : Score[p][w] * scorePluginWeight[p], Names("score"))

\* Without a score plugin every worker scores one.
prioritizeWorkers ==
  [w \in Workers |-> IF Names("score") = {} THEN 1 ELSE RunScorePlugins(w)]

\* The reservoir sampling can pick any worker of the highest score.
selectHost(ws) == {w \in ws : \A v \in ws : prioritizeWorkers[v] <= prioritizeWorkers[w]}

\* scheduleStage: the workers an attempt may end with. None means that it
\* fails: no worker known, none feasible, or an invalid score.
scheduleStage(s, snapshot) ==
  LET feasible == findWorkersThatPassFilters(s, snapshot)
  IN IF Cardinality(feasible) <= 1 THEN feasible
     ELSE IF ScoresInRange(feasible) THEN selectHost(feasible) ELSE {}

----------------------------------------------------------------------------
(* RunPermitPlugins: what the plugins can answer together. The default one *)
(* always permits; any other may also ask to wait, or reject.              *)

permitPlugins == Names("permit") \ {"DefaultPermit"}
RunPermitPlugins ==
  {[status |-> "pass", pending |-> {}]}
    \cup [status : {"wait"}, pending : (SUBSET permitPlugins) \ {{}}]
    \cup (IF permitPlugins = {} THEN {} ELSE [status : {"reject"}, pending : {{}}])
=============================================================================
