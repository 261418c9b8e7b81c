---------------------------- MODULE MCScheduler ----------------------------
(* One stage that both of two workers can run, and a permit plugin that may *)
(* ask to wait.                                                             *)
EXTENDS Scheduler

MCRuntime == [s \in Stages |-> "javascript"]
MCRuntimes == [w \in Workers |-> {"javascript"}]
MCScore == [p \in {"DefaultScore"} |-> [w \in Workers |-> 1]]
MCRegistry ==
  [p \in {"PrioritySort", "WorkerRuntime", "DefaultScore", "Gate", "DefaultBinder"} |->
     {CASE p = "PrioritySort" -> "queueSort" [] p = "WorkerRuntime" -> "filter"
        [] p = "DefaultScore" -> "score" [] p = "Gate" -> "permit"
        [] p = "DefaultBinder" -> "bind"}]
MCProfile ==
  [point \in Points |->
     <<[name |-> CHOOSE p \in DOMAIN MCRegistry : point \in MCRegistry[p], weight |-> 1]>>]
=============================================================================
