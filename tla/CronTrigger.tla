---------------------------- MODULE CronTrigger ----------------------------
(***************************************************************************)
(* The cron trigger controller and one workflow it starts on a schedule    *)
(* (pkg/controller/crontrigger).                                           *)
(*                                                                         *)
(* The lister hands out the informer's own object and sync writes into it: *)
(* wf is that object and cj the object the sync of the moment works on,    *)
(* the same one as long as their versions agree. JobActive,                *)
(* StartingDeadlineSeconds and the history limits have the JSON name "-":  *)
(* they never reach the API server, so JobActive exists only in an         *)
(* informer's object and the others are always nil. Time is counted from   *)
(* the workflow's creation; the last tick stands for every later moment.   *)
(* One key has one worker at a time (module WorkQueue), so one worker and  *)
(* one flag stand for the queue and one time for its delayed entry.        *)
(***************************************************************************)
EXTENDS Naturals, Sequences, FiniteSets

CONSTANTS
  Params,     \* the schedules a workflow may have, its TriggerParam
  Times,      \* param -> its times, past Horizon too; none if it does not parse
  None,       \* no object, no time
  Horizon,    \* bound on the clock
  MaxLag,     \* bound on the versions on their way when the clock advances
  MaxTroubles \* bound on what users do, failing requests and restarts together

ASSUME CronAssumption ==
  /\ Horizon \in Nat /\ MaxLag \in Nat /\ MaxTroubles \in Nat
  /\ Times \in [Params -> SUBSET Nat] /\ None \notin Nat
  /\ \A p \in Params : Times[p] # {} =>
       \E t, u, v \in Times[p] : Horizon < t /\ t < u /\ u < v

VARIABLES
  now,      \* the clock
  api,      \* the workflow in the API server, or None
  versions, \* the number of its versions
  pending,  \* the versions of it on their way to the informer
  wf,       \* the informer's object, or None
  jobs,     \* the workflow's jobs in the API server; a job's UID is its index
  seen,     \* the state each job has in the informer
  queued,   \* the key is in the queue
  waitAt,   \* when the delaying queue adds it, or None
  pc,       \* where the worker is
  cj,       \* the object it works on
  at,       \* the time it computes with, and the one it starts a job for
  edits, faults

vars == <<now, api, versions, pending, wf, jobs, seen, queued, waitAt, pc, cj, at,
          edits, faults>>

Workflow(rv, active, param, last) ==
  [rv |-> rv, active |-> active, param |-> param, last |-> last]
\* A job as getJobFromTemplate makes it: its name is the workflow's and the
\* time. (For the properties: the time and the schedule it was computed from,
\* and whether the object read was older than the API server's.)
Job(t, made, param, stale) ==
  [time |-> t, state |-> "create", made |-> made, param |-> param, stale |-> stale]

Trouble == edits + faults < MaxTroubles

Init ==
  /\ now = 0 /\ versions = 1 /\ edits = 0 /\ faults = 0
  /\ \E p \in Params : api = Workflow(1, TRUE, p, 0)
  /\ pending = <<api>>
  /\ wf = None /\ cj = None /\ at = None
  /\ jobs = <<>> /\ seen = <<>>
  /\ queued = FALSE /\ waitAt = None /\ pc = "idle"

----------------------------------------------------------------------------
\* The schedule.

Parses(p) == Times[p] # {}
FollowsTable ==
  [p \in {q \in Params : Parses(q)} |->
    [t \in 0..2 * Horizon |->
      CHOOSE u \in Times[p] : u > t /\ \A v \in Times[p] : v > t => u <= v]]
Follows(p, t) == FollowsTable[p][t]

\* One slot too far when several were missed.
getMostRecentPastNow(p, earliest, t) ==
  LET t1 == Follows(p, earliest)  t2 == Follows(p, t1)
  IN IF t < t1 THEN None
     ELSE IF t < t2 THEN t1 ELSE t1 + ((t - t1) \div (t2 - t1) + 1) * (t2 - t1)

\* The latest time after earliest and not after t, taking every interval to be
\* as long as the first.
getMostRecentScheduleTime(p, earliest, t) ==
  LET t1 == Follows(p, earliest)  t2 == Follows(p, t1)
  IN IF t < t1 THEN None
     ELSE IF t < t2 THEN t1 ELSE t1 + ((t - t1) \div (t2 - t1)) * (t2 - t1)

\* Without StartingDeadlineSeconds; the earliest time is the last one
\* triggered, or the creation.
getNextScheduleTime(o, t) ==
  IF o.last > t THEN None ELSE getMostRecentScheduleTime(o.param, o.last, t)

\* When to sync again: the time after the most recent one.
nextScheduledTime(o, t) ==
  LET recent == getMostRecentScheduleTime(o.param, o.last, t)
  IN Follows(o.param, IF recent = None THEN o.last ELSE recent)

----------------------------------------------------------------------------
\* The queue.

Earlier(w, t) == IF w # None /\ w < t THEN w ELSE t

\* AddAfter of the time left until t, computed when the clock showed from: at
\* once if there is none. The entry of a key only ever moves earlier.
AddAfter(t, from) ==
  IF t <= from THEN queued' = TRUE /\ UNCHANGED waitAt
  ELSE waitAt' = Earlier(waitAt, now + (t - from)) /\ UNCHANGED queued

\* A change of the workflow or of one of its jobs: an inactive workflow is
\* only forgotten by the rate limiter.
enqueueController(o) ==
  /\ queued' = (queued \/ o.active)
  /\ UNCHANGED waitAt

\* A failed sync comes back rate limited, within the tick or after it.
AddRateLimited == \E d \in {0, 1} : waitAt' = Earlier(waitAt, now + d)

\* The delayed entry is due (at the last tick, every later one is).
WaitingLoop ==
  /\ waitAt # None /\ (waitAt <= now \/ now = Horizon)
  /\ queued' = TRUE /\ waitAt' = None
  /\ UNCHANGED <<now, api, versions, pending, wf, jobs, seen, pc, cj, at, edits, faults>>

----------------------------------------------------------------------------
\* The informers' handlers.

updateWorkflow(old, cur) ==
  IF old.param = cur.param THEN enqueueController(cur)
  ELSE IF Parses(cur.param) THEN AddAfter(nextScheduledTime(cur, now), now)
  ELSE UNCHANGED <<queued, waitAt>>

\* The informer takes the next version of the workflow and tells the handler.
WorkflowEvent ==
  /\ pending # <<>>
  /\ pending' = Tail(pending)
  /\ LET cur == Head(pending)
     IN IF cur = None
        THEN wf' = None /\ enqueueController(wf)
        ELSE /\ wf' = [rv |-> cur.rv, active |-> cur.active, param |-> cur.param,
                       last |-> cur.last, jobActive |-> {}]
             /\ IF wf = None THEN enqueueController(cur) ELSE updateWorkflow(wf, cur)
  /\ UNCHANGED <<now, api, versions, jobs, seen, pc, cj, at, edits, faults>>

\* addJob, updateJob, deleteJob: the job's workflow, if the lister has it.
JobEvent(j) ==
  /\ seen[j] # jobs[j].state
  /\ seen' = [seen EXCEPT ![j] = jobs[j].state]
  /\ IF wf = None THEN UNCHANGED <<queued, waitAt>> ELSE enqueueController(wf)
  /\ UNCHANGED <<now, api, versions, pending, wf, jobs, pc, cj, at, edits, faults>>

----------------------------------------------------------------------------
\* The worker.

\* The end of processNextWorkItem and the queue's Done.
Return == pc' = "idle" /\ cj' = None /\ at' = None
RequeueAt(o, t, from) == Return /\ AddAfter(nextScheduledTime(o, t), from)
\* The error is only logged.
FailForgets == Return /\ UNCHANGED <<waitAt, queued>>
Fail == Return /\ AddRateLimited /\ UNCHANGED queued

\* Every write to the object reaches the lister as long as it has that object.
WriteShared(o) == wf' = IF wf # None /\ wf.rv = o.rv THEN o ELSE wf

\* Without the LastTriggerTimestamp.
TriggeredUntimed(o, j) == [o EXCEPT !.jobActive = @ \cup {j}]
Triggered(o, j) == [o EXCEPT !.jobActive = @ \cup {j}, !.last = at.scheduled]

Known == {j \in 1..Len(seen) : seen[j] \in {"create", "success"}}
IsJobFinished(j) == seen[j] = "success"

\* It adds the finished jobs, of all jobs, to the object's active list.
getJobsToBeReconciled(o) ==
  [o EXCEPT !.jobActive = @ \cup {j \in Known : IsJobFinished(j)}]

\* The requests syncCronJob makes first: the workflow, because of a job that
\* is not in its list (the copy it gets has no list, so it is not used); and a
\* job of the list that the lister does not have.
Strangers(o) == {j \in Known : ~IsJobFinished(j) /\ j \notin o.jobActive}
Missing(o) == o.jobActive \ Known

\* A job that is gone is an error like any other here: the client makes no
\* ErrKeyNotFound of the server's answer.
RequestsFail(o) ==
  \/ Strangers(o) # {} /\ api = None
  \/ \E j \in Missing(o) : jobs[j].state = "gone"

\* The worker takes the key and sync reads the lister. What follows, up to
\* the first write to the API server, only reads.
Take == pc = "idle" /\ queued /\ queued' = FALSE
syncVars == <<now, api, versions, pending, jobs, seen, edits>>

syncNotFound ==
  /\ Take /\ wf = None
  /\ UNCHANGED <<syncVars, wf, waitAt, pc, cj, at, faults>>

\* One of the requests fails.
syncFails ==
  /\ Take /\ wf # None
  /\ wf' = getJobsToBeReconciled(wf)
  /\ \/ RequestsFail(wf') /\ UNCHANGED faults
     \/ /\ Strangers(wf') \cup Missing(wf') # {} /\ Trouble
        /\ faults' = faults + 1
  /\ AddRateLimited
  /\ UNCHANGED <<syncVars, pc, cj, at>>

\* There is no schedule, or no time of it to make up for.
syncNothingDue ==
  /\ Take /\ wf # None
  /\ wf' = getJobsToBeReconciled(wf)
  /\ ~RequestsFail(wf')
  /\ \/ ~Parses(wf.param) /\ UNCHANGED waitAt
     \/ /\ Parses(wf.param) /\ getNextScheduleTime(wf, now) = None
        /\ waitAt' = Earlier(waitAt, nextScheduledTime(wf, now))
  /\ UNCHANGED <<syncVars, pc, cj, at, faults>>

syncStarts ==
  /\ Take /\ wf # None /\ Parses(wf.param)
  /\ wf' = getJobsToBeReconciled(wf)
  /\ ~RequestsFail(wf')
  /\ getNextScheduleTime(wf, now) # None
  /\ pc' = "create" /\ cj' = wf'
  /\ at' = [now |-> now, scheduled |-> getNextScheduleTime(wf, now),
            stale |-> api = None \/ wf.rv # api.rv]
  /\ UNCHANGED <<syncVars, waitAt, faults>>

sync == syncNotFound \/ syncFails \/ syncNothingDue \/ syncStarts

\* The request may be refused, and its answer may be lost after the server
\* has made the job.
CreateJob(outcome) ==
  /\ pc = "create"
  /\ faults' = IF outcome = "ok" THEN faults ELSE faults + 1
  /\ edits + faults' <= MaxTroubles
  /\ IF outcome = "refused" THEN UNCHANGED <<jobs, seen>>
     ELSE /\ jobs' = Append(jobs, Job(at.scheduled, at.now, cj.param, at.stale))
          /\ seen' = Append(seen, "none")
  /\ IF outcome = "ok"
     THEN /\ cj' = Triggered(cj, Len(jobs'))
          /\ WriteShared(cj')
          /\ pc' = "update" /\ UNCHANGED <<at, queued, waitAt>>
     ELSE Fail /\ UNCHANGED wf
  /\ UNCHANGED <<now, api, versions, pending, edits>>

\* The whole object as the worker has it replaces the server's, whatever its
\* version.
UpdateStatus(outcome) ==
  /\ pc = "update"
  /\ faults' = IF outcome = "ok" \/ api = None THEN faults ELSE faults + 1
  /\ edits + faults' <= MaxTroubles
  /\ IF api = None \/ outcome = "refused" THEN UNCHANGED <<api, versions, pending>>
     ELSE /\ versions' = versions + 1
          /\ api' = Workflow(versions', cj.active, cj.param, cj.last)
          /\ pending' = Append(pending, api')
  /\ IF api # None /\ outcome = "ok" THEN RequeueAt(cj, at.now, at.now) ELSE Fail
  /\ UNCHANGED <<now, wf, jobs, seen, edits>>

----------------------------------------------------------------------------
\* The rest of the system.

Tick ==
  /\ now < Horizon /\ Len(pending) <= MaxLag
  /\ now' = now + 1
  /\ UNCHANGED <<api, versions, pending, wf, jobs, seen, queued, waitAt, pc, cj, at,
                 edits, faults>>

\* A user updates the workflow through the API; an operator removes it from etcd
\* (the API's own DELETE panics, module Api).
EditWorkflow(active, param) ==
  /\ api # None /\ Trouble
  /\ <<active, param>> # <<api.active, api.param>>
  /\ edits' = edits + 1 /\ versions' = versions + 1
  /\ api' = Workflow(versions', active, param, api.last)
  /\ pending' = Append(pending, api')
  /\ UNCHANGED <<now, wf, jobs, seen, queued, waitAt, pc, cj, at, faults>>

DeleteWorkflow ==
  /\ api # None /\ Trouble
  /\ edits' = edits + 1
  /\ api' = None /\ pending' = Append(pending, None)
  /\ UNCHANGED <<now, versions, wf, jobs, seen, queued, waitAt, pc, cj, at, faults>>

\* The job controller finishes a job; an operator removes one.
FinishJob(j) ==
  /\ jobs[j].state = "create"
  /\ jobs' = [jobs EXCEPT ![j].state = "success"]
  /\ UNCHANGED <<now, api, versions, pending, wf, seen, queued, waitAt, pc, cj, at,
                 edits, faults>>

DeleteJob(j) ==
  /\ jobs[j].state # "gone" /\ Trouble
  /\ edits' = edits + 1
  /\ jobs' = [jobs EXCEPT ![j].state = "gone"]
  /\ UNCHANGED <<now, api, versions, pending, wf, seen, queued, waitAt, pc, cj, at,
                 faults>>

\* The controller stops and starts again: its informers list anew.
Restart ==
  /\ Trouble
  /\ faults' = faults + 1
  /\ pending' = IF api = None THEN <<>> ELSE <<api>>
  /\ seen' = [j \in 1..Len(jobs) |-> IF jobs[j].state = "gone" THEN "gone" ELSE "none"]
  /\ wf' = None /\ queued' = FALSE /\ waitAt' = None
  /\ pc' = "idle" /\ cj' = None /\ at' = None
  /\ UNCHANGED <<now, api, versions, jobs, edits>>

Outcomes == {"ok", "refused", "lost"}
Requests == \E outcome \in Outcomes : CreateJob(outcome) \/ UpdateStatus(outcome)
JobEvents == \E j \in 1..Len(jobs) : JobEvent(j)

Next ==
  \/ WaitingLoop \/ WorkflowEvent \/ JobEvents
  \/ sync \/ Requests
  \/ Tick \/ DeleteWorkflow \/ Restart
  \/ \E active \in BOOLEAN, param \in Params : EditWorkflow(active, param)
  \/ \E j \in 1..Len(jobs) : FinishJob(j) \/ DeleteJob(j)

Spec == Init /\ [][Next]_vars

\* The worker, the delaying queue, the informers and time go on.
FairSpec == Spec /\ WF_vars(WaitingLoop) /\ WF_vars(WorkflowEvent) /\ WF_vars(JobEvents)
                 /\ WF_vars(sync) /\ WF_vars(Requests) /\ WF_vars(Tick)

----------------------------------------------------------------------------
(***************************************************************************)
(* A time is triggered a second time only if a request or the process      *)
(* failed, or a sync since the first (this one, or one whose update undid  *)
(* the first one's) read an object older than the API server's: between    *)
(* its own status update and the informer's news of it, or around an       *)
(* edit. (The comment in syncCronJob has the job's name as a lock against  *)
(* just that; but the server stores a job under a UID it makes up, so two  *)
(* jobs of one name are no conflict.)                                      *)
(***************************************************************************)
TriggeredOnce ==
  \A i, j \in 1..Len(jobs) :
    i < j /\ jobs[i].time = jobs[j].time =>
      faults > 0 \/ \E k \in (i + 1)..j : jobs[k].stale

(***************************************************************************)
(* A job is never for a time to come, and when the schedule's intervals    *)
(* are equal it is for the latest of its times: of the times the           *)
(* controller missed, getNextScheduleTime makes up for the last only.      *)
(***************************************************************************)
Regular(p) == \A t \in Times[p] : Follows(p, 0) = t \/ t - Follows(p, 0) \in Times[p]
JobIsForTheLatestTime ==
  \A j \in 1..Len(jobs) :
    /\ jobs[j].time <= jobs[j].made
    /\ Regular(jobs[j].param) =>
         /\ jobs[j].time \in Times[jobs[j].param]
         /\ \A t \in Times[jobs[j].param] : t <= jobs[j].made => t <= jobs[j].time

(***************************************************************************)
(* A time of an active workflow that has come is triggered in the end, or  *)
(* made up for by a later one, whatever requests fail and whenever the     *)
(* controller restarts; but not if the active list names a job that is   *)
(* no longer stored: then every sync of this object fails on the request   *)
(* for the job (the comment there says that the job leaves the list).      *)
(***************************************************************************)
Overdue == /\ api # None /\ api.active
           /\ \E t \in Times[api.param] :
                t <= now /\ \A j \in 1..Len(jobs) : jobs[j].time < t
ListsDeletedJob == wf # None /\ \E j \in wf.jobActive : jobs[j].state = "gone"
TimeIsTriggered == Overdue ~> (~Overdue \/ ListsDeletedJob)
=============================================================================
