-------------------------- MODULE CronTriggerProofs --------------------------
(***************************************************************************)
(* Proofs about CronTrigger, for every set of schedules and any number of   *)
(* edits, failures and restarts: what the arithmetic on schedules computes, *)
(* and when a time is triggered twice.                                     *)
(***************************************************************************)
EXTENDS CronTrigger, TLAPS, WellFoundedInduction

----------------------------------------------------------------------------
(* Numbers *)

Below == {ss \in Nat \X Nat : ss[1] < ss[2]}

LEMMA BelowIsWellFounded == IsWellFoundedOn(Below, Nat)
  <1>1. OpToRel(<, Nat) = Below
    BY Zenon DEF OpToRel, Below
  <1> QED BY <1>1, NatLessThanWellFounded, Zenon

\* A set of numbers that is not empty has a least one.
LEMMA Least ==
  ASSUME NEW T, T \subseteq Nat, T # {}
  PROVE  \E m \in T : \A k \in T : m <= k
  <1>1. PICK m \in T : \A k \in T : <<k, m>> \notin Below
    BY BelowIsWellFounded, WFMin
  <1>2. ASSUME NEW k \in T PROVE m <= k
    <2>1. <<k, m>> \notin Below /\ <<k, m>> \in Nat \X Nat
      BY <1>1
    <2> QED BY <2>1 DEF Below
  <1> QED BY <1>2

----------------------------------------------------------------------------
(* The schedule *)

\* Follows is the schedule's next time: the cron library's Next.
LEMMA FollowsIs ==
  ASSUME NEW p \in Params, Parses(p), NEW t \in 0..Horizon
  PROVE  /\ Follows(p, t) \in Times[p] /\ Follows(p, t) \in Nat /\ Follows(p, t) > t
         /\ \A v \in Times[p] : v > t => Follows(p, t) <= v
  <1> DEFINE Later == {u \in Times[p] : u > t}
  <1>0. Horizon \in Nat /\ Times[p] \subseteq Nat /\ t \in Nat
    BY CronAssumption
  <1>1. Later \subseteq Nat /\ Later # {}
    <2>1. PICK u \in Times[p] : Horizon < u
      BY CronAssumption DEF Parses
    <2>2. u > t
      BY <1>0, <2>1
    <2> QED BY <1>0, <2>2
  <1>2. PICK m \in Later : \A k \in Later : m <= k
    BY <1>1, Least
  <1>3. \E u \in Times[p] : u > t /\ \A v \in Times[p] : v > t => u <= v
    BY <1>2
  <1>4. Follows(p, t) = CHOOSE u \in Times[p] : u > t /\ \A v \in Times[p] : v > t => u <= v
    <2>1. t \in 0..2 * Horizon
      BY <1>0
    <2> QED BY <2>1 DEF Follows, FollowsTable
  <1> QED BY <1>0, <1>3, <1>4

\* A regular schedule's times are at least its first one apart.
LEMMA RegularGap ==
  ASSUME NEW p \in Params, Parses(p), Regular(p), NEW u \in Times[p], NEW v \in Times[p], u < v,
         u > 0
  PROVE  v - u >= Follows(p, 0)
  <1> DEFINE d == Follows(p, 0)
             Close == {x \in Times[p] : x > 0 /\ \E y \in Times[p] : x < y /\ ~(y - x >= d)}
  <1>0. /\ Horizon \in Nat /\ Times[p] \subseteq Nat /\ 0 \in 0..Horizon
    BY CronAssumption
  <1>1. d \in Times[p] /\ d \in Nat /\ d > 0 /\ \A x \in Times[p] : x > 0 => d <= x
    BY <1>0, FollowsIs
  <1>2. \A t \in Times[p] : d = t \/ t - d \in Times[p]
    BY DEF Regular
  <1> HIDE DEF d
  <1>3. Close = {}
    <2> SUFFICES ASSUME Close # {} PROVE FALSE
      OBVIOUS
    <2>1. Close \subseteq Nat
      BY <1>0
    <2>2. PICK x \in Close : \A k \in Close : x <= k
      BY <2>1, Least
    <2>3. x \in Times[p] /\ x > 0
      OBVIOUS
    <2>4. PICK y \in Times[p] : x < y /\ ~(y - x >= d)
      OBVIOUS
    <2> HIDE DEF Close
    <2>5. x \in Nat /\ y \in Nat /\ d <= x /\ y # d /\ y - d \in Times[p]
      BY <1>0, <1>1, <1>2, <2>3, <2>4
    <2>6. CASE x = d
      BY <1>0, <1>1, <2>4, <2>5, <2>6
    <2>7. CASE x # d
      <3>1. x - d \in Times[p] /\ x - d > 0
        BY <1>0, <1>1, <1>2, <2>3, <2>5, <2>7
      <3>2. x - d < y - d /\ ~((y - d) - (x - d) >= d)
        BY <1>1, <2>4, <2>5
      <3>3. x - d \in Close
        BY <2>5, <3>1, <3>2 DEF Close
      <3> QED BY <1>1, <2>2, <2>5, <3>3
    <2> QED BY <2>6, <2>7
  <1> QED BY <1>3 DEF d
\* The next time of a regular schedule is its first time later.
LEMMA RegularFollows ==
  ASSUME NEW p \in Params, Parses(p), Regular(p), NEW t \in Times[p], t \in 1..Horizon
  PROVE  Follows(p, t) = t + Follows(p, 0)
  <1> DEFINE d == Follows(p, 0)
             u == Follows(p, t)
  <1>0. Horizon \in Nat /\ Times[p] \subseteq Nat /\ 0 \in 0..Horizon /\ t \in 0..Horizon
    BY CronAssumption
  <1>1. d \in Times[p] /\ d \in Nat /\ d > 0 /\ \A x \in Times[p] : x > 0 => d <= x
    BY <1>0, FollowsIs
  <1>2. u \in Times[p] /\ u \in Nat /\ u > t /\ \A v \in Times[p] : v > t => u <= v
    BY <1>0, FollowsIs
  <1>3. d = u \/ u - d \in Times[p]
    BY <1>2 DEF Regular
  <1>4. u - t >= d
    BY <1>2, RegularGap
  <1> HIDE DEF d, u
  <1>5. u - d <= t
    BY <1>0, <1>1, <1>2, <1>3
  <1> QED BY <1>1, <1>2, <1>4, <1>5 DEF d, u

\* So are the times after it, up to the bound.
LEMMA RegularTimes ==
  ASSUME NEW p \in Params, Parses(p), Regular(p), NEW t \in Times[p], t > 0,
         NEW k \in Nat, t + k * Follows(p, 0) <= Horizon
  PROVE  t + k * Follows(p, 0) \in Times[p]
  <1> DEFINE d == Follows(p, 0)
             Off == {n \in Nat : t + n * d <= Horizon /\ t + n * d \notin Times[p]}
  <1>0. Horizon \in Nat /\ Times[p] \subseteq Nat /\ 0 \in 0..Horizon /\ t \in Nat
    BY CronAssumption
  <1>1. d \in Nat /\ d > 0
    BY <1>0, FollowsIs
  <1> HIDE DEF d
  <1> SUFFICES ASSUME Off # {} PROVE FALSE
    BY DEF d
  <1>2. PICK n \in Off : \A m \in Off : n <= m
    BY Least
  <1>3. n \in Nat /\ t + n * d <= Horizon /\ t + n * d \notin Times[p]
    OBVIOUS
  <1>4. n # 0
    BY <1>0, <1>1, <1>3
  <1>5. PICK m \in Nat : n = m + 1
    BY <1>3, <1>4
  <1>6. m * d \in Nat /\ n * d = m * d + d
    BY <1>1, <1>5
  <1>7. t + m * d \in 1..Horizon
    BY <1>0, <1>1, <1>3, <1>6
  <1>8. t + m * d \in Times[p]
    <2>1. m \notin Off
      BY <1>2, <1>5
    <2> QED BY <1>7, <2>1
  <1>9. Follows(p, t + m * d) = t + m * d + d
    BY <1>7, <1>8, RegularFollows DEF d
  <1>10. Follows(p, t + m * d) \in Times[p]
    BY <1>0, <1>7, FollowsIs
  <1>11. t + n * d = t + m * d + d
    BY <1>0, <1>1, <1>6
  <1> QED BY <1>3, <1>9, <1>10, <1>11

\* Division, as getMostRecentScheduleTime uses it.
LEMMA Division ==
  ASSUME NEW n \in Nat, NEW d \in Nat, d > 0
  PROVE  n \div d \in Nat /\ (n \div d) * d <= n /\ n < (n \div d) * d + d
  <1>1. n \div d \in Int /\ n \div d >= 0
    OBVIOUS
  <1>2. (n \div d) * d <= n
    OBVIOUS
  <1>3. n < (n \div d) * d + d
    OBVIOUS
  <1> QED BY <1>1, <1>2, <1>3

\* What getMostRecentScheduleTime finds: a time after earliest, not to come,
\* and of a regular schedule the latest.
Latest(p, s, t) ==
  /\ s <= t
  /\ Regular(p) => s \in Times[p] /\ \A u \in Times[p] : u <= t => u <= s

LEMMA MostRecentIsLatest ==
  ASSUME NEW p \in Params, Parses(p), NEW earliest \in 0..Horizon, NEW t \in 0..Horizon,
         getMostRecentScheduleTime(p, earliest, t) # None
  PROVE  LET s == getMostRecentScheduleTime(p, earliest, t)
         IN s \in 0..Horizon /\ s > earliest /\ Latest(p, s, t)
  <1> DEFINE s == getMostRecentScheduleTime(p, earliest, t)
             t1 == Follows(p, earliest)
             t2 == Follows(p, t1)
  <1>0. Horizon \in Nat /\ Times[p] \subseteq Nat /\ 0 \in 0..Horizon /\ t \in Nat /\ earliest \in Nat
    BY CronAssumption
  <1>1. /\ t1 \in Times[p] /\ t1 \in Nat /\ t1 > earliest
        /\ \A v \in Times[p] : v > earliest => t1 <= v
    BY FollowsIs
  <1>2. t >= t1
    BY <1>0, <1>1 DEF getMostRecentScheduleTime
  <1>3. t1 \in 0..Horizon /\ t1 > 0
    BY <1>0, <1>1, <1>2
  <1>4. t2 \in Times[p] /\ t2 \in Nat /\ t2 > t1 /\ \A v \in Times[p] : v > t1 => t2 <= v
    BY <1>3, FollowsIs
  <1>5. s = IF t < t2 THEN t1 ELSE t1 + ((t - t1) \div (t2 - t1)) * (t2 - t1)
    BY <1>0, <1>1, <1>2 DEF getMostRecentScheduleTime
  <1> HIDE DEF s, t1, t2
  <1>6. CASE t < t2
    <2>1. s = t1
      BY <1>5, <1>6
    <2>2. \A u \in Times[p] : u <= t => u <= t1
      BY <1>0, <1>1, <1>4, <1>6
    <2> QED BY <1>1, <1>2, <1>3, <2>1, <2>2 DEF Latest, s
  <1>7. CASE ~(t < t2)
    <2> DEFINE n == t - t1
               d == t2 - t1
               k == n \div d
    <2>1. n \in Nat /\ d \in Nat /\ d > 0
      BY <1>0, <1>1, <1>2, <1>4
    <2>2. s = t1 + k * d
      BY <1>5, <1>7
    <2> HIDE DEF n, d
    <2>3. k \in Nat /\ k * d <= n /\ n < k * d + d
      BY <2>1, Division
    <2> HIDE DEF k
    <2>4. k * d \in Nat
      BY <2>1, <2>3
    <2>5. s \in Nat /\ s >= t1 /\ s <= t /\ t < s + d
      BY <1>0, <1>1, <1>2, <2>1, <2>2, <2>3, <2>4 DEF n
    <2>6. ASSUME Regular(p) PROVE s \in Times[p] /\ \A u \in Times[p] : u <= t => u <= s
      <3>1. d = Follows(p, 0)
        <4>1. t2 = t1 + Follows(p, 0)
          BY <1>1, <1>3, <2>6, RegularFollows DEF t2
        <4>2. Follows(p, 0) \in Nat
          BY <1>0, FollowsIs
        <4> QED BY <1>1, <4>1, <4>2 DEF d
      <3>2. s \in Times[p]
        <4>1. t1 + k * Follows(p, 0) <= Horizon
          BY <1>0, <2>2, <2>5, <3>1
        <4> QED BY <1>1, <1>3, <2>2, <2>3, <2>6, <3>1, <4>1, RegularTimes
      <3>3. ASSUME NEW u \in Times[p], u <= t, ~(u <= s) PROVE FALSE
        <4>1. u \in Nat /\ s < u /\ s > 0
          BY <1>0, <1>1, <1>3, <2>5, <3>3
        <4>2. u - s >= d
          BY <2>6, <3>1, <3>2, <4>1, RegularGap
        <4> QED BY <1>0, <2>1, <2>5, <3>3, <4>1, <4>2
      <3> QED BY <3>2, <3>3
    <2>7. s \in 0..Horizon /\ s > earliest
      BY <1>0, <1>1, <2>5
    <2> QED BY <2>5, <2>6, <2>7 DEF Latest, s
  <1> QED BY <1>6, <1>7

----------------------------------------------------------------------------
(* The inductive invariant *)

Stored == [rv : Nat, active : BOOLEAN, param : Params, last : 0..Horizon]
Shared == [rv : Nat, active : BOOLEAN, param : Params, last : 0..Horizon, jobActive : SUBSET Nat]
Moment == [now : 0..Horizon, scheduled : 0..Horizon, stale : BOOLEAN]
SeenStates == {"none", "create", "success", "gone"}
JobRecord == [time : 0..Horizon, state : {"create", "success", "gone"}, made : 0..Horizon,
              param : Params, stale : BOOLEAN]

\* The types of what the proofs are about.
CronTypeOK ==
  /\ now \in 0..Horizon /\ versions \in Nat /\ faults \in Nat /\ edits \in Nat
  /\ api \in Stored \cup {None} /\ pending \in Seq(Stored \cup {None})
  /\ wf \in Shared \cup {None}
  /\ jobs \in Seq(JobRecord) /\ seen \in Seq(SeenStates) /\ Len(seen) = Len(jobs)
  /\ pc \in {"idle", "create", "update"}
  /\ pc # "idle" => cj \in Shared /\ at \in Moment

\* No object has a version that the API server has yet to make.
VersionInv ==
  /\ api # None => api.rv <= versions
  /\ wf # None => wf.rv <= versions
  /\ pc # "idle" => cj.rv <= versions
  /\ \A i \in 1..Len(pending) : pending[i] # None => pending[i].rv <= versions

\* An object of the API server's version has triggered what the server's has.
LastInv ==
  api # None =>
    /\ wf # None /\ wf.rv = api.rv => api.last <= wf.last
    /\ pc = "create" /\ cj.rv = api.rv => api.last <= cj.last
    /\ \A i \in 1..Len(pending) :
         pending[i] # None /\ pending[i].rv = api.rv => api.last <= pending[i].last

\* The job a sync is about to create, and the jobs there are, are for the
\* latest time.
LatestInv ==
  /\ pc = "create" => cj.last < at.scheduled /\ Latest(cj.param, at.scheduled, at.now)
  /\ \A j \in 1..Len(jobs) : Latest(jobs[j].param, jobs[j].time, jobs[j].made)

\* No sync after job i read an old object.
FreshSince(i) == \A k \in (i + 1)..Len(jobs) : ~jobs[k].stale

\* The times triggered since the last stale sync are behind the API server's
\* timestamp, or the one about to be written there.
BehindInv ==
  faults = 0 => \A i \in 1..Len(jobs) : FreshSince(i) =>
    /\ pc # "update" /\ api # None => jobs[i].time <= api.last
    /\ pc = "update" => jobs[i].time <= cj.last
    /\ pc = "create" /\ ~at.stale => jobs[i].time < at.scheduled

CronInv == CronTypeOK /\ VersionInv /\ LastInv /\ LatestInv /\ BehindInv /\ TriggeredOnce

----------------------------------------------------------------------------
(* The steps *)

\* What sync writes into the object, besides the list of active jobs.
LEMMA Reconciled ==
  ASSUME CronTypeOK, NEW o \in Shared
  PROVE  LET r == getJobsToBeReconciled(o)
         IN r \in Shared /\ r.rv = o.rv /\ r.param = o.param /\ r.last = o.last
  <1>1. Known \subseteq Nat
    BY DEF Known, CronTypeOK
  <1> QED BY <1>1 DEF getJobsToBeReconciled, Shared

LEMMA TriggeredIs ==
  ASSUME at \in Moment, NEW o \in Shared, NEW j \in Nat
  PROVE  LET r == Triggered(o, j)
         IN r \in Shared /\ r.rv = o.rv /\ r.param = o.param /\ r.last = at.scheduled
  BY DEF Triggered, Shared, Moment

\* The time a sync starts a job for.
LEMMA NextScheduleTimeIs ==
  ASSUME CronTypeOK, wf # None, Parses(wf.param), getNextScheduleTime(wf, now) # None
  PROVE  LET s == getNextScheduleTime(wf, now)
         IN s \in 0..Horizon /\ s > wf.last /\ Latest(wf.param, s, now)
  <1>1. wf.param \in Params /\ wf.last \in 0..Horizon /\ now \in 0..Horizon
    BY DEF CronTypeOK, Shared
  <1>2. getNextScheduleTime(wf, now) = getMostRecentScheduleTime(wf.param, wf.last, now)
    BY DEF getNextScheduleTime
  <1> QED BY <1>1, <1>2, MostRecentIsLatest

\* A list after a write, and after the informer has taken its head.
LEMMA ListAfter ==
  ASSUME NEW S, NEW seq \in Seq(S)
  PROVE  /\ \A x \in S : /\ Append(seq, x) \in Seq(S) /\ Len(Append(seq, x)) = Len(seq) + 1
                         /\ Append(seq, x)[Len(seq) + 1] = x
                         /\ \A i \in 1..Len(seq) : Append(seq, x)[i] = seq[i]
         /\ seq # <<>> => /\ Tail(seq) \in Seq(S) /\ Head(seq) = seq[1] /\ 1 \in 1..Len(seq)
                          /\ Head(seq) \in S
                          /\ \A i \in 1..Len(Tail(seq)) :
                               i + 1 \in 1..Len(seq) /\ Tail(seq)[i] = seq[i + 1]
  OBVIOUS

LEMMA ListWith ==
  ASSUME NEW S, NEW seq \in Seq(S), NEW i \in 1..Len(seq), NEW x \in S
  PROVE  /\ [seq EXCEPT ![i] = x] \in Seq(S) /\ Len([seq EXCEPT ![i] = x]) = Len(seq)
         /\ \A j \in 1..Len(seq) : [seq EXCEPT ![i] = x][j] = IF i = j THEN x ELSE seq[j]
  OBVIOUS

\* Every step keeps the types.
LEMMA CronTypeStep == ASSUME CronTypeOK, Next PROVE CronTypeOK'
  <1> USE CronAssumption DEF CronTypeOK
  <1>1. CASE WaitingLoop \/ syncNotFound
    BY <1>1 DEF WaitingLoop, syncNotFound, syncVars
  <1>2. CASE WorkflowEvent
    <2>1. Head(pending) \in Stored \cup {None} /\ pending' \in Seq(Stored \cup {None})
      BY <1>2, ListAfter DEF WorkflowEvent
    <2>2. wf' \in Shared \cup {None}
      BY <1>2, <2>1 DEF WorkflowEvent, Stored, Shared
    <2> QED BY <1>2, <2>1, <2>2 DEF WorkflowEvent
  <1>3. ASSUME NEW j \in 1..Len(jobs), JobEvent(j) PROVE CronTypeOK'
    <2>1. jobs[j] \in JobRecord
      OBVIOUS
    <2>2. jobs[j].state \in SeenStates
      BY <2>1 DEF JobRecord, SeenStates
    <2>3. [seen EXCEPT ![j] = jobs[j].state] \in Seq(SeenStates) /\ Len([seen EXCEPT ![j] = jobs[j].state]) = Len(seen)
      BY <2>2, ListWith
    <2> QED BY <1>3, <2>3 DEF JobEvent
  <1>4. CASE syncFails \/ syncNothingDue
    <2>1. wf' \in Shared
      BY <1>4, Reconciled DEF syncFails, syncNothingDue
    <2>2. faults' \in Nat
      BY <1>4 DEF syncFails, syncNothingDue
    <2> QED BY <1>4, <2>1, <2>2 DEF syncFails, syncNothingDue, syncVars
  <1>5. CASE syncStarts
    <2>1. wf' \in Shared /\ cj' \in Shared /\ pc' = "create"
      BY <1>5, Reconciled DEF syncStarts
    <2>2. getNextScheduleTime(wf, now) \in 0..Horizon
      BY <1>5, NextScheduleTimeIs DEF syncStarts
    <2>3. at' \in Moment
      BY <1>5, <2>2 DEF syncStarts, Moment
    <2> QED BY <1>5, <2>1, <2>3 DEF syncStarts, syncVars
  <1>6. ASSUME NEW outcome \in Outcomes, CreateJob(outcome) PROVE CronTypeOK'
    <2>1. pc = "create" /\ cj \in Shared /\ at \in Moment
      BY <1>6 DEF CreateJob
    <2>2. Job(at.scheduled, at.now, cj.param, at.stale) \in JobRecord
      BY <2>1 DEF Job, JobRecord, Shared, Moment
    <2>3. jobs' \in Seq(JobRecord) /\ seen' \in Seq(SeenStates) /\ Len(seen') = Len(jobs')
      <3> DEFINE job == Job(at.scheduled, at.now, cj.param, at.stale)
      <3>1. \/ jobs' = jobs /\ seen' = seen
            \/ jobs' = Append(jobs, job) /\ seen' = Append(seen, "none")
        BY <1>6 DEF CreateJob
      <3>2. job \in JobRecord /\ "none" \in SeenStates
        BY <2>2 DEF SeenStates
      <3> HIDE DEF job
      <3>3. /\ Append(jobs, job) \in Seq(JobRecord) /\ Len(Append(jobs, job)) = Len(jobs) + 1
            /\ Append(seen, "none") \in Seq(SeenStates) /\ Len(Append(seen, "none")) = Len(seen) + 1
        BY <3>2, ListAfter
      <3> QED BY <3>1, <3>3
    <2>4. faults' \in Nat
      BY <1>6 DEF CreateJob
    <2>5. CASE outcome = "ok"
      <3>1. cj' = Triggered(cj, Len(jobs')) /\ pc' = "update" /\ at' = at /\ WriteShared(cj')
        BY <1>6, <2>5 DEF CreateJob
      <3>2. cj' \in Shared
        BY <2>1, <2>3, <3>1, TriggeredIs
      <3>3. wf' \in Shared \cup {None}
        BY <3>1, <3>2 DEF WriteShared
      <3> QED BY <1>6, <2>1, <2>3, <2>4, <3>1, <3>2, <3>3 DEF CreateJob
    <2>6. CASE outcome # "ok"
      BY <1>6, <2>3, <2>4, <2>6 DEF CreateJob, Fail, Return
    <2> QED BY <2>5, <2>6
  <1>7. ASSUME NEW outcome \in Outcomes, UpdateStatus(outcome) PROVE CronTypeOK'
    <2>1. pc = "update" /\ cj \in Shared /\ pc' = "idle"
      BY <1>7 DEF UpdateStatus, RequeueAt, Fail, Return
    <2>2. Workflow(versions + 1, cj.active, cj.param, cj.last) \in Stored
      BY <2>1 DEF Workflow, Stored, Shared
    <2>3. faults' \in Nat /\ versions' \in Nat /\ api' \in Stored \cup {None}
      BY <1>7, <2>2 DEF UpdateStatus
    <2>4. pending' \in Seq(Stored \cup {None})
      <3> DEFINE new == Workflow(versions + 1, cj.active, cj.param, cj.last)
      <3>1. pending' = pending \/ pending' = Append(pending, new)
        BY <1>7 DEF UpdateStatus
      <3>2. new \in Stored
        BY <2>2
      <3> HIDE DEF new
      <3> QED BY SMTT(30), <3>1, <3>2
    <2> QED BY <1>7, <2>1, <2>3, <2>4 DEF UpdateStatus
  <1>8. CASE Tick
    BY <1>8 DEF Tick
  <1>9. CASE DeleteWorkflow
    BY <1>9 DEF DeleteWorkflow
  <1>10. CASE Restart
    <2>1. seen' \in Seq(SeenStates)
      <3>1. \A j \in 1..Len(jobs) :
              (IF jobs[j].state = "gone" THEN "gone" ELSE "none") \in SeenStates
        BY DEF SeenStates
      <3> QED BY <1>10, <3>1 DEF Restart
    <2>2. pending' \in Seq(Stored \cup {None})
      <3> DEFINE S == Stored \cup {None}
      <3>1. api \in S /\ pending' \in {<<>>, <<api>>}
        BY <1>10 DEF Restart
      <3> HIDE DEF S
      <3>2. <<>> \in Seq(S) /\ <<api>> \in Seq(S)
        BY <3>1
      <3> QED BY <3>1, <3>2 DEF S
    <2>3. Len(seen') = Len(jobs')
      <3>1. DOMAIN seen' = 1..Len(jobs) /\ Len(jobs) \in Nat /\ jobs' = jobs
        BY <1>10 DEF Restart
      <3>2. DOMAIN seen' = 1..Len(seen') /\ Len(seen') \in Nat
        BY <2>1
      <3> QED BY <3>1, <3>2
    <2>4. faults' \in Nat
      BY <1>10 DEF Restart
    <2> QED BY <1>10, <2>1, <2>2, <2>3, <2>4 DEF Restart
  <1>11. ASSUME NEW active \in BOOLEAN, NEW param \in Params, EditWorkflow(active, param)
         PROVE  CronTypeOK'
    <2>1. Workflow(versions + 1, active, param, api.last) \in Stored
      BY <1>11 DEF EditWorkflow, Workflow, Stored
    <2> QED BY <1>11, <2>1 DEF EditWorkflow
  <1>12. ASSUME NEW j \in 1..Len(jobs), FinishJob(j) \/ DeleteJob(j) PROVE CronTypeOK'
    <2>1. jobs[j] \in JobRecord
      OBVIOUS
    <2>2. PICK s \in {"success", "gone"} : jobs' = [jobs EXCEPT ![j].state = s]
      BY <1>12 DEF FinishJob, DeleteJob
    <2> DEFINE new == [jobs[j] EXCEPT !.state = s]
    <2>3. new \in JobRecord /\ jobs' = [jobs EXCEPT ![j] = new]
      BY <2>1, <2>2 DEF JobRecord
    <2> HIDE DEF new
    <2>4. jobs' \in Seq(JobRecord) /\ Len(jobs') = Len(jobs)
      BY <2>3, ListWith
    <2> QED BY <1>12, <2>4 DEF FinishJob, DeleteJob
  <1> QED BY <1>1, <1>2, <1>3, <1>4, <1>5, <1>6, <1>7, <1>8, <1>9, <1>10, <1>11, <1>12
    DEF Next, sync, Requests, JobEvents

\* Every step keeps the versions and what they have triggered.
LEMMA VersionStep ==
  ASSUME CronTypeOK, VersionInv, LastInv, LatestInv, Next
  PROVE  VersionInv' /\ LastInv'
  <1>0. /\ versions \in Nat /\ (api # None => api \in Stored) /\ (wf # None => wf \in Shared)
        /\ (pc # "idle" => cj \in Shared /\ at \in Moment)
        /\ pending \in Seq(Stored \cup {None})
        /\ \A i \in 1..Len(pending) : pending[i] \in Stored \cup {None}
    BY DEF CronTypeOK
  <1>1. /\ \A o \in Stored : o.rv \in Nat /\ o.last \in Nat
        /\ \A o \in Shared : o.rv \in Nat /\ o.last \in Nat
        /\ \A m \in Moment : m.scheduled \in Nat
    BY CronAssumption DEF Stored, Shared, Moment
  \* The API server's object does not change.
  <1>2. ASSUME UNCHANGED <<api, versions, wf, pc, cj>>,
               \A i \in 1..Len(pending') : \E k \in 1..Len(pending) : pending'[i] = pending[k]
        PROVE  VersionInv' /\ LastInv'
    BY <1>2 DEF VersionInv, LastInv
  <1>3. CASE WaitingLoop \/ syncNotFound \/ Tick
    BY <1>2, <1>3 DEF WaitingLoop, syncNotFound, syncVars, Tick
  <1>4. CASE WorkflowEvent
    <2> DEFINE cur == Head(pending)
    <2>1. /\ cur = pending[1] /\ 1 \in 1..Len(pending) /\ cur \in Stored \cup {None}
          /\ \A i \in 1..Len(pending') : i + 1 \in 1..Len(pending) /\ pending'[i] = pending[i + 1]
      BY <1>0, <1>4, ListAfter DEF WorkflowEvent
    <2>2. wf' # None => /\ cur # None /\ wf'.rv = cur.rv /\ wf'.last = cur.last
      BY <1>4 DEF WorkflowEvent
    <2>3. UNCHANGED <<api, versions, pc, cj>>
      BY <1>4 DEF WorkflowEvent
    <2> HIDE DEF cur
    <2> QED BY <2>1, <2>2, <2>3 DEF VersionInv, LastInv
  <1>5. ASSUME NEW j \in 1..Len(jobs), JobEvent(j) \/ FinishJob(j) \/ DeleteJob(j)
        PROVE  VersionInv' /\ LastInv'
    BY <1>2, <1>5 DEF JobEvent, FinishJob, DeleteJob
  <1>6. CASE syncFails \/ syncNothingDue \/ syncStarts
    <2>1. /\ wf # None /\ wf' = getJobsToBeReconciled(wf)
          /\ UNCHANGED <<api, versions, pending>>
          /\ UNCHANGED <<pc, cj>> \/ (pc' = "create" /\ cj' = wf')
      BY <1>6 DEF syncFails, syncNothingDue, syncStarts, syncVars
    <2>2. wf'.rv = wf.rv /\ wf'.last = wf.last
      BY <1>0, <2>1, Reconciled
    <2>3. VersionInv'
      BY <2>1, <2>2 DEF VersionInv
    <2>4. LastInv'
      BY <2>1, <2>2 DEF LastInv
    <2> QED BY <2>3, <2>4
  <1>7. ASSUME NEW outcome \in Outcomes, CreateJob(outcome) PROVE VersionInv' /\ LastInv'
    <2>1. pc = "create" /\ cj \in Shared /\ at \in Moment /\ UNCHANGED <<api, versions, pending>>
      BY <1>0, <1>7 DEF CreateJob
    <2>2. CASE outcome = "ok"
      <3>1. cj' = Triggered(cj, Len(jobs')) /\ pc' = "update" /\ WriteShared(cj')
        BY <1>7, <2>2 DEF CreateJob
      <3>2. Len(jobs') \in Nat
        <4>1. CronTypeOK'
          BY <1>7, CronTypeStep
        <4> QED BY <4>1 DEF CronTypeOK
      <3>3. cj'.rv = cj.rv /\ cj'.last = at.scheduled
        BY <2>1, <3>1, <3>2, TriggeredIs
      <3>4. cj.last < at.scheduled
        BY <2>1 DEF LatestInv
      <3>5. \/ wf' = wf
            \/ wf' = cj'
        BY <3>1 DEF WriteShared
      <3>6. VersionInv'
        BY <2>1, <3>1, <3>3, <3>5 DEF VersionInv
      <3>7. ASSUME api # None, cj.rv = api.rv PROVE api.last <= at.scheduled
        <4>1. api.last <= cj.last
          BY <2>1, <3>7 DEF LastInv
        <4> QED BY <1>0, <1>1, <2>1, <3>4, <3>7, <4>1
      <3>8. LastInv'
        BY <2>1, <3>1, <3>3, <3>5, <3>7 DEF LastInv
      <3> QED BY <3>6, <3>8
    <2>3. CASE outcome # "ok"
      BY <1>7, <2>1, <2>3 DEF CreateJob, Fail, Return, VersionInv, LastInv
    <2> QED BY <2>2, <2>3
  \* A new version.
  <1>8. ASSUME NEW new \in Stored, new.rv = versions + 1, versions' = versions + 1,
               api' = new, pending' = Append(pending, new), UNCHANGED wf,
               pc' = "idle" \/ UNCHANGED <<pc, cj>>
        PROVE  VersionInv' /\ LastInv'
    <2>1. /\ Len(pending') = Len(pending) + 1 /\ pending'[Len(pending) + 1] = new
          /\ \A i \in 1..Len(pending) : pending'[i] = pending[i]
          /\ Len(pending) \in Nat
      BY <1>0, <1>8, ListAfter
    <2>2. \A i \in 1..Len(pending') : i \in 1..Len(pending) \/ i = Len(pending) + 1
      BY <2>1
    <2>3. /\ \A n \in Nat : n <= versions => n <= versions + 1 /\ n # versions + 1
          /\ versions + 1 <= versions + 1
      BY <1>0
    <2>4. /\ wf # None => wf.rv <= versions /\ wf.rv \in Nat
          /\ pc # "idle" => cj.rv <= versions /\ cj.rv \in Nat
          /\ \A i \in 1..Len(pending) : pending[i] # None =>
               pending[i].rv <= versions /\ pending[i].rv \in Nat
      BY <1>0, <1>1 DEF VersionInv
    <2>5. VersionInv'
      BY <1>8, <2>1, <2>2, <2>3, <2>4 DEF VersionInv
    <2>6. new.last <= new.last
      BY <1>1
    <2>7. LastInv'
      BY <1>8, <2>1, <2>2, <2>3, <2>4, <2>6 DEF LastInv
    <2> QED BY <2>5, <2>7
  <1>9. ASSUME NEW outcome \in Outcomes, UpdateStatus(outcome) PROVE VersionInv' /\ LastInv'
    <2> DEFINE new == Workflow(versions + 1, cj.active, cj.param, cj.last)
    <2>1. pc = "update" /\ cj \in Shared /\ pc' = "idle" /\ UNCHANGED wf
      BY <1>0, <1>9 DEF UpdateStatus, RequeueAt, Fail, Return
    <2>2. new \in Stored /\ new.rv = versions + 1
      BY <1>0, <2>1 DEF Workflow, Stored, Shared
    <2>3. \/ UNCHANGED <<api, versions, pending>>
          \/ versions' = versions + 1 /\ api' = new /\ pending' = Append(pending, new)
      BY <1>9 DEF UpdateStatus
    <2> HIDE DEF new
    <2>4. CASE UNCHANGED <<api, versions, pending>>
      BY <2>1, <2>4 DEF VersionInv, LastInv
    <2> QED BY <1>8, <2>1, <2>2, <2>3, <2>4
  <1>10. CASE DeleteWorkflow
    <2>1. /\ UNCHANGED <<versions, wf, pc, cj>> /\ api' = None /\ pending' = Append(pending, None)
      BY <1>10 DEF DeleteWorkflow
    <2>2. \A i \in 1..Len(pending') : pending'[i] # None =>
            i \in 1..Len(pending) /\ pending'[i] = pending[i]
      BY <1>0, <2>1
    <2> QED BY <2>1, <2>2 DEF VersionInv, LastInv
  <1>11. CASE Restart
    <2>1. /\ UNCHANGED <<versions, api>> /\ wf' = None /\ pc' = "idle"
          /\ pending' = IF api = None THEN <<>> ELSE <<api>>
      BY <1>11 DEF Restart
    <2>2. \A i \in 1..Len(pending') : api # None /\ pending'[i] = api
      BY <2>1
    <2>3. api # None => api.last <= api.last
      BY <1>0, <1>1
    <2> QED BY <2>1, <2>2, <2>3 DEF VersionInv, LastInv
  <1>12. ASSUME NEW active \in BOOLEAN, NEW param \in Params, EditWorkflow(active, param)
         PROVE  VersionInv' /\ LastInv'
    <2> DEFINE new == Workflow(versions + 1, active, param, api.last)
    <2>1. new \in Stored /\ new.rv = versions + 1
      BY <1>0, <1>12 DEF EditWorkflow, Workflow, Stored
    <2>2. /\ UNCHANGED <<wf, pc, cj>> /\ versions' = versions + 1 /\ api' = new
          /\ pending' = Append(pending, new)
      BY <1>12 DEF EditWorkflow
    <2> HIDE DEF new
    <2> QED BY <1>8, <2>1, <2>2
  <1> QED BY <1>3, <1>4, <1>5, <1>6, <1>7, <1>9, <1>10, <1>11, <1>12
    DEF Next, sync, Requests, JobEvents

\* What a step does to the jobs: it adds one at the end, for the time the
\* worker holds, or changes the state of one.
LEMMA JobsChange ==
  ASSUME CronTypeOK, Next
  PROVE  \/ /\ pc = "create" /\ cj \in Shared /\ at \in Moment /\ api' = api
            /\ jobs' = Append(jobs, Job(at.scheduled, at.now, cj.param, at.stale))
            /\ \/ faults' > 0
               \/ pc' = "update" /\ cj'.last = at.scheduled
         \/ /\ Len(jobs') = Len(jobs)
            /\ \A j \in 1..Len(jobs) :
                 /\ jobs'[j].time = jobs[j].time /\ jobs'[j].made = jobs[j].made
                 /\ jobs'[j].param = jobs[j].param /\ jobs'[j].stale = jobs[j].stale
  <1> DEFINE Added == /\ pc = "create" /\ cj \in Shared /\ at \in Moment /\ api' = api
                      /\ jobs' = Append(jobs, Job(at.scheduled, at.now, cj.param, at.stale))
                      /\ \/ faults' > 0
                         \/ pc' = "update" /\ cj'.last = at.scheduled
             Kept == /\ Len(jobs') = Len(jobs)
                     /\ \A j \in 1..Len(jobs) :
                          /\ jobs'[j].time = jobs[j].time /\ jobs'[j].made = jobs[j].made
                          /\ jobs'[j].param = jobs[j].param /\ jobs'[j].stale = jobs[j].stale
  <1>1. ASSUME UNCHANGED jobs PROVE Kept
    BY <1>1
  <1>2. ASSUME NEW outcome \in Outcomes, CreateJob(outcome) PROVE Added \/ Kept
    <2>0. pc = "create" /\ cj \in Shared /\ at \in Moment /\ UNCHANGED api /\ faults \in Nat
      BY <1>2 DEF CreateJob, CronTypeOK
    <2>1. CASE outcome = "refused"
      BY <1>1, <1>2, <2>1 DEF CreateJob
    <2>2. CASE outcome = "lost"
      BY <1>2, <2>0, <2>2 DEF CreateJob
    <2>3. CASE outcome = "ok"
      <3>1. /\ jobs' = Append(jobs, Job(at.scheduled, at.now, cj.param, at.stale))
            /\ cj' = Triggered(cj, Len(jobs')) /\ pc' = "update"
        BY <1>2, <2>3 DEF CreateJob
      <3>2. Len(jobs') \in Nat
        <4>1. CronTypeOK'
          BY CronTypeStep
        <4> QED BY <4>1 DEF CronTypeOK
      <3>3. cj'.last = at.scheduled
        BY <2>0, <3>1, <3>2, TriggeredIs
      <3> QED BY <2>0, <3>1, <3>3
    <2> QED BY <2>1, <2>2, <2>3 DEF Outcomes
  <1>3. ASSUME NEW j \in 1..Len(jobs), FinishJob(j) \/ DeleteJob(j) PROVE Kept
    <2>1. jobs[j] \in JobRecord /\ jobs \in Seq(JobRecord)
      BY DEF CronTypeOK
    <2>2. PICK s \in {"success", "gone"} : jobs' = [jobs EXCEPT ![j].state = s]
      BY <1>3 DEF FinishJob, DeleteJob
    <2> DEFINE new == [jobs[j] EXCEPT !.state = s]
    <2>3. /\ new \in JobRecord /\ jobs' = [jobs EXCEPT ![j] = new]
          /\ new.time = jobs[j].time /\ new.made = jobs[j].made
          /\ new.param = jobs[j].param /\ new.stale = jobs[j].stale
      BY <2>1, <2>2 DEF JobRecord
    <2> HIDE DEF new
    <2>4. /\ Len(jobs') = Len(jobs)
          /\ \A i \in 1..Len(jobs) : jobs'[i] = IF j = i THEN new ELSE jobs[i]
      BY <2>1, <2>3, ListWith
    <2> QED BY <2>3, <2>4
  <1> HIDE DEF Added, Kept
  <1>4. Added \/ Kept
    <2>1. CASE WaitingLoop \/ WorkflowEvent \/ JobEvents
      BY <1>1, <2>1 DEF WaitingLoop, WorkflowEvent, JobEvents, JobEvent
    <2>2. CASE sync
      BY <1>1, <2>2 DEF sync, syncNotFound, syncFails, syncNothingDue, syncStarts, syncVars
    <2>3. CASE Tick \/ DeleteWorkflow \/ Restart
      BY <1>1, <2>3 DEF Tick, DeleteWorkflow, Restart
    <2>4. ASSUME NEW outcome \in Outcomes, UpdateStatus(outcome) PROVE Kept
      BY <1>1, <2>4 DEF UpdateStatus
    <2>5. ASSUME NEW active \in BOOLEAN, NEW param \in Params, EditWorkflow(active, param) PROVE Kept
      BY <1>1, <2>5 DEF EditWorkflow
    <2> QED BY <1>2, <1>3, <2>1, <2>2, <2>3, <2>4, <2>5 DEF Next, Requests
  <1> QED BY <1>4 DEF Added, Kept

\* What a step does to the worker: it starts a sync, or it holds what it held.
LEMMA WorkerChanges ==
  ASSUME CronTypeOK, Next, pc' = "create"
  PROVE  \/ syncStarts
         \/ pc = "create" /\ UNCHANGED <<cj, at, jobs>>
         \/ pc = "create" /\ UNCHANGED <<cj, at>> /\ \E j \in 1..Len(jobs) : FinishJob(j) \/ DeleteJob(j)
  <1>1. CASE WaitingLoop \/ WorkflowEvent \/ JobEvents
    BY <1>1 DEF WaitingLoop, WorkflowEvent, JobEvents, JobEvent
  <1>2. CASE sync
    BY <1>2 DEF sync, syncNotFound, syncFails, syncNothingDue, syncVars, Take
  <1>3. CASE Requests
    BY <1>3 DEF Requests, CreateJob, UpdateStatus, RequeueAt, Fail, Return
  <1>4. CASE Tick \/ DeleteWorkflow \/ Restart
    BY <1>4 DEF Tick, DeleteWorkflow, Restart
  <1>5. CASE \E active \in BOOLEAN, param \in Params : EditWorkflow(active, param)
    BY <1>5 DEF EditWorkflow
  <1>6. CASE \E j \in 1..Len(jobs) : FinishJob(j) \/ DeleteJob(j)
    BY <1>6 DEF FinishJob, DeleteJob
  <1> QED BY <1>1, <1>2, <1>3, <1>4, <1>5, <1>6 DEF Next

LEMMA LatestStep ==
  ASSUME CronTypeOK, LatestInv, Next
  PROVE  LatestInv'
  <1>0. jobs \in Seq(JobRecord)
    BY DEF CronTypeOK
  <1>1. ASSUME pc' = "create"
        PROVE  cj'.last < at'.scheduled /\ Latest(cj'.param, at'.scheduled, at'.now)
    <2>1. CASE syncStarts
      <3> DEFINE s == getNextScheduleTime(wf, now)
      <3>1. wf # None /\ wf \in Shared /\ cj' = getJobsToBeReconciled(wf) /\ Parses(wf.param) /\ s # None
        BY <2>1 DEF syncStarts, CronTypeOK
      <3>2. cj'.last = wf.last /\ cj'.param = wf.param
        BY <3>1, Reconciled
      <3>3. s \in 0..Horizon /\ s > wf.last /\ Latest(wf.param, s, now)
        BY <3>1, NextScheduleTimeIs
      <3>4. at'.scheduled = s /\ at'.now = now
        BY <2>1 DEF syncStarts
      <3>5. wf.last \in 0..Horizon
        BY <3>1 DEF Shared
      <3> HIDE DEF s
      <3> QED BY <3>2, <3>3, <3>4, <3>5
    <2>2. CASE pc = "create" /\ UNCHANGED <<cj, at>>
      BY <2>2 DEF LatestInv
    <2> QED BY <1>1, <2>1, <2>2, WorkerChanges
  <1>2. \A j \in 1..Len(jobs') : Latest(jobs'[j].param, jobs'[j].time, jobs'[j].made)
    <2>1. CASE /\ pc = "create"
               /\ jobs' = Append(jobs, Job(at.scheduled, at.now, cj.param, at.stale))
      <3> DEFINE job == Job(at.scheduled, at.now, cj.param, at.stale)
      <3>1. Latest(job.param, job.time, job.made)
        BY <2>1 DEF LatestInv, Job
      <3>2. jobs' = Append(jobs, job)
        BY <2>1
      <3> HIDE DEF job
      <3>3. \A j \in 1..Len(jobs') : jobs'[j] = job \/ (j \in 1..Len(jobs) /\ jobs'[j] = jobs[j])
        BY <1>0, <3>2
      <3> QED BY <3>1, <3>3 DEF LatestInv
    <2>2. CASE /\ Len(jobs') = Len(jobs)
               /\ \A j \in 1..Len(jobs) : /\ jobs'[j].time = jobs[j].time /\ jobs'[j].made = jobs[j].made
                                          /\ jobs'[j].param = jobs[j].param
      BY <2>2 DEF LatestInv
    <2> QED BY <2>1, <2>2, JobsChange
  <1> QED BY <1>1, <1>2 DEF LatestInv, Latest, Regular

\* What a step, but a failing one, does to the timestamps: the API server's is
\* the worker's when its update arrives, and otherwise stays.
LEMMA TimestampsChange ==
  ASSUME CronTypeOK, Next, faults' = 0
  PROVE  /\ faults = 0
         /\ \/ \E outcome \in Outcomes : CreateJob(outcome)
            \/ /\ pc' = "update" => pc = "update" /\ cj' = cj
               /\ pc' # "update" /\ api' # None =>
                    \/ pc # "update" /\ api # None /\ api'.last = api.last
                    \/ pc = "update" /\ api'.last = cj.last
  <1>0. faults \in Nat
    BY DEF CronTypeOK
  <1>1. CASE WaitingLoop \/ WorkflowEvent \/ JobEvents
    BY <1>1 DEF WaitingLoop, WorkflowEvent, JobEvents, JobEvent
  <1>2. CASE sync
    BY <1>0, <1>2 DEF sync, syncNotFound, syncFails, syncNothingDue, syncStarts, syncVars, Take
  <1>3. ASSUME NEW outcome \in Outcomes, CreateJob(outcome) PROVE faults = 0
    BY <1>0, <1>3 DEF CreateJob
  <1>4. ASSUME NEW outcome \in Outcomes, UpdateStatus(outcome)
        PROVE  /\ faults = 0 /\ pc = "update" /\ pc' = "idle"
               /\ api' = None \/ api'.last = cj.last
    <2>1. faults = 0 /\ pc = "update" /\ (outcome = "ok" \/ api = None)
      BY <1>0, <1>4 DEF UpdateStatus
    <2>2. pc' = "idle"
      BY <1>4 DEF UpdateStatus, RequeueAt, Fail, Return
    <2>3. api' = None \/ api'.last = cj.last
      BY <1>4, <2>1 DEF UpdateStatus, Workflow
    <2> QED BY <2>1, <2>2, <2>3
  <1>5. CASE Tick \/ DeleteWorkflow \/ Restart
    BY <1>0, <1>5 DEF Tick, DeleteWorkflow, Restart
  <1>6. ASSUME NEW active \in BOOLEAN, NEW param \in Params, EditWorkflow(active, param)
        PROVE  UNCHANGED <<faults, pc, cj>> /\ api # None /\ api'.last = api.last
    BY <1>6 DEF EditWorkflow, Workflow
  <1>7. CASE \E j \in 1..Len(jobs) : FinishJob(j) \/ DeleteJob(j)
    BY <1>7 DEF FinishJob, DeleteJob
  <1> QED BY <1>1, <1>2, <1>3, <1>4, <1>5, <1>6, <1>7 DEF Next, Requests

LEMMA OnceStep ==
  ASSUME CronTypeOK, LastInv, BehindInv, TriggeredOnce, Next
  PROVE  BehindInv' /\ TriggeredOnce'
  <1> SUFFICES ASSUME faults' = 0 PROVE BehindInv' /\ TriggeredOnce'
    <2>1. faults' \in Nat
      <3>1. CronTypeOK'
        BY CronTypeStep
      <3> QED BY <3>1 DEF CronTypeOK
    <2> QED BY <2>1 DEF BehindInv, TriggeredOnce
  <1>0. /\ faults = 0 /\ jobs \in Seq(JobRecord) /\ Len(jobs) \in Nat
        /\ \A i \in 1..Len(jobs) : jobs[i].time \in Nat
    <2>1. \A r \in JobRecord : r.time \in Nat
      BY CronAssumption DEF JobRecord
    <2> QED BY <2>1, TimestampsChange DEF CronTypeOK
  <1>1. \A i \in 1..Len(jobs) : FreshSince(i) =>
          /\ pc # "update" /\ api # None => jobs[i].time <= api.last
          /\ pc = "update" => jobs[i].time <= cj.last
          /\ pc = "create" /\ ~at.stale => jobs[i].time < at.scheduled
    BY <1>0 DEF BehindInv
  <1>2. CASE /\ pc = "create" /\ cj \in Shared /\ at \in Moment
             /\ jobs' = Append(jobs, Job(at.scheduled, at.now, cj.param, at.stale))
             /\ pc' = "update" /\ cj'.last = at.scheduled
    <2> DEFINE n == Len(jobs) + 1
    <2>1. /\ Len(jobs') = n /\ \A i \in 1..Len(jobs) : jobs'[i] = jobs[i]
          /\ jobs'[n].time = at.scheduled /\ jobs'[n].stale = at.stale
          /\ n \in Nat /\ at.scheduled \in Nat /\ n = Len(jobs) + 1
      BY <1>0, <1>2, CronAssumption DEF Job, Moment
    <2> HIDE DEF n
    <2>2. ASSUME NEW i \in 1..Len(jobs), \A k \in (i + 1)..n : ~jobs'[k].stale
          PROVE  jobs[i].time < at.scheduled
      <3>1. n \in (i + 1)..n /\ \A k \in (i + 1)..Len(jobs) : k \in (i + 1)..n /\ k \in 1..Len(jobs)
        BY <1>0, <2>1
      <3>2. ~at.stale /\ FreshSince(i)
        BY <2>1, <2>2, <3>1 DEF FreshSince
      <3> QED BY <1>1, <1>2, <3>2
    <2>3. BehindInv'
      <3>1. ASSUME NEW i \in 1..Len(jobs'), FreshSince(i)' PROVE jobs'[i].time <= cj'.last
        <4>1. CASE i = n
          BY <1>2, <2>1, <4>1
        <4>2. CASE i # n
          <5>1. i \in 1..Len(jobs) /\ jobs'[i] = jobs[i]
            BY <1>0, <2>1, <4>2
          <5>2. jobs[i].time < at.scheduled
            BY <2>1, <2>2, <3>1, <5>1 DEF FreshSince
          <5> QED BY <1>0, <1>2, <2>1, <5>1, <5>2
        <4> QED BY <4>1, <4>2
      <3> QED BY <1>2, <3>1 DEF BehindInv
    <2>4. TriggeredOnce'
      <3> SUFFICES ASSUME NEW i \in 1..Len(jobs'), NEW j \in 1..Len(jobs'), i < j,
                          jobs'[i].time = jobs'[j].time
                   PROVE  \E k \in (i + 1)..j : jobs'[k].stale
        BY DEF TriggeredOnce
      <3>1. i \in 1..Len(jobs) /\ jobs'[i] = jobs[i]
        BY <1>0, <2>1
      <3>2. CASE j = n
        BY <1>0, <2>1, <2>2, <3>1, <3>2
      <3>3. CASE j # n
        <4>1. j \in 1..Len(jobs) /\ jobs'[j] = jobs[j]
          BY SMTT(30), <1>0, <2>1, <3>3
        <4>2. PICK k \in (i + 1)..j : jobs[k].stale
          BY <1>0, <3>1, <4>1 DEF TriggeredOnce
        <4>3. k \in 1..Len(jobs)
          BY <1>0, <3>1, <4>1
        <4> QED BY <2>1, <4>2, <4>3
      <3> QED BY <3>2, <3>3
    <2> QED BY <2>3, <2>4
  <1>3. CASE /\ Len(jobs') = Len(jobs)
             /\ \A j \in 1..Len(jobs) : jobs'[j].time = jobs[j].time /\ jobs'[j].stale = jobs[j].stale
    <2>1. \A i \in 1..Len(jobs), j \in 1..Len(jobs) : \A k \in (i + 1)..j : k \in 1..Len(jobs)
      BY <1>0
    <2>2. TriggeredOnce'
      <3> SUFFICES ASSUME NEW i \in 1..Len(jobs), NEW j \in 1..Len(jobs), i < j,
                          jobs[i].time = jobs[j].time
                   PROVE  \E k \in (i + 1)..j : jobs'[k].stale
        BY <1>3 DEF TriggeredOnce
      <3>1. PICK k \in (i + 1)..j : jobs[k].stale
        BY <1>0 DEF TriggeredOnce
      <3> QED BY <1>3, <2>1, <3>1
    <2>3. ASSUME NEW i \in 1..Len(jobs), FreshSince(i)' PROVE FreshSince(i)
      <3>1. \A k \in (i + 1)..Len(jobs) : k \in 1..Len(jobs)
        BY <1>0
      <3> QED BY <1>3, <2>3, <3>1 DEF FreshSince
    <2>4. BehindInv'
      <3> SUFFICES ASSUME NEW i \in 1..Len(jobs), FreshSince(i)
                   PROVE  /\ pc' # "update" /\ api' # None => jobs[i].time <= api'.last
                          /\ pc' = "update" => jobs[i].time <= cj'.last
                          /\ pc' = "create" /\ ~at'.stale => jobs[i].time < at'.scheduled
        BY <1>3, <2>3 DEF BehindInv
      <3>1. /\ pc' # "update" /\ api' # None => jobs[i].time <= api'.last
            /\ pc' = "update" => jobs[i].time <= cj'.last
        <4>1. ASSUME NEW outcome \in Outcomes, CreateJob(outcome) PROVE FALSE
          <5>1. outcome = "ok"
            BY <1>0, <4>1 DEF CreateJob
          <5>2. jobs' = Append(jobs, Job(at.scheduled, at.now, cj.param, at.stale))
            BY <4>1, <5>1 DEF CreateJob
          <5>3. Len(jobs') = Len(jobs) + 1
            BY <1>0, <5>2
          <5> QED BY <1>0, <1>3, <5>3
        <4> QED BY <1>1, <4>1, TimestampsChange
      <3>2. ASSUME pc' = "create", ~at'.stale PROVE jobs[i].time < at'.scheduled
        <4>1. CASE syncStarts
          <5>1. /\ pc = "idle" /\ wf # None /\ api # None /\ wf.rv = api.rv /\ Parses(wf.param)
                /\ at'.scheduled = getNextScheduleTime(wf, now) /\ getNextScheduleTime(wf, now) # None
            BY <3>2, <4>1 DEF syncStarts, Take
          <5>2. jobs[i].time <= api.last /\ api.last <= wf.last
            BY <1>1, <5>1 DEF LastInv
          <5>3. wf.last < at'.scheduled /\ at'.scheduled \in 0..Horizon
            BY <5>1, NextScheduleTimeIs
          <5>4. api.last \in 0..Horizon /\ wf.last \in 0..Horizon
            BY <5>1 DEF CronTypeOK, Stored, Shared
          <5> QED BY <1>0, <5>2, <5>3, <5>4
        <4>2. CASE pc = "create" /\ UNCHANGED at
          BY <1>1, <3>2, <4>2
        <4> QED BY <3>2, <4>1, <4>2, WorkerChanges
      <3> QED BY <3>1, <3>2
    <2> QED BY <2>2, <2>4
  <1> QED BY <1>2, <1>3, JobsChange

----------------------------------------------------------------------------
(* The theorems *)

LEMMA CronInit == Init => CronInv
  <1> SUFFICES ASSUME Init PROVE CronInv
    OBVIOUS
  <1>1. PICK p \in Params : api = Workflow(1, TRUE, p, 0)
    BY DEF Init
  <1>2. api \in Stored /\ api.rv = 1 /\ api.last = 0
    BY <1>1, CronAssumption DEF Workflow, Stored
  <1>3. pending = <<api>> /\ pending \in Seq(Stored \cup {None})
    <2> DEFINE S == Stored \cup {None}
    <2>1. api \in S
      BY <1>2
    <2> HIDE DEF S
    <2>2. <<api>> \in Seq(S)
      BY <2>1
    <2> QED BY <2>2 DEF Init, S
  <1>4. CronTypeOK
    <2>1. <<>> \in Seq(JobRecord) /\ <<>> \in Seq(SeenStates) /\ 0 \in 0..Horizon
      BY CronAssumption
    <2> QED BY <1>2, <1>3, <2>1 DEF Init, CronTypeOK
  <1>5. VersionInv /\ LastInv
    <2>1. \A i \in 1..Len(pending) : pending[i] = api
      BY <1>3
    <2>2. wf = None /\ pc = "idle" /\ versions = 1
      BY DEF Init
    <2> QED BY <1>2, <2>1, <2>2 DEF VersionInv, LastInv
  <1>6. LatestInv /\ BehindInv /\ TriggeredOnce
    BY DEF Init, LatestInv, BehindInv, TriggeredOnce
  <1> QED BY <1>4, <1>5, <1>6 DEF CronInv

LEMMA CronStep == CronInv /\ [Next]_vars => CronInv'
  <1> SUFFICES ASSUME CronInv, [Next]_vars PROVE CronInv'
    OBVIOUS
  <1>1. CASE Next
    BY <1>1, CronTypeStep, VersionStep, LatestStep, OnceStep DEF CronInv
  <1>2. CASE UNCHANGED vars
    <2>1. CronTypeOK' /\ VersionInv' /\ LastInv'
      BY <1>2 DEF vars, CronInv, CronTypeOK, VersionInv, LastInv
    <2>2. LatestInv' /\ BehindInv' /\ TriggeredOnce'
      BY <1>2 DEF vars, CronInv, LatestInv, BehindInv, FreshSince, TriggeredOnce
    <2> QED BY <2>1, <2>2 DEF CronInv
  <1> QED BY <1>1, <1>2

THEOREM CronInvariant == Spec => []CronInv
  BY CronInit, CronStep, PTL DEF Spec

\* A time of the schedule is triggered a second time by syncCronJob only if a
\* request or the process failed, or a sync since the first read an object
\* older than the API server's.
THEOREM TimesAreTriggeredOnce == Spec => []TriggeredOnce
  <1>1. CronInv => TriggeredOnce
    BY DEF CronInv
  <1> QED BY <1>1, CronInvariant, PTL

\* getNextScheduleTime never finds a time to come, and of a regular schedule,
\* whatever its interval and the last time triggered, it finds the latest.
THEOREM JobsAreForTheLatestTime == Spec => []JobIsForTheLatestTime
  <1>1. CronInv => JobIsForTheLatestTime
    BY DEF CronInv, LatestInv, Latest, JobIsForTheLatestTime
  <1> QED BY <1>1, CronInvariant, PTL

=============================================================================
