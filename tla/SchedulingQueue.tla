-------------------------- MODULE SchedulingQueue --------------------------
(***************************************************************************)
(* The scheduler's PriorityQueue (pkg/scheduler/queue/scheduling_queue.go):*)
(* stages waiting for an attempt (activeQ), stages whose last attempt is   *)
(* too recent (backoffQ) and stages that no worker fitted (unschedulable). *)
(* Every operation runs under p.lock and is one action. The goroutines:    *)
(* the scheduling loop (Pop, an attempt, AddUnschedulableIfNotPresent when *)
(* it fails), the informer's event handlers (Add, Update, Delete and the   *)
(* move requests), the two flush timers, and Close.                        *)
(*                                                                         *)
(* The heaps are keyed by the stage's name and unschedulable by its UID;   *)
(* here a stage stands for both, that is, live stages have distinct names. *)
(* A timestamp is kept as its age, which stops growing once every          *)
(* comparison with it has been decided. UnschedulablePlugins is empty for  *)
(* every stage (the scheduler's errors name no plugin), so that every      *)
(* event matches. Nominations are left out: the nominator files every one  *)
(* under the empty worker name, which no lookup asks for.                  *)
(***************************************************************************)
EXTENDS Integers

CONSTANTS
  Stages,
  NoStage,
  Priority,                        \* of every stage
  InitialBackoff, MaxBackoff,      \* stageInitialBackoffDuration, stageMaxBackoffDuration
  MaxInUnschedulable,              \* stageMaxInUnschedulableStagesDuration
  MaxAttempts,                     \* bound: attempts are counted up to it
  MaxCycle                         \* bound on the number of Pops

ASSUME SchedulingQueueAssumption ==
  /\ NoStage \notin Stages
  /\ Priority \in [Stages -> Int]
  /\ InitialBackoff \in Nat /\ MaxBackoff \in Nat /\ InitialBackoff <= MaxBackoff
  /\ MaxInUnschedulable \in Nat
  /\ MaxAttempts \in Nat \ {0} /\ MaxCycle \in Nat

VARIABLES
  activeQ, backoffQ, unschedulable,  \* stage -> [attempts, age]
  schedulingCycle,                   \* the number of Pops
  moveRequestCycle,                  \* schedulingCycle at the last move request
  closed,
  popper,                            \* where the scheduling loop is
  current,                           \* the stage it attempts, and its attempts
  cycleRead,                         \* SchedulingCycle() as the error path read it
  moveSeen                           \* history: a move request since the last Pop

queues == <<activeQ, backoffQ, unschedulable>>
loopvars == <<popper, current, cycleRead>>
vars == <<activeQ, backoffQ, unschedulable, schedulingCycle, moveRequestCycle,
          closed, popper, current, cycleRead, moveSeen>>

PopperPC == {"pop", "asleep", "attempt", "requeue", "exit"}

----------------------------------------------------------------------------
(* The entries, framework.QueuedStageInfo *)

\* The age from which on no comparison depends on it.
MaxAge == IF MaxBackoff > MaxInUnschedulable THEN MaxBackoff + 1 ELSE MaxInUnschedulable + 1

Info == [attempts : 0..MaxAttempts, age : 0..MaxAge]

newQueuedStageInfo == [attempts |-> 0, age |-> 0]

\* calculateBackoffDuration: the initial duration doubled for every attempt
\* after the first, and the maximum once doubling would exceed it.
calculateBackoffDuration(a) ==
  IF a <= 1 THEN InitialBackoff
  ELSE IF InitialBackoff * 2^(a - 1) > MaxBackoff THEN MaxBackoff
  ELSE InitialBackoff * 2^(a - 1)

isStageBackingoff(p) == calculateBackoffDuration(p.attempts) > p.age

----------------------------------------------------------------------------
(* The three sub-queues as partial functions *)

Queued == DOMAIN activeQ \cup DOMAIN backoffQ \cup DOMAIN unschedulable

With(q, s, p) == [t \in DOMAIN q \cup {s} |-> IF t = s THEN p ELSE q[t]]
Without(q, S) == [t \in DOMAIN q \ S |-> q[t]]
MoveInto(q, S, from) ==
  [t \in DOMAIN q \cup S |-> IF t \in S THEN from[t] ELSE q[t]]
Aged(q) == [t \in DOMAIN q |-> [q[t] EXCEPT !.age = IF @ = MaxAge THEN @ ELSE @ + 1]]

\* p.cond.Broadcast, and the case in which it is not called.
Broadcast == popper' = (IF popper = "asleep" THEN "pop" ELSE popper)
BroadcastIf(cond) == IF cond THEN Broadcast ELSE UNCHANGED popper

----------------------------------------------------------------------------
Init ==
  /\ activeQ = [s \in {} |-> newQueuedStageInfo]
  /\ backoffQ = [s \in {} |-> newQueuedStageInfo]
  /\ unschedulable = [s \in {} |-> newQueuedStageInfo]
  /\ schedulingCycle = 0
  /\ moveRequestCycle = -1
  /\ closed = FALSE
  /\ popper = "pop"
  /\ current = [stage |-> NoStage, attempts |-> 0]
  /\ cycleRead = 0
  /\ moveSeen = FALSE

(* Add: a fresh entry in activeQ, and none elsewhere.                      *)
Add(s) ==
  /\ activeQ' = With(activeQ, s, newQueuedStageInfo)
  /\ unschedulable' = Without(unschedulable, {s})
  /\ backoffQ' = Without(backoffQ, {s})
  /\ Broadcast
  /\ UNCHANGED <<schedulingCycle, moveRequestCycle, closed, current, cycleRead, moveSeen>>

(* Activate: those of the stages a plugin names that are not in activeQ    *)
(* come there, from unschedulable or backoffQ, with their entries.         *)
Activate(stages) ==
  /\ (stages \ DOMAIN activeQ) \cap (DOMAIN unschedulable \cup DOMAIN backoffQ) # {}
  /\ LET activated == stages \ DOMAIN activeQ
         backingOff == (activated \cap DOMAIN backoffQ) \ DOMAIN unschedulable
     IN /\ activeQ' = MoveInto(MoveInto(activeQ, activated \cap DOMAIN unschedulable,
                                        unschedulable),
                               backingOff, backoffQ)
        /\ unschedulable' = Without(unschedulable, activated)
        /\ backoffQ' = Without(backoffQ, activated)
  /\ Broadcast
  /\ UNCHANGED <<schedulingCycle, moveRequestCycle, closed, current, cycleRead, moveSeen>>

(* Update: in place in activeQ and backoffQ; an unschedulable stage that   *)
(* was changed gets another attempt; an unknown stage is added.            *)
UpdateRefreshes_mutant(p) == [p EXCEPT !.age = 0]

\* updateStage puts the new stage into the entry, which keeps its attempts
\* and its timestamp.
updateStage(p) == p

UpdateLeavesCopy_mutant(s, isStageUpdated) ==
  LET p == updateStage(unschedulable[s])
  IN /\ s \in DOMAIN unschedulable /\ isStageUpdated
     /\ activeQ' = With(activeQ, s, p)
     /\ Broadcast
     /\ UNCHANGED <<backoffQ, unschedulable, schedulingCycle, moveRequestCycle,
                    closed, current, cycleRead, moveSeen>>

Update(s, isStageUpdated) ==
  /\ \/ /\ s \in DOMAIN activeQ
        /\ activeQ' = With(activeQ, s, updateStage(activeQ[s]))
        /\ UNCHANGED <<backoffQ, unschedulable, popper>>
     \/ /\ s \in DOMAIN backoffQ \ DOMAIN activeQ
        /\ backoffQ' = With(backoffQ, s, updateStage(backoffQ[s]))
        /\ UNCHANGED <<activeQ, unschedulable, popper>>
     \/ /\ s \in DOMAIN unschedulable \ (DOMAIN activeQ \cup DOMAIN backoffQ)
        /\ LET p == updateStage(unschedulable[s])
           IN \/ /\ isStageUpdated /\ isStageBackingoff(p)
                 /\ backoffQ' = With(backoffQ, s, p)
                 /\ unschedulable' = Without(unschedulable, {s})
                 /\ UNCHANGED <<activeQ, popper>>
              \/ /\ isStageUpdated /\ ~isStageBackingoff(p)
                 /\ activeQ' = With(activeQ, s, p)
                 /\ unschedulable' = Without(unschedulable, {s})
                 /\ Broadcast
                 /\ UNCHANGED backoffQ
              \/ /\ ~isStageUpdated
                 /\ unschedulable' = With(unschedulable, s, p)
                 /\ UNCHANGED <<activeQ, backoffQ, popper>>
     \/ /\ s \notin Queued
        /\ activeQ' = With(activeQ, s, newQueuedStageInfo)
        /\ Broadcast
        /\ UNCHANGED <<backoffQ, unschedulable>>
  /\ UNCHANGED <<schedulingCycle, moveRequestCycle, closed, current, cycleRead, moveSeen>>

(* Delete: the other two queues are only looked at when activeQ has no     *)
(* such stage.                                                             *)
Delete(s) ==
  /\ s \in Queued
  /\ activeQ' = Without(activeQ, {s})
  /\ IF s \in DOMAIN activeQ
     THEN UNCHANGED <<backoffQ, unschedulable>>
     ELSE /\ backoffQ' = Without(backoffQ, {s})
          /\ unschedulable' = Without(unschedulable, {s})
  /\ UNCHANGED <<schedulingCycle, moveRequestCycle, closed, loopvars, moveSeen>>

----------------------------------------------------------------------------
(* moveStagesToActiveOrBackoffQueue: every stage of S leaves unschedulable,*)
(* for backoffQ while it is backing off, else for activeQ.                 *)
MoveNoBroadcast_mutant(S) ==
  LET backing == {s \in S : isStageBackingoff(unschedulable[s])}
  IN /\ backoffQ' = MoveInto(backoffQ, backing, unschedulable)
     /\ activeQ' = MoveInto(activeQ, S \ backing, unschedulable)
     /\ unschedulable' = Without(unschedulable, S)
     /\ moveRequestCycle' = schedulingCycle
     /\ moveSeen' = TRUE
     /\ UNCHANGED <<schedulingCycle, closed, popper, current, cycleRead>>

MoveDropsBackingOff_mutant(S) ==
  LET backing == {s \in S : isStageBackingoff(unschedulable[s])}
  IN /\ UNCHANGED backoffQ
     /\ activeQ' = MoveInto(activeQ, S \ backing, unschedulable)
     /\ unschedulable' = Without(unschedulable, S)
     /\ moveRequestCycle' = schedulingCycle
     /\ moveSeen' = TRUE
     /\ BroadcastIf(S \ backing # {})
     /\ UNCHANGED <<schedulingCycle, closed, current, cycleRead>>

moveStagesToActiveOrBackoffQueue(S) ==
  LET backing == {s \in S : isStageBackingoff(unschedulable[s])}
  IN /\ backoffQ' = MoveInto(backoffQ, backing, unschedulable)
     /\ activeQ' = MoveInto(activeQ, S \ backing, unschedulable)
     /\ unschedulable' = Without(unschedulable, S)
     /\ moveRequestCycle' = schedulingCycle
     /\ moveSeen' = TRUE
     /\ BroadcastIf(S \ backing # {})
     /\ UNCHANGED <<schedulingCycle, closed, current, cycleRead>>

(* MoveAllToActiveOrBackoffQueue with a preCheck that passes every stage,  *)
(* AssignedStageAdded and AssignedStageUpdated (whose affinity match is    *)
(* every unschedulable stage).                                             *)
MoveAllToActiveOrBackoffQueue ==
  moveStagesToActiveOrBackoffQueue(DOMAIN unschedulable)

flushUnschedulableStagesLeftover ==
  LET leftover == {s \in DOMAIN unschedulable : unschedulable[s].age > MaxInUnschedulable}
  IN leftover # {} /\ moveStagesToActiveOrBackoffQueue(leftover)

(* flushBackoffQCompleted pops backoffQ, which is ordered by the end of    *)
(* the backoff, until the head is still backing off.                       *)
flushBackoffQCompleted ==
  LET completed == {s \in DOMAIN backoffQ : ~isStageBackingoff(backoffQ[s])}
  IN /\ completed # {}
     /\ activeQ' = MoveInto(activeQ, completed, backoffQ)
     /\ backoffQ' = Without(backoffQ, completed)
     /\ Broadcast
     /\ UNCHANGED <<unschedulable, schedulingCycle, moveRequestCycle, closed,
                    current, cycleRead, moveSeen>>

Close ==
  /\ ~closed
  /\ closed' = TRUE
  /\ Broadcast
  /\ UNCHANGED <<queues, schedulingCycle, moveRequestCycle, current, cycleRead, moveSeen>>

Tick ==
  /\ activeQ' = Aged(activeQ)
  /\ backoffQ' = Aged(backoffQ)
  /\ unschedulable' = Aged(unschedulable)
  /\ queues' # queues
  /\ UNCHANGED <<schedulingCycle, moveRequestCycle, closed, loopvars, moveSeen>>

----------------------------------------------------------------------------
(* The scheduling loop *)

\* Less of PrioritySort: the higher priority, then the earlier timestamp.
Less(s, t) ==
  \/ Priority[s] > Priority[t]
  \/ Priority[s] = Priority[t] /\ activeQ[s].age > activeQ[t].age

Heads == {s \in DOMAIN activeQ : \A t \in DOMAIN activeQ : ~Less(t, s)}

PopWaits ==
  /\ popper = "pop" /\ DOMAIN activeQ = {} /\ ~closed
  /\ popper' = "asleep"
  /\ UNCHANGED <<queues, schedulingCycle, moveRequestCycle, closed, current,
                 cycleRead, moveSeen>>

PopClosed ==
  /\ popper = "pop" /\ DOMAIN activeQ = {} /\ closed
  /\ popper' = "exit"
  /\ UNCHANGED <<queues, schedulingCycle, moveRequestCycle, closed, current,
                 cycleRead, moveSeen>>

PopStage ==
  /\ popper = "pop" /\ schedulingCycle < MaxCycle
  /\ \E s \in Heads :
       /\ current' = [stage |-> s,
                      attempts |-> IF activeQ[s].attempts = MaxAttempts THEN MaxAttempts
                                   ELSE activeQ[s].attempts + 1]
       /\ activeQ' = Without(activeQ, {s})
  /\ schedulingCycle' = schedulingCycle + 1
  /\ popper' = "attempt"
  /\ moveSeen' = FALSE
  /\ UNCHANGED <<backoffQ, unschedulable, moveRequestCycle, closed, cycleRead>>

Pop == PopWaits \/ PopClosed \/ PopStage

\* The attempt ends without the stage coming back: it was skipped or bound,
\* or the error path no longer found it in the informer's store.
AttemptEnds ==
  /\ popper = "attempt"
  /\ popper' = "pop"
  /\ current' = [stage |-> NoStage, attempts |-> 0]
  /\ UNCHANGED <<queues, schedulingCycle, moveRequestCycle, closed, cycleRead, moveSeen>>

\* The error path reads SchedulingCycle() in a locked section of its own.
AttemptFails ==
  /\ popper = "attempt"
  /\ cycleRead' = schedulingCycle
  /\ popper' = "requeue"
  /\ UNCHANGED <<queues, schedulingCycle, moveRequestCycle, closed, current, moveSeen>>

\* AddUnschedulableIfNotPresent: refused when the stage came back meanwhile,
\* else to backoffQ if a move request arrived during the attempt.
RequeueMissesMove_mutant ==
  /\ popper = "requeue"
  /\ LET s == current.stage
         p == [attempts |-> current.attempts, age |-> 0]
     IN \/ s \in Queued /\ UNCHANGED queues
        \/ /\ s \notin Queued
           /\ IF moveRequestCycle > cycleRead
              THEN backoffQ' = With(backoffQ, s, p) /\ UNCHANGED <<activeQ, unschedulable>>
              ELSE unschedulable' = With(unschedulable, s, p) /\ UNCHANGED <<activeQ, backoffQ>>
  /\ popper' = "pop"
  /\ current' = [stage |-> NoStage, attempts |-> 0]
  /\ cycleRead' = 0
  /\ UNCHANGED <<schedulingCycle, moveRequestCycle, closed, moveSeen>>

AddUnschedulableIfNotPresent ==
  /\ popper = "requeue"
  /\ LET s == current.stage
         p == [attempts |-> current.attempts, age |-> 0]
     IN \/ s \in Queued /\ UNCHANGED queues
        \/ /\ s \notin Queued /\ moveRequestCycle >= cycleRead
           /\ backoffQ' = With(backoffQ, s, p)
           /\ UNCHANGED <<activeQ, unschedulable>>
        \/ /\ s \notin Queued /\ moveRequestCycle < cycleRead
           /\ unschedulable' = With(unschedulable, s, p)
           /\ UNCHANGED <<activeQ, backoffQ>>
  /\ popper' = "pop"
  /\ current' = [stage |-> NoStage, attempts |-> 0]
  /\ cycleRead' = 0
  /\ UNCHANGED <<schedulingCycle, moveRequestCycle, closed, moveSeen>>

SchedulingLoop == Pop \/ AttemptEnds \/ AttemptFails \/ AddUnschedulableIfNotPresent

----------------------------------------------------------------------------
Next ==
  \/ \E s \in Stages : Add(s) \/ Delete(s)
  \/ \E stages \in SUBSET Stages : Activate(stages)
  \/ \E s \in Stages, isStageUpdated \in BOOLEAN : Update(s, isStageUpdated)
  \/ MoveAllToActiveOrBackoffQueue
  \/ flushUnschedulableStagesLeftover
  \/ flushBackoffQCompleted
  \/ SchedulingLoop
  \/ Close
  \/ Tick

Spec == Init /\ [][Next]_vars

\* The scheduling loop runs, its attempts end, time passes, and the two flush
\* goroutines run every second and every 30 seconds until Close.
Fairness ==
  /\ WF_vars(SchedulingLoop)
  /\ WF_vars(Tick)
  /\ WF_vars(flushBackoffQCompleted /\ ~closed)
  /\ WF_vars(flushUnschedulableStagesLeftover /\ ~closed)

FairSpec == Spec /\ Fairness

----------------------------------------------------------------------------
(* Properties *)

IsQueue(q) == DOMAIN q \subseteq Stages /\ \A s \in DOMAIN q : q[s] \in Info

\* Every variable keeps its type, and the last move request is not dated after
\* the scheduling cycle.
TypeOK ==
  /\ IsQueue(activeQ) /\ IsQueue(backoffQ) /\ IsQueue(unschedulable)
  /\ schedulingCycle \in 0..MaxCycle
  /\ moveRequestCycle \in -1..schedulingCycle
  /\ closed \in BOOLEAN /\ moveSeen \in BOOLEAN
  /\ popper \in PopperPC
  /\ current \in [stage : Stages \cup {NoStage}, attempts : 0..MaxAttempts]
  /\ cycleRead \in 0..MaxCycle

\* A stage is in at most one of the three sub-queues, whatever the order in
\* which events, flushes, moves and the error path put it there.
SingleLocation ==
  /\ DOMAIN activeQ \cap DOMAIN backoffQ = {}
  /\ DOMAIN activeQ \cap DOMAIN unschedulable = {}
  /\ DOMAIN backoffQ \cap DOMAIN unschedulable = {}

\* Pop sleeps only while there is nothing to pop and the queue is open: every
\* way into activeQ wakes it.
PopSleepsOnlyWhenEmpty ==
  popper = "asleep" => DOMAIN activeQ = {} /\ ~closed

\* What the proof of MoveRequestNotMissed needs: a move request since the last
\* Pop is still the cycle the error path compares with.
AttemptRecorded ==
  /\ moveSeen => moveRequestCycle = schedulingCycle
  /\ popper \in {"attempt", "requeue"} => current.stage \in Stages
  /\ popper = "requeue" => cycleRead = schedulingCycle

\* The inductive invariant.
IInv == TypeOK /\ SingleLocation /\ PopSleepsOnlyWhenEmpty /\ AttemptRecorded

\* A move request that arrives while a stage is being attempted is not lost
\* to it: the failed stage goes to backoffQ, not to unschedulable, where it
\* would wait for the next event or the 5 minute flush.
MoveRequestNotMissed ==
  [][\A s \in DOMAIN unschedulable' \ DOMAIN unschedulable : ~moveSeen]_vars

\* No stage falls out of the queue: one that is queued stays queued unless
\* it is popped or deleted, and a failed attempt puts its stage back.
StagesAreNotLost ==
  [][/\ \A s \in Queued \ Queued' : current'.stage = s \/ Delete(s)
     /\ popper = "requeue" /\ popper' # "requeue" => current.stage \in Queued']_vars

\* Every stage that failed gets into activeQ again (or is deleted) without an
\* event having to happen, and no stream of updates and moves delays it for
\* ever.
FailedStageIsRetried ==
  \A s \in Stages :
    (s \in DOMAIN backoffQ \cup DOMAIN unschedulable)
      ~> (s \notin DOMAIN backoffQ \cup DOMAIN unschedulable \/ closed)
=============================================================================
