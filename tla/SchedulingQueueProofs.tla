----------------------- MODULE SchedulingQueueProofs -----------------------
(***************************************************************************)
(* Proofs about SchedulingQueue for every set of stages, every backoff and *)
(* every bound: its inductive invariant, and the action properties that    *)
(* follow from it.                                                         *)
(***************************************************************************)
EXTENDS SchedulingQueue, TLAPS

----------------------------------------------------------------------------
(* The operators on the sub-queues *)

\* The entries a queue may hold, as far as the proofs look into them.
LEMMA EntryTypes ==
  /\ MaxAge \in Nat
  /\ newQueuedStageInfo \in Info
  /\ \A a \in 0..MaxAttempts : [attempts |-> a, age |-> 0] \in Info
  BY SchedulingQueueAssumption DEF MaxAge, Info, newQueuedStageInfo

\* Putting an entry of a stage into a queue.
LEMMA WithQueue ==
  ASSUME NEW q, IsQueue(q), NEW s \in Stages, NEW p \in Info
  PROVE  IsQueue(With(q, s, p)) /\ DOMAIN With(q, s, p) = DOMAIN q \cup {s}
  BY DEF IsQueue, With

\* Taking stages out of a queue.
LEMMA WithoutQueue ==
  ASSUME NEW q, IsQueue(q), NEW S
  PROVE  IsQueue(Without(q, S)) /\ DOMAIN Without(q, S) = DOMAIN q \ S
  BY DEF IsQueue, Without

\* Moving stages with their entries from one queue into another.
LEMMA MoveIntoQueue ==
  ASSUME NEW q, IsQueue(q), NEW from, IsQueue(from), NEW S, S \subseteq DOMAIN from
  PROVE  IsQueue(MoveInto(q, S, from)) /\ DOMAIN MoveInto(q, S, from) = DOMAIN q \cup S
  BY DEF IsQueue, MoveInto

\* A tick keeps every entry in its queue.
LEMMA AgedQueue ==
  ASSUME NEW q, IsQueue(q)
  PROVE  IsQueue(Aged(q)) /\ DOMAIN Aged(q) = DOMAIN q
<1>1. DOMAIN Aged(q) = DOMAIN q
  BY DEF Aged
<1>2. ASSUME NEW s \in DOMAIN q
      PROVE  Aged(q)[s] \in Info
  <2>1. q[s] \in Info
    BY DEF IsQueue
  <2>2. Aged(q)[s] = [q[s] EXCEPT !.age = IF @ = MaxAge THEN @ ELSE @ + 1]
    BY DEF Aged
  <2> QED
    BY <2>1, <2>2, EntryTypes DEF Info
<1> QED
  BY <1>1, <1>2 DEF IsQueue

----------------------------------------------------------------------------
(* The inductive invariant *)

LEMMA InitIInv == Init => IInv
<1> SUFFICES ASSUME Init PROVE IInv
  OBVIOUS
<1>1. IsQueue(activeQ) /\ IsQueue(backoffQ) /\ IsQueue(unschedulable)
  BY DEF Init, IsQueue
<1>2. schedulingCycle \in 0..MaxCycle /\ moveRequestCycle \in -1..schedulingCycle
      /\ cycleRead \in 0..MaxCycle
  BY SchedulingQueueAssumption DEF Init
<1>3. current \in [stage : Stages \cup {NoStage}, attempts : 0..MaxAttempts]
  BY SchedulingQueueAssumption DEF Init
<1>4. TypeOK
  BY <1>1, <1>2, <1>3 DEF Init, TypeOK, PopperPC
<1>5. SingleLocation /\ PopSleepsOnlyWhenEmpty /\ AttemptRecorded
  BY DEF Init, SingleLocation, PopSleepsOnlyWhenEmpty, AttemptRecorded
<1> QED
  BY <1>4, <1>5 DEF IInv

\* Broadcast leaves Pop awake and the loop where it was otherwise.
LEMMA BroadcastWakes ==
  ASSUME popper \in PopperPC, Broadcast
  PROVE  /\ popper' \in PopperPC /\ popper' # "asleep"
         /\ popper' \in {"attempt", "requeue"} => popper' = popper
  BY DEF Broadcast, PopperPC

\* Stages only move between the sub-queues while the loop stays where it is,
\* or is woken: what the actions of the handlers and timers have in common.
LEMMA QueueStep ==
  ASSUME IInv,
         IsQueue(activeQ'), IsQueue(backoffQ'), IsQueue(unschedulable'),
         SingleLocation',
         UNCHANGED <<schedulingCycle, current, cycleRead>>,
         \/ UNCHANGED <<moveRequestCycle, moveSeen>>
         \/ moveRequestCycle' = schedulingCycle /\ moveSeen' = TRUE,
         closed' \in BOOLEAN,
         \/ Broadcast
         \/ UNCHANGED <<popper, closed>> /\ DOMAIN activeQ' \subseteq DOMAIN activeQ
  PROVE  IInv'
<1> USE DEF IInv
<1>1. popper' \in PopperPC /\ (popper' \in {"attempt", "requeue"} => popper' = popper)
  BY BroadcastWakes DEF TypeOK
<1>2. PopSleepsOnlyWhenEmpty'
  <2>1. CASE Broadcast
    BY <2>1, BroadcastWakes DEF TypeOK, PopSleepsOnlyWhenEmpty
  <2>2. CASE UNCHANGED <<popper, closed>> /\ DOMAIN activeQ' \subseteq DOMAIN activeQ
    BY <2>2 DEF PopSleepsOnlyWhenEmpty
  <2> QED
    BY <2>1, <2>2
<1>3. TypeOK'
  <2>1. schedulingCycle' \in 0..MaxCycle /\ cycleRead' \in 0..MaxCycle
        /\ current' \in [stage : Stages \cup {NoStage}, attempts : 0..MaxAttempts]
    BY DEF TypeOK
  <2>2. moveRequestCycle' \in -1..schedulingCycle'
    BY SchedulingQueueAssumption DEF TypeOK
  <2>3. moveSeen' \in BOOLEAN
    BY DEF TypeOK
  <2> QED
    BY <1>1, <2>1, <2>2, <2>3 DEF TypeOK
<1>4. AttemptRecorded'
  BY <1>1 DEF AttemptRecorded
<1> QED
  BY <1>2, <1>3, <1>4

LEMMA AddStep == ASSUME IInv, NEW s \in Stages, Add(s) PROVE IInv'
<1> USE DEF IInv
<1>1. /\ IsQueue(activeQ') /\ DOMAIN activeQ' = DOMAIN activeQ \cup {s}
      /\ IsQueue(backoffQ') /\ DOMAIN backoffQ' = DOMAIN backoffQ \ {s}
      /\ IsQueue(unschedulable') /\ DOMAIN unschedulable' = DOMAIN unschedulable \ {s}
  BY WithQueue, WithoutQueue, EntryTypes DEF Add, TypeOK
<1>2. SingleLocation'
  BY <1>1 DEF SingleLocation
<1> QED
  BY <1>1, <1>2, QueueStep DEF Add, TypeOK

LEMMA ActivateStep == ASSUME IInv, NEW stages \in SUBSET Stages, Activate(stages) PROVE IInv'
<1> USE DEF IInv
<1> DEFINE activated == stages \ DOMAIN activeQ
           unfit == activated \cap DOMAIN unschedulable
           backingOff == (activated \cap DOMAIN backoffQ) \ DOMAIN unschedulable
           q == MoveInto(activeQ, unfit, unschedulable)
<1>1. IsQueue(activeQ) /\ IsQueue(backoffQ) /\ IsQueue(unschedulable)
  BY DEF TypeOK
<1>2. /\ activeQ' = MoveInto(q, backingOff, backoffQ)
      /\ unschedulable' = Without(unschedulable, activated)
      /\ backoffQ' = Without(backoffQ, activated)
  BY DEF Activate
<1>3. IsQueue(q) /\ DOMAIN q = DOMAIN activeQ \cup unfit
  BY <1>1, MoveIntoQueue
<1> HIDE DEF q
<1>4. IsQueue(activeQ') /\ DOMAIN activeQ' = DOMAIN q \cup backingOff
  <2>1. backingOff \subseteq DOMAIN backoffQ
    OBVIOUS
  <2> HIDE DEF backingOff
  <2> QED
    BY <1>1, <1>2, <1>3, <2>1, MoveIntoQueue
<1>5. IsQueue(backoffQ') /\ DOMAIN backoffQ' = DOMAIN backoffQ \ activated
  BY <1>1, <1>2, WithoutQueue
<1>6. IsQueue(unschedulable') /\ DOMAIN unschedulable' = DOMAIN unschedulable \ activated
  BY <1>1, <1>2, WithoutQueue
<1>7. SingleLocation'
  BY <1>3, <1>4, <1>5, <1>6 DEF SingleLocation
<1>8. /\ UNCHANGED <<schedulingCycle, moveRequestCycle, closed, current, cycleRead, moveSeen>>
      /\ Broadcast /\ closed' \in BOOLEAN
  BY DEF Activate, TypeOK
<1> QED
  BY <1>4, <1>5, <1>6, <1>7, <1>8, QueueStep

LEMMA DeleteStep == ASSUME IInv, NEW s \in Stages, Delete(s) PROVE IInv'
<1> USE DEF IInv
<1>1. /\ IsQueue(activeQ') /\ DOMAIN activeQ' \subseteq DOMAIN activeQ
      /\ IsQueue(backoffQ') /\ DOMAIN backoffQ' \subseteq DOMAIN backoffQ
      /\ IsQueue(unschedulable') /\ DOMAIN unschedulable' \subseteq DOMAIN unschedulable
  <2>1. IsQueue(activeQ) /\ IsQueue(backoffQ) /\ IsQueue(unschedulable)
    BY DEF TypeOK
  <2>2. /\ IsQueue(Without(activeQ, {s}))
        /\ DOMAIN Without(activeQ, {s}) = DOMAIN activeQ \ {s}
    BY <2>1, WithoutQueue
  <2>3. /\ IsQueue(Without(backoffQ, {s}))
        /\ DOMAIN Without(backoffQ, {s}) = DOMAIN backoffQ \ {s}
    BY <2>1, WithoutQueue
  <2>4. /\ IsQueue(Without(unschedulable, {s}))
        /\ DOMAIN Without(unschedulable, {s}) = DOMAIN unschedulable \ {s}
    BY <2>1, WithoutQueue
  <2>5. /\ activeQ' = Without(activeQ, {s})
        /\ backoffQ' = backoffQ \/ backoffQ' = Without(backoffQ, {s})
        /\ unschedulable' = unschedulable \/ unschedulable' = Without(unschedulable, {s})
    BY DEF Delete
  <2>6. IsQueue(activeQ') /\ DOMAIN activeQ' \subseteq DOMAIN activeQ
    BY <2>2, <2>5
  <2>7. IsQueue(backoffQ') /\ DOMAIN backoffQ' \subseteq DOMAIN backoffQ
    BY <2>1, <2>3, <2>5
  <2>8. IsQueue(unschedulable') /\ DOMAIN unschedulable' \subseteq DOMAIN unschedulable
    BY <2>1, <2>4, <2>5
  <2> QED
    BY <2>6, <2>7, <2>8
<1>2. SingleLocation'
  BY <1>1 DEF SingleLocation
<1> QED
  BY <1>1, <1>2, QueueStep DEF Delete, TypeOK, loopvars

\* The four cases of Update: in place in each sub-queue, out of unschedulable
\* into one of the other two, and new in activeQ.
LEMMA UpdateStep ==
  ASSUME IInv, NEW s \in Stages, NEW isStageUpdated \in BOOLEAN, Update(s, isStageUpdated)
  PROVE  IInv'
<1> USE DEF IInv
<1>q. IsQueue(activeQ) /\ IsQueue(backoffQ) /\ IsQueue(unschedulable)
  BY DEF TypeOK
<1>r. UNCHANGED <<schedulingCycle, moveRequestCycle, closed, current, cycleRead, moveSeen>>
      /\ closed' \in BOOLEAN
  BY DEF Update, TypeOK
<1>1. CASE s \in DOMAIN activeQ
  <2>1. UNCHANGED <<backoffQ, unschedulable, popper>>
        /\ activeQ' = With(activeQ, s, activeQ[s])
    BY <1>1 DEF Update, updateStage, SingleLocation, Queued
  <2>2. IsQueue(activeQ') /\ DOMAIN activeQ' = DOMAIN activeQ
    <3>1. activeQ[s] \in Info
      BY <1>1, <1>q DEF IsQueue
    <3>2. IsQueue(activeQ') /\ DOMAIN activeQ' = DOMAIN activeQ \cup {s}
      BY <3>1, <1>q, <2>1, WithQueue
    <3> QED
      BY <3>2, <1>1
  <2> QED
    BY <1>q, <1>r, <2>1, <2>2, QueueStep DEF SingleLocation
<1>2. CASE s \in DOMAIN backoffQ
  <2>1. UNCHANGED <<activeQ, unschedulable, popper>>
        /\ backoffQ' = With(backoffQ, s, backoffQ[s])
    BY <1>2 DEF Update, updateStage, SingleLocation, Queued
  <2>2. IsQueue(backoffQ') /\ DOMAIN backoffQ' = DOMAIN backoffQ
    <3>1. backoffQ[s] \in Info
      BY <1>2, <1>q DEF IsQueue
    <3>2. IsQueue(backoffQ') /\ DOMAIN backoffQ' = DOMAIN backoffQ \cup {s}
      BY <3>1, <1>q, <2>1, WithQueue
    <3> QED
      BY <3>2, <1>2
  <2> QED
    BY <1>q, <1>r, <2>1, <2>2, QueueStep DEF SingleLocation
<1>3. CASE s \in DOMAIN unschedulable
  <2> DEFINE p == unschedulable[s]
  <2>1. p \in Info
    BY <1>3, <1>q DEF IsQueue
  <2>2. \/ /\ backoffQ' = With(backoffQ, s, p) /\ unschedulable' = Without(unschedulable, {s})
           /\ UNCHANGED <<activeQ, popper>>
        \/ /\ activeQ' = With(activeQ, s, p) /\ unschedulable' = Without(unschedulable, {s})
           /\ Broadcast /\ UNCHANGED backoffQ
        \/ unschedulable' = With(unschedulable, s, p) /\ UNCHANGED <<activeQ, backoffQ, popper>>
    BY <1>3 DEF Update, updateStage, SingleLocation, Queued
  <2>3. /\ IsQueue(With(backoffQ, s, p)) /\ DOMAIN With(backoffQ, s, p) = DOMAIN backoffQ \cup {s}
        /\ IsQueue(With(activeQ, s, p)) /\ DOMAIN With(activeQ, s, p) = DOMAIN activeQ \cup {s}
        /\ IsQueue(With(unschedulable, s, p))
        /\ DOMAIN With(unschedulable, s, p) = DOMAIN unschedulable \cup {s}
        /\ IsQueue(Without(unschedulable, {s}))
        /\ DOMAIN Without(unschedulable, {s}) = DOMAIN unschedulable \ {s}
    BY <1>q, <2>1, WithQueue, WithoutQueue
  <2> HIDE DEF p
  <2>4. /\ IsQueue(activeQ') /\ IsQueue(backoffQ') /\ IsQueue(unschedulable')
        /\ SingleLocation'
        /\ Broadcast \/ (UNCHANGED popper /\ DOMAIN activeQ' \subseteq DOMAIN activeQ)
    <3>1. CASE /\ backoffQ' = With(backoffQ, s, p) /\ unschedulable' = Without(unschedulable, {s})
               /\ UNCHANGED <<activeQ, popper>>
      BY <3>1, <1>3, <1>q, <2>3 DEF SingleLocation
    <3>2. CASE /\ activeQ' = With(activeQ, s, p) /\ unschedulable' = Without(unschedulable, {s})
               /\ Broadcast /\ UNCHANGED backoffQ
      BY <3>2, <1>3, <1>q, <2>3 DEF SingleLocation
    <3>3. CASE unschedulable' = With(unschedulable, s, p) /\ UNCHANGED <<activeQ, backoffQ, popper>>
      BY <3>3, <1>3, <1>q, <2>3 DEF SingleLocation
    <3> QED
      BY <2>2, <3>1, <3>2, <3>3
  <2> QED
    BY <1>r, <2>4, QueueStep
<1>4. CASE s \notin Queued
  <2>1. UNCHANGED <<backoffQ, unschedulable>> /\ Broadcast
        /\ activeQ' = With(activeQ, s, newQueuedStageInfo)
    BY <1>4 DEF Update, Queued
  <2>2. IsQueue(activeQ') /\ DOMAIN activeQ' = DOMAIN activeQ \cup {s}
    BY <1>q, <2>1, WithQueue, EntryTypes
  <2>3. SingleLocation'
    BY <1>4, <2>1, <2>2 DEF SingleLocation, Queued
  <2> QED
    BY <1>q, <1>r, <2>1, <2>2, <2>3, QueueStep
<1> QED
  BY <1>1, <1>2, <1>3, <1>4 DEF Queued

\* Whatever part of unschedulable a move request takes.
LEMMA MoveStep ==
  ASSUME IInv, NEW S, S \subseteq DOMAIN unschedulable, moveStagesToActiveOrBackoffQueue(S)
  PROVE  IInv'
<1> USE DEF IInv
<1> DEFINE backing == {s \in S : isStageBackingoff(unschedulable[s])}
<1>1. /\ backoffQ' = MoveInto(backoffQ, backing, unschedulable)
      /\ activeQ' = MoveInto(activeQ, S \ backing, unschedulable)
      /\ unschedulable' = Without(unschedulable, S)
      /\ BroadcastIf(S \ backing # {})
  BY DEF moveStagesToActiveOrBackoffQueue
<1>2. backing \subseteq S
  OBVIOUS
<1> HIDE DEF backing
<1>3. IsQueue(activeQ) /\ IsQueue(backoffQ) /\ IsQueue(unschedulable)
  BY DEF TypeOK
<1>4. IsQueue(backoffQ') /\ DOMAIN backoffQ' = DOMAIN backoffQ \cup backing
  BY <1>1, <1>2, <1>3, MoveIntoQueue
<1>5. IsQueue(activeQ') /\ DOMAIN activeQ' = DOMAIN activeQ \cup (S \ backing)
  BY <1>1, <1>2, <1>3, MoveIntoQueue
<1>6. IsQueue(unschedulable') /\ DOMAIN unschedulable' = DOMAIN unschedulable \ S
  BY <1>1, <1>3, WithoutQueue
<1>7. SingleLocation'
  BY <1>2, <1>4, <1>5, <1>6 DEF SingleLocation
<1>8. Broadcast \/ (UNCHANGED popper /\ DOMAIN activeQ' \subseteq DOMAIN activeQ)
  <2>1. CASE S \ backing = {}
    <3>1. UNCHANGED popper
      BY <2>1, <1>1 DEF BroadcastIf
    <3> QED
      BY <2>1, <3>1, <1>5
  <2>2. CASE S \ backing # {}
    BY <2>2, <1>1 DEF BroadcastIf
  <2> QED
    BY <2>1, <2>2
<1>9. /\ UNCHANGED <<schedulingCycle, closed, current, cycleRead>> /\ closed' \in BOOLEAN
      /\ moveRequestCycle' = schedulingCycle /\ moveSeen' = TRUE
  BY DEF moveStagesToActiveOrBackoffQueue, TypeOK
<1> QED
  BY <1>4, <1>5, <1>6, <1>7, <1>8, <1>9, QueueStep

LEMMA FlushBackoffStep == ASSUME IInv, flushBackoffQCompleted PROVE IInv'
<1> USE DEF IInv
<1>1. PICK S : /\ S \subseteq DOMAIN backoffQ
               /\ activeQ' = MoveInto(activeQ, S, backoffQ)
               /\ backoffQ' = Without(backoffQ, S)
  BY DEF flushBackoffQCompleted
<1>2. IsQueue(activeQ) /\ IsQueue(backoffQ) /\ IsQueue(unschedulable)
  BY DEF TypeOK
<1>3. IsQueue(activeQ') /\ DOMAIN activeQ' = DOMAIN activeQ \cup S
  BY <1>1, <1>2, MoveIntoQueue
<1>4. IsQueue(backoffQ') /\ DOMAIN backoffQ' = DOMAIN backoffQ \ S
  BY <1>1, <1>2, WithoutQueue
<1>5. /\ UNCHANGED <<unschedulable, schedulingCycle, moveRequestCycle, closed, current,
                     cycleRead, moveSeen>>
      /\ Broadcast /\ closed' \in BOOLEAN
  BY DEF flushBackoffQCompleted, TypeOK
<1>6. SingleLocation'
  BY <1>1, <1>3, <1>4, <1>5 DEF SingleLocation
<1> QED
  BY <1>2, <1>3, <1>4, <1>5, <1>6, QueueStep

LEMMA CloseStep == ASSUME IInv, Close PROVE IInv'
<1>1. IsQueue(activeQ') /\ IsQueue(backoffQ') /\ IsQueue(unschedulable') /\ SingleLocation'
  BY DEF IInv, TypeOK, SingleLocation, Close, queues
<1> QED
  BY <1>1, QueueStep DEF Close

LEMMA TickStep == ASSUME IInv, Tick PROVE IInv'
<1>1. /\ IsQueue(activeQ') /\ DOMAIN activeQ' = DOMAIN activeQ
      /\ IsQueue(backoffQ') /\ DOMAIN backoffQ' = DOMAIN backoffQ
      /\ IsQueue(unschedulable') /\ DOMAIN unschedulable' = DOMAIN unschedulable
  BY AgedQueue DEF IInv, TypeOK, Tick
<1>2. SingleLocation'
  BY <1>1 DEF IInv, SingleLocation
<1>3. /\ UNCHANGED <<schedulingCycle, moveRequestCycle, closed, popper, current, cycleRead, moveSeen>>
      /\ closed' \in BOOLEAN
  BY DEF IInv, TypeOK, Tick, loopvars
<1> QED
  BY <1>1, <1>2, <1>3, QueueStep

----------------------------------------------------------------------------
(* The scheduling loop *)

\* Waiting, leaving after Close, and the two ways an attempt ends: only the
\* loop's own state changes.
LEMMA LoopStep ==
  ASSUME IInv, PopWaits \/ PopClosed \/ AttemptEnds \/ AttemptFails
  PROVE  IInv'
<1> USE DEF IInv
<1>1. UNCHANGED <<activeQ, backoffQ, unschedulable, schedulingCycle, moveRequestCycle, closed,
                  moveSeen>>
  BY DEF PopWaits, PopClosed, AttemptEnds, AttemptFails, queues
<1>2. SingleLocation'
  BY <1>1 DEF SingleLocation
<1>3. PopSleepsOnlyWhenEmpty'
  BY <1>1 DEF PopSleepsOnlyWhenEmpty, PopWaits, PopClosed, AttemptEnds, AttemptFails
<1>4. /\ popper' \in PopperPC
      /\ current' \in [stage : Stages \cup {NoStage}, attempts : 0..MaxAttempts]
  BY SchedulingQueueAssumption
     DEF TypeOK, PopperPC, PopWaits, PopClosed, AttemptEnds, AttemptFails
<1>5. cycleRead' \in 0..MaxCycle
  BY DEF TypeOK, PopWaits, PopClosed, AttemptEnds, AttemptFails
<1>6. TypeOK'
  BY <1>1, <1>4, <1>5 DEF TypeOK, IsQueue
<1>7. AttemptRecorded'
  BY <1>1 DEF AttemptRecorded, PopWaits, PopClosed, AttemptEnds, AttemptFails
<1> QED
  BY <1>2, <1>3, <1>6, <1>7

LEMMA PopStageStep == ASSUME IInv, PopStage PROVE IInv'
<1> USE DEF IInv
<1>1. PICK s \in DOMAIN activeQ :
        /\ current' = [stage |-> s,
                       attempts |-> IF activeQ[s].attempts = MaxAttempts THEN MaxAttempts
                                    ELSE activeQ[s].attempts + 1]
        /\ activeQ' = Without(activeQ, {s})
  BY DEF PopStage, Heads
<1>2. IsQueue(activeQ) /\ IsQueue(backoffQ) /\ IsQueue(unschedulable)
  BY DEF TypeOK
<1>3. /\ UNCHANGED <<backoffQ, unschedulable, moveRequestCycle, closed, cycleRead>>
      /\ schedulingCycle' = schedulingCycle + 1 /\ schedulingCycle < MaxCycle
      /\ popper' = "attempt" /\ moveSeen' = FALSE
  BY DEF PopStage
<1>4. IsQueue(activeQ') /\ DOMAIN activeQ' = DOMAIN activeQ \ {s}
  BY <1>1, <1>2, WithoutQueue
<1>5. s \in Stages /\ activeQ[s].attempts \in 0..MaxAttempts
  BY <1>2 DEF IsQueue, Info
<1>6. current' \in [stage : Stages \cup {NoStage}, attempts : 0..MaxAttempts]
      /\ current'.stage \in Stages
  BY <1>1, <1>5, SchedulingQueueAssumption
<1>7. schedulingCycle' \in 0..MaxCycle /\ moveRequestCycle' \in -1..schedulingCycle'
  BY <1>3, SchedulingQueueAssumption DEF TypeOK
<1>8. TypeOK'
  BY <1>2, <1>3, <1>4, <1>6, <1>7 DEF TypeOK, PopperPC
<1>9. SingleLocation' /\ PopSleepsOnlyWhenEmpty' /\ AttemptRecorded'
  BY <1>3, <1>4, <1>6 DEF SingleLocation, PopSleepsOnlyWhenEmpty, AttemptRecorded
<1> QED
  BY <1>8, <1>9

LEMMA RequeueStep == ASSUME IInv, AddUnschedulableIfNotPresent PROVE IInv'
<1> USE DEF IInv
<1> DEFINE s == current.stage
           p == [attempts |-> current.attempts, age |-> 0]
<1>1. IsQueue(activeQ) /\ IsQueue(backoffQ) /\ IsQueue(unschedulable)
  BY DEF TypeOK
<1>2. s \in Stages /\ p \in Info
  BY EntryTypes DEF AddUnschedulableIfNotPresent, AttemptRecorded, TypeOK
<1>3. /\ IsQueue(activeQ') /\ IsQueue(backoffQ') /\ IsQueue(unschedulable')
      /\ SingleLocation'
  <2>1. CASE s \in Queued
    BY <2>1, <1>1 DEF AddUnschedulableIfNotPresent, queues, SingleLocation
  <2>2. CASE s \notin Queued /\ backoffQ' = With(backoffQ, s, p)
             /\ UNCHANGED <<activeQ, unschedulable>>
    <3>1. IsQueue(backoffQ') /\ DOMAIN backoffQ' = DOMAIN backoffQ \cup {s}
      BY <2>2, <1>1, <1>2, WithQueue
    <3> QED
      BY <3>1, <2>2, <1>1 DEF SingleLocation, Queued
  <2>3. CASE s \notin Queued /\ unschedulable' = With(unschedulable, s, p)
             /\ UNCHANGED <<activeQ, backoffQ>>
    <3>1. IsQueue(unschedulable') /\ DOMAIN unschedulable' = DOMAIN unschedulable \cup {s}
      BY <2>3, <1>1, <1>2, WithQueue
    <3> QED
      BY <3>1, <2>3, <1>1 DEF SingleLocation, Queued
  <2> QED
    BY <2>1, <2>2, <2>3 DEF AddUnschedulableIfNotPresent
<1>4. /\ UNCHANGED <<schedulingCycle, moveRequestCycle, closed, moveSeen>>
      /\ popper' = "pop" /\ current' = [stage |-> NoStage, attempts |-> 0] /\ cycleRead' = 0
  BY DEF AddUnschedulableIfNotPresent
<1>5. cycleRead' \in 0..MaxCycle
      /\ current' \in [stage : Stages \cup {NoStage}, attempts : 0..MaxAttempts]
  BY <1>4, SchedulingQueueAssumption
<1>6. TypeOK'
  BY <1>3, <1>4, <1>5 DEF TypeOK, PopperPC
<1>7. PopSleepsOnlyWhenEmpty' /\ AttemptRecorded'
  BY <1>4 DEF PopSleepsOnlyWhenEmpty, AttemptRecorded
<1> QED
  BY <1>3, <1>6, <1>7

----------------------------------------------------------------------------
(* The theorems *)

LEMMA NextIInv == IInv /\ [Next]_vars => IInv'
<1> SUFFICES ASSUME IInv, [Next]_vars PROVE IInv'
  OBVIOUS
<1>0. ASSUME NEW stages \in SUBSET Stages, Activate(stages) PROVE IInv'
  BY <1>0, ActivateStep
<1>1. ASSUME NEW s \in Stages, Add(s) \/ Delete(s) PROVE IInv'
  BY <1>1, AddStep, DeleteStep
<1>2. ASSUME NEW s \in Stages, NEW b \in BOOLEAN, Update(s, b) PROVE IInv'
  BY <1>2, UpdateStep
<1>3. CASE MoveAllToActiveOrBackoffQueue
  BY <1>3, MoveStep DEF MoveAllToActiveOrBackoffQueue
<1>4. CASE flushUnschedulableStagesLeftover
  BY <1>4, MoveStep DEF flushUnschedulableStagesLeftover
<1>5. CASE flushBackoffQCompleted
  BY <1>5, FlushBackoffStep
<1>6. CASE SchedulingLoop
  BY <1>6, LoopStep, PopStageStep, RequeueStep DEF SchedulingLoop, Pop
<1>7. CASE Close
  BY <1>7, CloseStep
<1>8. CASE Tick
  BY <1>8, TickStep
<1>9. CASE UNCHANGED vars
  BY <1>9 DEF vars, IInv, TypeOK, IsQueue, SingleLocation, PopSleepsOnlyWhenEmpty,
              AttemptRecorded
<1> QED
  BY <1>0, <1>1, <1>2, <1>3, <1>4, <1>5, <1>6, <1>7, <1>8, <1>9 DEF Next

LEMMA Invariance == Spec => []IInv
  BY InitIInv, NextIInv, PTL DEF Spec

\* Every sub-queue holds entries of stages only, the cycle counters stay in
\* range and a move request is never dated after the last Pop.
THEOREM TypeCorrect == Spec => []TypeOK
<1>1. IInv => TypeOK
  BY DEF IInv
<1> QED
  BY <1>1, Invariance, PTL

\* No order of events, flushes, moves and failed attempts puts a stage into
\* two sub-queues.
THEOREM OneLocation == Spec => []SingleLocation
<1>1. IInv => SingleLocation
  BY DEF IInv
<1> QED
  BY <1>1, Invariance, PTL

\* Pop never sleeps on a queue that has a stage for it, or that is closed.
THEOREM NoLostWakeup == Spec => []PopSleepsOnlyWhenEmpty
<1>1. IInv => PopSleepsOnlyWhenEmpty
  BY DEF IInv
<1> QED
  BY <1>1, Invariance, PTL

\* A failed stage enters unschedulable only when no move request came since
\* it was popped.
THEOREM MoveNotMissed == Spec => MoveRequestNotMissed
<1>1. IInv /\ [Next]_vars => [\A s \in DOMAIN unschedulable' \ DOMAIN unschedulable : ~moveSeen]_vars
  <2> SUFFICES ASSUME IInv, [Next]_vars, NEW s \in DOMAIN unschedulable' \ DOMAIN unschedulable
               PROVE  ~moveSeen
    OBVIOUS
  <2> USE DEF IInv
  <2>1. CASE AddUnschedulableIfNotPresent
    <3>1. moveRequestCycle < cycleRead /\ popper = "requeue"
      BY <2>1 DEF AddUnschedulableIfNotPresent, queues
    <3>2. cycleRead = schedulingCycle /\ schedulingCycle \in Int
      BY <3>1, SchedulingQueueAssumption DEF AttemptRecorded, TypeOK
    <3> QED
      BY <3>1, <3>2 DEF AttemptRecorded
  <2>0. ASSUME NEW stages \in SUBSET Stages, Activate(stages) PROVE FALSE
    BY <2>0 DEF Activate, Without
  <2>2. ASSUME NEW t \in Stages, Add(t) \/ Delete(t) PROVE FALSE
    BY <2>2 DEF Add, Delete, Without
  <2>3. ASSUME NEW t \in Stages, NEW b \in BOOLEAN, Update(t, b) PROVE FALSE
    BY <2>3 DEF Update, Without, With
  <2>4. ASSUME NEW S, moveStagesToActiveOrBackoffQueue(S) PROVE FALSE
    BY <2>4 DEF moveStagesToActiveOrBackoffQueue, Without
  <2>5. CASE MoveAllToActiveOrBackoffQueue \/ flushUnschedulableStagesLeftover
    BY <2>4, <2>5 DEF MoveAllToActiveOrBackoffQueue, flushUnschedulableStagesLeftover
  <2>6. CASE flushBackoffQCompleted \/ Close \/ Tick
    BY <2>6 DEF flushBackoffQCompleted, Close, Tick, Aged, queues
  <2>7. CASE Pop \/ AttemptEnds \/ AttemptFails
    BY <2>7 DEF Pop, PopWaits, PopClosed, PopStage, AttemptEnds, AttemptFails, queues
  <2>8. CASE UNCHANGED vars
    BY <2>8 DEF vars
  <2> QED
    BY <2>0, <2>1, <2>2, <2>3, <2>5, <2>6, <2>7, <2>8 DEF Next, SchedulingLoop
<1> QED
  BY <1>1, Invariance, PTL DEF Spec, MoveRequestNotMissed

----------------------------------------------------------------------------
(* No stage falls out *)

\* The stages stay queued and the error path stays where it is.
Keeps == Queued \subseteq Queued' /\ (popper = "requeue" => popper' = popper)

LEMMA BroadcastKeeps ==
  Broadcast => (popper = "requeue" => popper' = popper)
  BY DEF Broadcast

LEMMA AddKeeps == ASSUME NEW s \in Stages, Add(s) PROVE Keeps
<1>1. /\ DOMAIN activeQ' = DOMAIN activeQ \cup {s} /\ DOMAIN backoffQ' = DOMAIN backoffQ \ {s}
      /\ DOMAIN unschedulable' = DOMAIN unschedulable \ {s} /\ Broadcast
  BY DEF Add, With, Without
<1> QED
  BY <1>1, BroadcastKeeps DEF Keeps, Queued

\* A stage that is in both of the other queues comes from unschedulable.
LEMMA ActivateKeeps == ASSUME NEW stages \in SUBSET Stages, Activate(stages) PROVE Keeps
<1> DEFINE activated == stages \ DOMAIN activeQ
           backingOff == (activated \cap DOMAIN backoffQ) \ DOMAIN unschedulable
<1>1. /\ DOMAIN activeQ' = (DOMAIN activeQ \cup (activated \cap DOMAIN unschedulable)) \cup backingOff
      /\ DOMAIN unschedulable' = DOMAIN unschedulable \ activated
      /\ DOMAIN backoffQ' = DOMAIN backoffQ \ activated
      /\ Broadcast
  BY DEF Activate, MoveInto, Without
<1> QED
  BY <1>1, BroadcastKeeps DEF Keeps, Queued

LEMMA UpdateKeeps ==
  ASSUME NEW s \in Stages, NEW b \in BOOLEAN, Update(s, b)
  PROVE  Keeps
<1> DEFINE p == unschedulable[s]
<1>1. CASE /\ s \in DOMAIN activeQ \cup DOMAIN backoffQ
           /\ UNCHANGED <<unschedulable, popper>>
           /\ \/ activeQ' = With(activeQ, s, activeQ[s]) /\ UNCHANGED backoffQ
              \/ backoffQ' = With(backoffQ, s, backoffQ[s]) /\ UNCHANGED activeQ
  BY <1>1 DEF With, Keeps, Queued
<1>2. CASE /\ s \in DOMAIN unschedulable
           /\ backoffQ' = With(backoffQ, s, p) /\ unschedulable' = Without(unschedulable, {s})
           /\ UNCHANGED <<activeQ, popper>>
  BY <1>2 DEF With, Without, Keeps, Queued
<1>3. CASE /\ s \in DOMAIN unschedulable
           /\ activeQ' = With(activeQ, s, p) /\ unschedulable' = Without(unschedulable, {s})
           /\ Broadcast /\ UNCHANGED backoffQ
  BY <1>3, BroadcastKeeps DEF With, Without, Keeps, Queued
<1>4. CASE unschedulable' = With(unschedulable, s, p) /\ UNCHANGED <<activeQ, backoffQ, popper>>
  BY <1>4 DEF With, Keeps, Queued
<1>5. CASE /\ activeQ' = With(activeQ, s, newQueuedStageInfo) /\ Broadcast
           /\ UNCHANGED <<backoffQ, unschedulable>>
  BY <1>5, BroadcastKeeps DEF With, Keeps, Queued
<1> QED
  BY <1>1, <1>2, <1>3, <1>4, <1>5 DEF Update, updateStage

LEMMA MoveKeeps == ASSUME NEW S, moveStagesToActiveOrBackoffQueue(S) PROVE Keeps
<1> DEFINE backing == {s \in S : isStageBackingoff(unschedulable[s])}
<1>1. /\ DOMAIN backoffQ' = DOMAIN backoffQ \cup backing
      /\ DOMAIN activeQ' = DOMAIN activeQ \cup (S \ backing)
      /\ DOMAIN unschedulable' = DOMAIN unschedulable \ S
      /\ Broadcast \/ UNCHANGED popper
  BY DEF moveStagesToActiveOrBackoffQueue, MoveInto, Without, BroadcastIf
<1> HIDE DEF backing
<1> QED
  BY <1>1, BroadcastKeeps DEF Keeps, Queued

LEMMA FlushBackoffKeeps == ASSUME flushBackoffQCompleted PROVE Keeps
<1>1. PICK S : /\ DOMAIN activeQ' = DOMAIN activeQ \cup S
               /\ DOMAIN backoffQ' = DOMAIN backoffQ \ S
  BY DEF flushBackoffQCompleted, MoveInto, Without
<1>2. UNCHANGED unschedulable /\ Broadcast
  BY DEF flushBackoffQCompleted
<1> QED
  BY <1>1, <1>2, BroadcastKeeps DEF Keeps, Queued

LEMMA TickKeeps == ASSUME Tick PROVE Keeps
<1>1. /\ DOMAIN activeQ' = DOMAIN activeQ /\ DOMAIN backoffQ' = DOMAIN backoffQ
      /\ DOMAIN unschedulable' = DOMAIN unschedulable /\ UNCHANGED popper
  BY DEF Tick, Aged, loopvars
<1> QED
  BY <1>1 DEF Keeps, Queued

\* A queued stage leaves the queue only when it is popped or deleted, and the
\* error path leaves its stage queued, whether it puts it back itself or finds
\* that an event did (AddUnschedulableIfNotPresent's "already present").
THEOREM NoStageFallsOut == Spec => StagesAreNotLost
<1> DEFINE Kept == /\ \A s \in Queued \ Queued' : current'.stage = s \/ Delete(s)
                   /\ popper = "requeue" /\ popper' # "requeue" => current.stage \in Queued'
<1>1. [Next]_vars => [Kept]_vars
  <2> SUFFICES ASSUME Next PROVE Kept
    OBVIOUS
  <2>k. Keeps => Kept
    BY DEF Keeps
  <2>1. ASSUME NEW s \in Stages, Add(s) PROVE Kept
    BY <2>1, <2>k, AddKeeps
  <2>2. ASSUME NEW s \in Stages, Delete(s) PROVE Kept
    <3>1. /\ Queued \subseteq Queued' \cup {s} /\ UNCHANGED popper
      BY <2>2 DEF Delete, Without, Queued, loopvars
    <3> QED
      BY <2>2, <3>1
  <2>3. ASSUME NEW stages \in SUBSET Stages, Activate(stages) PROVE Kept
    BY <2>3, <2>k, ActivateKeeps
  <2>4. ASSUME NEW s \in Stages, NEW b \in BOOLEAN, Update(s, b) PROVE Kept
    BY <2>4, <2>k, UpdateKeeps
  <2>5. CASE MoveAllToActiveOrBackoffQueue \/ flushUnschedulableStagesLeftover
    BY <2>5, <2>k, MoveKeeps DEF MoveAllToActiveOrBackoffQueue, flushUnschedulableStagesLeftover
  <2>6. CASE flushBackoffQCompleted
    BY <2>6, <2>k, FlushBackoffKeeps
  <2>7. CASE Tick
    BY <2>7, <2>k, TickKeeps
  <2>8. CASE Close
    <3>1. Queued' = Queued /\ Broadcast
      BY <2>8 DEF Close, queues, Queued
    <3> QED
      BY <2>k, <3>1, BroadcastKeeps DEF Keeps
  <2>9. CASE PopWaits \/ PopClosed \/ AttemptEnds \/ AttemptFails
    <3>1. Queued' = Queued /\ popper # "requeue"
      BY <2>9 DEF PopWaits, PopClosed, AttemptEnds, AttemptFails, queues, Queued
    <3> QED
      BY <3>1
  <2>10. CASE PopStage
    <3>1. PICK s : current'.stage = s /\ DOMAIN activeQ' = DOMAIN activeQ \ {s}
      BY <2>10 DEF PopStage, Without
    <3>2. UNCHANGED <<backoffQ, unschedulable>> /\ popper # "requeue"
      BY <2>10 DEF PopStage
    <3> QED
      BY <3>1, <3>2 DEF Queued
  <2>11. CASE AddUnschedulableIfNotPresent
    <3> DEFINE s == current.stage
               p == [attempts |-> current.attempts, age |-> 0]
    <3>1. CASE s \in Queued /\ UNCHANGED queues
      BY <3>1 DEF queues, Queued
    <3>2. CASE backoffQ' = With(backoffQ, s, p) /\ UNCHANGED <<activeQ, unschedulable>>
      BY <3>2 DEF With, Queued
    <3>3. CASE unschedulable' = With(unschedulable, s, p) /\ UNCHANGED <<activeQ, backoffQ>>
      BY <3>3 DEF With, Queued
    <3> QED
      BY <2>11, <3>1, <3>2, <3>3 DEF AddUnschedulableIfNotPresent
  <2> QED
    BY <2>1, <2>2, <2>3, <2>4, <2>5, <2>6, <2>7, <2>8, <2>9, <2>10, <2>11
       DEF Next, SchedulingLoop, Pop
<1> QED
  BY <1>1, PTL DEF Spec, StagesAreNotLost
=============================================================================
