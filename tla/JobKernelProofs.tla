-------------------------- MODULE JobKernelProofs --------------------------
(***************************************************************************)
(* Proofs about JobKernel for any finite set of jobs and any sets of        *)
(* workers, runs and locks, any limits, with database faults and crashes.   *)
(* Exclusive holding is proved for one operator at a time: two concurrent   *)
(* replays of the same dead letter can make two workers hold its job.       *)
(***************************************************************************)
EXTENDS JobKernel, FiniteSetTheorems, TLAPS

OneOperator == \A o, p \in Operators : o = p

\* The free capacity a worker computes is a number.
LEMMA RoomType ==
  ASSUME TypeOK, NEW w \in Workers, Poll(w)
  PROVE  room' \in [Workers -> Nat]
<1> DEFINE free == GlobalMax - Cardinality(InProgress)
<1>1. Cardinality(InProgress) \in Nat
  <2>1. IsFiniteSet(InProgress)
    BY FiniteAssumption, FS_Subset DEF InProgress
  <2> QED
    BY <2>1, FS_CardinalityType
<1>2. free \in Int
  BY <1>1, BoundAssumption
<1>3. free > 0 /\ room' = [room EXCEPT ![w] = IF free < PoolSize THEN free ELSE PoolSize]
  BY DEF Poll
<1>4. (IF free < PoolSize THEN free ELSE PoolSize) \in Nat
  <2> HIDE DEF free
  <2> QED
    BY <1>2, <1>3, BoundAssumption
<1> QED
  BY <1>3, <1>4 DEF TypeOK

\* A worker inside executeOneJob.
Busy == {"lock", "requeue", "start", "handler", "success", "settle", "merge", "failure", "decide"}

\* What each point of the code has in hand.
ShapeOf(w) ==
  /\ pc[w] \in {"idle", "poll"} => batch[w] = {} /\ deferred[w] = {} /\ cur[w] = NoJob
  /\ pc[w] \in {"claimed", "loop"} => deferred[w] = {} /\ cur[w] = NoJob
  /\ pc[w] = "defer" => cur[w] = NoJob /\ batch[w] \cap deferred[w] = {}
  /\ pc[w] \in Busy => deferred[w] = {} /\ cur[w] \in Jobs \ batch[w]

Shape == \A w \in Workers : ShapeOf(w)

\* A step of the workers' code, a crash included.
WorkerStep(w) ==
  \/ Poll(w) \/ Progress(w) \/ Crash(w)
  \/ HandlerReturns(w) \/ HandlerThrows(w) \/ SuccessPathFails(w)

\* A worker's step leaves what the other workers have in hand alone.
LEMMA StepIsLocal ==
  ASSUME TypeOK, NEW w \in Workers, WorkerStep(w), NEW v \in Workers \ {w}
  PROVE  /\ pc'[v] = pc[v] /\ batch'[v] = batch[v]
         /\ deferred'[v] = deferred[v] /\ cur'[v] = cur[v]
<1> USE DEF TypeOK, Goto
<1>1. CASE Poll(w) \/ Claim(w) \/ Admit(w) \/ Defer(w) \/ LoopEnds(w)
  BY <1>1 DEF Poll, Claim, Admit, Defer, LoopEnds
<1>2. CASE Gate(w) \/ TryLock(w) \/ Requeue(w) \/ Start(w)
  BY <1>2 DEF Gate, TryLock, Requeue, Start
<1>3. CASE HandlerReturns(w) \/ HandlerThrows(w) \/ HandlerTimesOut(w)
          \/ SuccessPathFails(w) \/ DecideThrows(w) \/ Crash(w)
  BY <1>3 DEF HandlerReturns, HandlerThrows, HandlerTimesOut, SuccessPathFails, DecideThrows, Crash
<1>4. CASE WriteSucceeded(w) \/ Settle(w) \/ Merge(w) \/ Fail(w) \/ Decide(w)
  BY <1>4 DEF WriteSucceeded, Settle, Merge, Fail, Decide
<1> QED
  BY <1>1, <1>2, <1>3, <1>4 DEF WorkerStep, Progress

\* A worker's own step keeps its hands in the shape of the point it reaches.
LEMMA ShapeStep ==
  ASSUME TypeOK, NEW w \in Workers, ShapeOf(w), WorkerStep(w)
  PROVE  ShapeOf(w)'
<1> USE NoneAssumption DEF TypeOK, Goto, ShapeOf, Busy
<1>1. CASE Poll(w) \/ Claim(w) \/ LoopEnds(w)
  BY <1>1 DEF Poll, Claim, LoopEnds
<1>2. CASE Admit(w)
  BY <1>2 DEF Admit
<1>3. CASE Defer(w)
  BY <1>3 DEF Defer
<1>4. CASE Gate(w)
  BY <1>4 DEF Gate
<1>5. CASE TryLock(w)
  BY <1>5 DEF TryLock
<1>6. CASE Requeue(w) \/ Start(w) \/ Merge(w) \/ Decide(w)
  BY <1>6 DEF Requeue, Start, Merge, Decide
<1>7. CASE HandlerReturns(w) \/ HandlerThrows(w) \/ HandlerTimesOut(w)
          \/ SuccessPathFails(w) \/ DecideThrows(w) \/ Crash(w)
  BY <1>7 DEF HandlerReturns, HandlerThrows, HandlerTimesOut, SuccessPathFails, DecideThrows, Crash
<1>8. CASE WriteSucceeded(w) \/ Settle(w) \/ Fail(w)
  BY <1>8 DEF WriteSucceeded, Settle, Fail
<1> QED
  BY <1>1, <1>2, <1>3, <1>4, <1>5, <1>6, <1>7, <1>8 DEF WorkerStep, Progress

\* Every status, program counter and row of the kernel stays in its type
\* through all interleavings of workers, operators and crashes.
THEOREM TypeCorrect == Spec => [](TypeOK /\ Shape)
<1> USE NoneAssumption, JobAssumption
<1>1. Init => TypeOK /\ Shape
  BY DEF Init, TypeOK, Statuses, Steps, Shape, ShapeOf, Busy
<1>2. TypeOK /\ Shape /\ [Next]_vars => TypeOK'
  <2> SUFFICES ASSUME TypeOK, Shape, [Next]_vars PROVE TypeOK'
    OBVIOUS
  <2>0. \A w \in Workers : pc[w] \in Busy => cur[w] \in Jobs
    BY DEF Shape, ShapeOf
  <2> USE DEF TypeOK, Goto, SetStatus, Statuses, Steps
  <2>1. ASSUME NEW w \in Workers, Poll(w) PROVE TypeOK'
    BY <2>1, RoomType DEF Poll
  <2>2. ASSUME NEW w \in Workers, Claim(w) PROVE TypeOK'
    BY <2>2 DEF Claim, Claimable
  <2>3. ASSUME NEW w \in Workers, Admit(w) PROVE TypeOK'
    BY <2>3 DEF Admit
  <2>4. ASSUME NEW w \in Workers, Defer(w) \/ LoopEnds(w) PROVE TypeOK'
    <3>1. CASE Defer(w)
      BY <3>1 DEF Defer
    <3>2. CASE LoopEnds(w)
      BY <3>2 DEF LoopEnds
    <3> QED
      BY <2>4, <3>1, <3>2
  <2>5. ASSUME NEW w \in Workers, Gate(w) PROVE TypeOK'
    <3>1. PICK j \in batch[w], open \in BOOLEAN :
            /\ cur' = [cur EXCEPT ![w] = j]
            /\ batch' = [batch EXCEPT ![w] = @ \ {j}]
            /\ pc' = [pc EXCEPT ![w] = IF open THEN "requeue" ELSE "lock"]
      BY <2>5 DEF Gate
    <3> QED
      BY <2>5, <3>1 DEF Gate
  <2>6. ASSUME NEW w \in Workers, TryLock(w) PROVE TypeOK'
    <3>1. \E step \in Steps : pc' = [pc EXCEPT ![w] = step]
      BY <2>6 DEF TryLock
    <3>2. lock' \in [Locks -> Workers \cup {NoWorker}]
      BY <2>6 DEF TryLock
    <3> QED
      BY <2>6, <3>1, <3>2 DEF TryLock
  <2>7. ASSUME NEW w \in Workers,
               Requeue(w) \/ HandlerTimesOut(w) \/ WriteSucceeded(w) \/ Merge(w)
        PROVE  TypeOK'
    <3>1. CASE Requeue(w)
      BY <2>0, <3>1 DEF Busy, Requeue
    <3>2. CASE HandlerTimesOut(w)
      BY <2>0, <3>2 DEF Busy, HandlerTimesOut
    <3>3. CASE WriteSucceeded(w)
      BY <2>0, <3>3 DEF Busy, WriteSucceeded
    <3>4. CASE Merge(w)
      BY <2>0, <3>4 DEF Busy, Merge
    <3> QED
      BY <2>7, <3>1, <3>2, <3>3, <3>4
  <2>8. ASSUME NEW w \in Workers, Start(w) PROVE TypeOK'
    BY <2>0, <2>8 DEF Start, Following, Busy
  <2>9. ASSUME NEW w \in Workers, Settle(w) \/ Fail(w) PROVE TypeOK'
    BY <2>9 DEF Settle, Fail, ReleaseLock
  <2>10. ASSUME NEW w \in Workers, Decide(w) PROVE TypeOK'
    <3>1. \E s \in Statuses : status' = [status EXCEPT ![cur[w]] = s]
      BY <2>10 DEF Decide
    <3> QED
      BY <2>10, <3>1 DEF Decide
  <2>11. ASSUME NEW w \in Workers,
                HandlerReturns(w) \/ HandlerThrows(w) \/ SuccessPathFails(w)
                \/ DecideThrows(w) \/ Crash(w)
         PROVE  TypeOK'
    BY <2>11 DEF HandlerReturns, HandlerThrows, SuccessPathFails, DecideThrows, Crash
  <2>12. ASSUME NEW j \in Jobs, ZombieEnds(j) PROVE TypeOK'
    BY <2>12 DEF ZombieEnds, worker
  <2>13. ASSUME NEW k \in Locks, LeaseLapses(k) PROVE TypeOK'
    BY <2>13 DEF LeaseLapses, worker
  <2>14. ASSUME NEW r \in Runs, CancelRun(r) PROVE TypeOK'
    BY <2>14 DEF CancelRun, worker
  <2>15. ASSUME NEW o \in Operators,
                ReplayWrite(o) \/ \E j \in Jobs : ReplayRead(o, j)
         PROVE  TypeOK'
    <3>1. CASE ReplayWrite(o)
      BY <3>1 DEF ReplayWrite, worker
    <3>2. CASE \E j \in Jobs : ReplayRead(o, j)
      BY <3>2 DEF ReplayRead, worker
    <3> QED
      BY <2>15, <3>1, <3>2
  <2>16. CASE UNCHANGED vars
    BY <2>16 DEF vars
  <2> QED
    BY <2>1, <2>2, <2>3, <2>4, <2>5, <2>6, <2>7, <2>8, <2>9, <2>10, <2>11,
       <2>12, <2>13, <2>14, <2>15, <2>16 DEF Next, Progress
<1>3. TypeOK /\ Shape /\ [Next]_vars => Shape'
  <2> SUFFICES ASSUME TypeOK, Shape, [Next]_vars, NEW v \in Workers
               PROVE  ShapeOf(v)'
    BY DEF Shape
  <2>1. ASSUME NEW w \in Workers, WorkerStep(w) PROVE ShapeOf(v)'
    <3>1. CASE v = w
      BY <2>1, <3>1, ShapeStep DEF Shape
    <3>2. CASE v # w
      BY <2>1, <3>2, StepIsLocal DEF Shape, ShapeOf
    <3> QED
      BY <3>1, <3>2
  <2>2. CASE UNCHANGED worker
    BY <2>2 DEF worker, Shape, ShapeOf
  <2> QED
    BY <2>1, <2>2 DEF Next, WorkerStep, vars, worker, ZombieEnds, LeaseLapses,
       CancelRun, ReplayRead, ReplayWrite
<1> QED
  BY <1>1, <1>2, <1>3, PTL DEF Spec
----------------------------------------------------------------------------
\* A job in somebody's hands is neither in the queue nor in the DLQ; a dead
\* letter about to be replayed is still one.  With one operator this is kept
\* by every step, and with it the exclusive holding.
Available == {"QUEUED", "DEAD_LETTERED"}
HeldIsTaken == \A w \in Workers : \A j \in Held(w) : status[j] \notin Available
ReplayIsFresh == \A o \in Operators : replaying[o] # NoJob => status[replaying[o]] = "DEAD_LETTERED"
HeldApart == \A v, w \in Workers : v # w => Held(v) \cap Held(w) = {}

HoldInv == HeldIsTaken /\ ReplayIsFresh /\ HeldApart

\* What a worker's step does to the hands and the queue: it takes claimable
\* jobs or lets go of its own, and writes the status of no other job.
StepEffect(w) ==
  /\ \/ Held(w)' \subseteq Held(w)
     \/ Held(w) \subseteq Held(w)' /\ Held(w)' \ Held(w) \subseteq Claimable
  /\ \A j \in Held(w)' : status'[j] \notin Available
  /\ \A j \in Jobs \ (Held(w) \cup Claimable) : status'[j] = status[j]
  /\ replaying' = replaying

LEMMA StepHasEffect ==
  ASSUME TypeOK, NEW w \in Workers, ShapeOf(w), WorkerStep(w),
         \A j \in Held(w) : status[j] \notin Available
  PROVE  StepEffect(w)
<1> USE NoneAssumption DEF TypeOK, Goto, SetStatus, ShapeOf, Busy, Available, StepEffect
<1>1. CASE Poll(w) \/ LoopEnds(w)
  BY <1>1 DEF Poll, LoopEnds, Held
<1>2. CASE Claim(w)
  BY <1>2 DEF Claim, Claimable, Held
<1>3. CASE Admit(w)
  BY <1>3 DEF Admit, Held
<1>4. CASE Defer(w)
  BY <1>4 DEF Defer, Held
<1>5. CASE Gate(w)
  BY <1>5 DEF Gate, Held
<1>6. CASE TryLock(w)
  BY <1>6 DEF TryLock, Held
<1>7. CASE Requeue(w)
  BY <1>7 DEF Requeue, Held
<1>8. CASE Start(w)
  BY <1>8 DEF Start, Held
<1>9. CASE HandlerReturns(w) \/ HandlerThrows(w) \/ HandlerTimesOut(w)
          \/ SuccessPathFails(w) \/ DecideThrows(w) \/ Crash(w)
  BY <1>9 DEF HandlerReturns, HandlerThrows, HandlerTimesOut, SuccessPathFails, DecideThrows, Crash, Held
<1>10. CASE WriteSucceeded(w)
  BY <1>10 DEF WriteSucceeded, Held
<1>11. CASE Settle(w) \/ Fail(w)
  BY <1>11 DEF Settle, Fail, Held
<1>12. CASE Merge(w)
  BY <1>12 DEF Merge, Held
<1>13. CASE Decide(w)
  BY <1>13 DEF Decide, Held
<1> QED
  BY <1>1, <1>2, <1>3, <1>4, <1>5, <1>6, <1>7, <1>8, <1>9, <1>10, <1>11, <1>12, <1>13
  DEF WorkerStep, Progress

\* No other worker's hands change.
LEMMA OthersKeepHeld ==
  ASSUME TypeOK, NEW w \in Workers, WorkerStep(w), NEW v \in Workers \ {w}
  PROVE  Held(v)' = Held(v)
BY StepIsLocal DEF Held

LEMMA HoldStep ==
  ASSUME OneOperator
  PROVE  TypeOK /\ Shape /\ HoldInv /\ [Next]_vars => HoldInv'
<1> SUFFICES ASSUME TypeOK, Shape, HoldInv, [Next]_vars PROVE HoldInv'
  OBVIOUS
<1> USE DEF HoldInv
<1>1. ASSUME NEW w \in Workers, WorkerStep(w) PROVE HoldInv'
  <2>1. StepEffect(w)
    BY <1>1, StepHasEffect DEF Shape, HeldIsTaken
  <2>2. \A v \in Workers \ {w} : Held(v)' = Held(v)
    BY <1>1, OthersKeepHeld
  <2>3. \A v \in Workers : Held(v) \subseteq Jobs
    BY DEF Held, TypeOK
  <2>4. \A v \in Workers : Held(v) \cap Claimable = {}
    BY DEF HeldIsTaken, Claimable, Available
  <2>5. \A v \in Workers \ {w} : Held(v) \cap Held(w) = {} /\ Held(v) \cap Held(w)' = {}
    BY <2>1, <2>4 DEF StepEffect, HeldApart
  <2>6. HeldIsTaken'
    <3> SUFFICES ASSUME NEW v \in Workers, NEW j \in Held(v)' PROVE status'[j] \notin Available
      BY DEF HeldIsTaken, Available
    <3>1. CASE v = w
      BY <3>1, <2>1 DEF StepEffect
    <3>2. CASE v # w
      BY <3>2, <2>1, <2>2, <2>3, <2>4, <2>5 DEF StepEffect, HeldIsTaken
    <3> QED
      BY <3>1, <3>2
  <2>7. HeldApart'
    <3> SUFFICES ASSUME NEW u \in Workers, NEW v \in Workers, u # v
                 PROVE  Held(u)' \cap Held(v)' = {}
      BY DEF HeldApart
    <3>1. CASE u # w /\ v # w
      BY <3>1, <2>2 DEF HeldApart
    <3>2. CASE u = w
      BY <3>2, <2>2, <2>5
    <3>3. CASE v = w
      BY <3>3, <2>2, <2>5
    <3> QED
      BY <3>1, <3>2, <3>3
  <2>8. ReplayIsFresh'
    <3> SUFFICES ASSUME NEW o \in Operators, replaying[o] # NoJob
                 PROVE  status'[replaying[o]] = "DEAD_LETTERED"
      BY <2>1 DEF ReplayIsFresh, StepEffect
    <3>1. replaying[o] \in Jobs /\ status[replaying[o]] = "DEAD_LETTERED"
      BY DEF ReplayIsFresh, TypeOK
    <3>2. replaying[o] \notin Held(w) \cup Claimable
      BY <3>1 DEF HeldIsTaken, Available, Claimable
    <3> QED
      BY <3>1, <3>2, <2>1 DEF StepEffect
  <2> QED
    BY <2>6, <2>7, <2>8
<1>2. ASSUME UNCHANGED worker PROVE \A v \in Workers : Held(v)' = Held(v)
  BY <1>2 DEF worker, Held
<1>3. ASSUME NEW r \in Runs, CancelRun(r) PROVE HoldInv'
  <2>1. \A j \in Jobs : /\ status'[j] \in {status[j], "CANCELLED"}
                        /\ status[j] = "DEAD_LETTERED" => status'[j] = "DEAD_LETTERED"
    BY <1>3 DEF CancelRun, Cancellable, TypeOK
  <2>2. \A v \in Workers : Held(v)' = Held(v) /\ Held(v) \subseteq Jobs
    BY <1>2, <1>3 DEF CancelRun, Held, TypeOK
  <2>3. HeldIsTaken' /\ HeldApart'
    BY <2>1, <2>2 DEF HeldIsTaken, HeldApart, Available
  <2>4. ReplayIsFresh'
    BY <1>3, <2>1 DEF CancelRun, ReplayIsFresh, TypeOK
  <2> QED
    BY <2>3, <2>4
<1>4. ASSUME NEW o \in Operators, NEW j \in Jobs, ReplayRead(o, j) PROVE HoldInv'
  <2>1. \A v \in Workers : Held(v)' = Held(v)
    BY <1>2, <1>4 DEF ReplayRead
  <2>2. HeldIsTaken' /\ HeldApart'
    BY <1>4, <2>1 DEF HeldIsTaken, HeldApart, ReplayRead
  <2>3. ReplayIsFresh'
    BY <1>4 DEF ReplayRead, ReplayIsFresh, TypeOK
  <2> QED
    BY <2>2, <2>3
<1>5. ASSUME NEW o \in Operators, ReplayWrite(o) PROVE HoldInv'
  <2>1. replaying[o] \in Jobs /\ status[replaying[o]] = "DEAD_LETTERED"
    BY <1>5 DEF ReplayWrite, ReplayIsFresh, TypeOK
  <2>2. \A v \in Workers : Held(v)' = Held(v) /\ replaying[o] \notin Held(v)
    BY <1>2, <1>5, <2>1 DEF ReplayWrite, HeldIsTaken, Available
  <2>3. \A j \in Jobs \ {replaying[o]} : status'[j] = status[j]
    BY <1>5, <2>1 DEF ReplayWrite, SetStatus, TypeOK
  <2>4. HeldIsTaken' /\ HeldApart'
    <3>1. \A v \in Workers : Held(v) \subseteq Jobs \ {replaying[o]}
      BY <2>2 DEF Held, TypeOK
    <3> QED
      BY <2>2, <2>3, <3>1 DEF HeldIsTaken, HeldApart
  <2>5. ReplayIsFresh'
    BY <1>5, OneOperator DEF ReplayWrite, ReplayIsFresh, TypeOK, OneOperator
  <2> QED
    BY <2>4, <2>5
<1>6. CASE UNCHANGED <<status, worker, replaying>>
  BY <1>2, <1>6 DEF HeldIsTaken, HeldApart, ReplayIsFresh
<1> QED
  BY <1>1, <1>3, <1>4, <1>5, <1>6 DEF Next, WorkerStep, vars, worker, ZombieEnds, LeaseLapses

\* queue/types.ts: a claimed job is in the hands of one worker until that
\* worker gives it back, whatever is cancelled, crashes or fails meanwhile.
THEOREM ExclusiveHolding == OneOperator => (Spec => []HeldByOne)
<1> SUFFICES ASSUME OneOperator PROVE Spec => []HeldByOne
  OBVIOUS
<1>1. Init => HoldInv
  BY DEF Init, HoldInv, HeldIsTaken, HeldApart, ReplayIsFresh, Held
<1>2. HoldInv => HeldByOne
  BY DEF HoldInv, HeldIsTaken, HeldApart, HeldByOne, Claimable, Available
<1>3. TypeOK /\ Shape /\ HoldInv /\ [Next]_vars => HoldInv'
  BY HoldStep
<1> QED
  BY <1>1, <1>2, <1>3, TypeCorrect, PTL DEF Spec
----------------------------------------------------------------------------
\* The hands of the workers, as JobOwnership sees them.
Hands == [w \in Workers |-> Held(w)]

LEMMA OwnershipStep ==
  TypeOK /\ Shape /\ HoldInv /\ [Next]_vars => [Ownership!Next]_Hands
<1> SUFFICES ASSUME TypeOK, Shape, HoldInv, [Next]_vars, Hands' # Hands
             PROVE  Ownership!Next
  OBVIOUS
<1>1. (UNCHANGED worker) => Hands' = Hands
  BY DEF Hands, Held, worker
<1>2. PICK w \in Workers : WorkerStep(w)
  BY <1>1 DEF Next, WorkerStep, vars, worker, ZombieEnds, LeaseLapses, CancelRun,
     ReplayRead, ReplayWrite
<1>3. StepEffect(w)
  BY <1>2, StepHasEffect DEF Shape, HoldInv, HeldIsTaken
<1>4. Hands' = [Hands EXCEPT ![w] = Held(w)']
  BY <1>2, OthersKeepHeld DEF Hands
<1>5. CASE Held(w)' \subseteq Held(w)
  <2>1. Hands[w] \ (Held(w) \ Held(w)') = Held(w)'
    BY <1>5 DEF Hands
  <2>2. Ownership!Drop(w)
    BY <1>4, <2>1 DEF Ownership!Drop, Hands
  <2> QED
    BY <2>2 DEF Ownership!Next
<1>6. CASE Held(w) \subseteq Held(w)' /\ Held(w)' \ Held(w) \subseteq Claimable
  <2> DEFINE S == Held(w)' \ Held(w)
  <2>1. S \subseteq Ownership!Unowned
    <3>1. \A v \in Workers : Held(v) \cap Claimable = {}
      BY DEF HoldInv, HeldIsTaken, Claimable, Available
    <3>2. S \subseteq Claimable /\ S \subseteq Jobs
      BY <1>6 DEF Claimable
    <3> QED
      BY <3>1, <3>2 DEF Ownership!Unowned, Hands
  <2>2. Hands[w] \cup S = Held(w)'
    BY <1>6 DEF Hands
  <2>3. Ownership!Take(w)
    BY <1>4, <2>1, <2>2 DEF Ownership!Take, Hands
  <2> QED
    BY <2>3 DEF Ownership!Next
<1> QED
  BY <1>3, <1>5, <1>6 DEF StepEffect

\* The kernel implements JobOwnership: no step, of a worker, an operator, a
\* cancellation or a crash, moves a job from one worker to another.
THEOREM KernelImplementsOwnership == OneOperator => (Spec => ImplementsOwnership)
<1> SUFFICES ASSUME OneOperator PROVE Spec => ImplementsOwnership
  OBVIOUS
<1>1. Init => HoldInv
  BY DEF Init, HoldInv, HeldIsTaken, HeldApart, ReplayIsFresh, Held
<1>2. Init => Ownership!Init
  BY DEF Init, Ownership!Init, Held
<1>3. TypeOK /\ Shape /\ HoldInv /\ [Next]_vars => HoldInv'
  BY HoldStep
<1>4. TypeOK /\ Shape /\ HoldInv /\ [Next]_vars => [Ownership!Next]_Hands
  BY OwnershipStep
<1> QED
  BY <1>1, <1>2, <1>3, <1>4, TypeCorrect, PTL DEF Spec, ImplementsOwnership, Ownership!Spec, Hands

----------------------------------------------------------------------------
\* The lease on a key names the worker that is between acquiring and
\* releasing it.
Leased(w) == pc[w] \in Locking /\ LockOf[cur[w]] # NoKey => lock[LockOf[cur[w]]] = w
LeaseNamesHolder == \A w \in Workers : Leased(w)

LEMMA LeaseStep ==
  TypeOK /\ Shape /\ LeaseNamesHolder /\ [Next]_vars => LeaseNamesHolder'
<1> SUFFICES ASSUME TypeOK, Shape, LeaseNamesHolder, [Next]_vars, NEW v \in Workers
             PROVE  Leased(v)'
  BY DEF LeaseNamesHolder
<1> USE NoneAssumption, JobAssumption DEF TypeOK, Leased, Locking
<1>0. Leased(v) /\ (pc[v] \in Locking => cur[v] \in Jobs)
  BY DEF LeaseNamesHolder, Shape, ShapeOf, Busy
<1>1. ASSUME NEW w \in Workers \ {v}, WorkerStep(w) PROVE Leased(v)'
  <2>1. pc'[v] = pc[v] /\ cur'[v] = cur[v]
    BY <1>1, StepIsLocal
  <2>2. \A k \in Locks : lock[k] = v => lock'[k] = v
    <3>1. CASE TryLock(w)
      BY <3>1 DEF TryLock, LockFree
    <3>2. CASE Settle(w) \/ Fail(w)
      BY <3>2 DEF Settle, Fail, ReleaseLock
    <3>3. CASE UNCHANGED lock
      BY <3>3
    <3> QED
      BY <1>1, <3>1, <3>2, <3>3 DEF WorkerStep, Progress, Poll, Claim, Admit, Defer,
         LoopEnds, Gate, Requeue, Start, HandlerTimesOut, WriteSucceeded, Merge, Decide,
         DecideThrows, Crash, HandlerReturns, HandlerThrows, SuccessPathFails
  <2> QED
    BY <1>0, <2>1, <2>2
<1>2. CASE WorkerStep(v)
  <2> USE DEF Goto
  <2>1. CASE TryLock(v)
    <3>1. cur[v] \in Jobs
      BY <2>1 DEF TryLock, Shape, ShapeOf, Busy
    <3> QED
      BY <2>1, <3>1 DEF TryLock
  <2>2. CASE Start(v) \/ HandlerReturns(v) \/ WriteSucceeded(v)
    BY <1>0, <2>2 DEF Start, HandlerReturns, WriteSucceeded
  <2>3. CASE ~TryLock(v) /\ ~(Start(v) \/ HandlerReturns(v) \/ WriteSucceeded(v))
    <3>1. pc'[v] \notin Locking
      BY <1>2, <2>3 DEF WorkerStep, Progress, Poll, Claim, Admit, Defer,
         LoopEnds, Gate, Requeue, HandlerTimesOut, Merge, Decide, Settle, Fail,
         DecideThrows, Crash, HandlerThrows, SuccessPathFails
    <3> QED
      BY <3>1
  <2> QED
    BY <2>1, <2>2, <2>3
<1>3. ASSUME NEW k \in Locks, LeaseLapses(k) PROVE Leased(v)'
  BY <1>0, <1>3 DEF LeaseLapses, worker, Crashed
<1>4. CASE UNCHANGED <<lock, worker>>
  BY <1>0, <1>4 DEF worker
<1> QED
  BY <1>1, <1>2, <1>3, <1>4 DEF Next, WorkerStep, vars, worker, ZombieEnds, CancelRun,
     ReplayRead, ReplayWrite

\* executeOneJob: two workers never both execute a job of the same lock key.
THEOREM OneWorkerPerLock == Spec => []LockExclusion
<1>1. Init => LeaseNamesHolder
  BY DEF Init, LeaseNamesHolder, Leased, Locking
<1>2. LeaseNamesHolder => LockExclusion
  BY DEF LeaseNamesHolder, Leased, LockExclusion
<1> QED
  BY <1>1, <1>2, TypeCorrect, LeaseStep, PTL DEF Spec

----------------------------------------------------------------------------
(* Attempts.  DeadLetterBudget is not inductive: an attempt is counted from  *)
(* the row a worker read when it claimed, so the invariant also says that    *)
(* this row is still true while the job is in its hands, and that a job in   *)
(* the queue has an attempt left, if its policy has a cap.                   *)

Bounded(j) == Strategy[j] # "infinite"

Waiting == {"lock", "requeue", "start"}
Started == {"handler", "success", "settle", "merge", "failure", "decide"}
Aware == {"defer", "loop"} \cup Busy

\* The jobs a worker has in hand and has not started.
Ahead(w) == batch[w] \cup deferred[w] \cup (IF pc[w] \in Waiting THEN {cur[w]} ELSE {})

CountOf(w) ==
  /\ \A j \in Ahead(w) : /\ Bounded(j) => attempt[j] < MaxAttempts[j]
                         /\ pc[w] \in Aware => seen[w][j] = attempt[j]
  /\ pc[w] \in Started => attempt[cur[w]] = Following(cur[w], seen[w][cur[w]])

JobBudget(j) ==
  /\ Bounded(j) => attempt[j] <= MaxAttempts[j]
  /\ Bounded(j) /\ status[j] = "QUEUED" => attempt[j] < MaxAttempts[j]
  /\ status[j] = "DEAD_LETTERED" /\ Strategy[j] \in {"manual", "capped"}
       => attempt[j] = MaxAttempts[j]

Counts == (\A w \in Workers : CountOf(w)) /\ (\A j \in Jobs : JobBudget(j))

\* A worker counts an attempt of its own job only, and reads for itself.
LEMMA CountIsLocal ==
  ASSUME TypeOK, NEW w \in Workers, WorkerStep(w)
  PROVE  /\ \A v \in Workers \ {w} : seen'[v] = seen[v]
         /\ \A j \in Jobs \ {cur[w]} : attempt'[j] = attempt[j]
         /\ pc[w] # "start" => attempt' = attempt
<1> USE DEF TypeOK, Goto
<1>1. CASE Poll(w) \/ Claim(w) \/ Admit(w) \/ Defer(w) \/ LoopEnds(w)
  BY <1>1 DEF Poll, Claim, Admit, Defer, LoopEnds
<1>2. CASE Gate(w) \/ TryLock(w) \/ Requeue(w) \/ Start(w)
  BY <1>2 DEF Gate, TryLock, Requeue, Start
<1>3. CASE HandlerReturns(w) \/ HandlerThrows(w) \/ HandlerTimesOut(w)
          \/ SuccessPathFails(w) \/ DecideThrows(w) \/ Crash(w)
  BY <1>3 DEF HandlerReturns, HandlerThrows, HandlerTimesOut, SuccessPathFails, DecideThrows, Crash
<1>4. CASE WriteSucceeded(w) \/ Settle(w) \/ Merge(w) \/ Fail(w) \/ Decide(w)
  BY <1>4 DEF WriteSucceeded, Settle, Merge, Fail, Decide
<1> QED
  BY <1>1, <1>2, <1>3, <1>4 DEF WorkerStep, Progress

\* What a worker has in hand is still counted right after its own step.
LEMMA OwnCount ==
  ASSUME TypeOK, NEW w \in Workers, ShapeOf(w), WorkerStep(w), CountOf(w),
         \A j \in Jobs : JobBudget(j)
  PROVE  CountOf(w)' /\ \A j \in Held(w) \cup Claimable : JobBudget(j)'
<1> USE NoneAssumption, JobAssumption
    DEF TypeOK, Goto, SetStatus, ShapeOf, Busy, CountOf, Ahead, Waiting, Started, Aware,
        Bounded, Following, JobBudget, Held, Claimable
<1>1. CASE Poll(w) \/ LoopEnds(w)
  BY <1>1 DEF Poll, LoopEnds
<1>2. CASE Claim(w)
  BY <1>2 DEF Claim
<1>3. CASE Admit(w)
  BY <1>3 DEF Admit
<1>4. CASE Defer(w)
  BY <1>4 DEF Defer
<1>5. CASE Gate(w)
  BY <1>5 DEF Gate
<1>6. CASE TryLock(w)
  BY <1>6 DEF TryLock
<1>7. CASE Requeue(w)
  BY <1>7 DEF Requeue
<1>8. CASE Start(w)
  BY <1>8 DEF Start
<1>9. CASE HandlerReturns(w) \/ HandlerThrows(w) \/ HandlerTimesOut(w)
          \/ SuccessPathFails(w) \/ DecideThrows(w) \/ Crash(w)
  BY <1>9 DEF HandlerReturns, HandlerThrows, HandlerTimesOut, SuccessPathFails, DecideThrows, Crash
<1>10. CASE WriteSucceeded(w)
  BY <1>10 DEF WriteSucceeded
<1>11. CASE Settle(w) \/ Fail(w)
  BY <1>11 DEF Settle, Fail
<1>12. CASE Merge(w)
  BY <1>12 DEF Merge
<1>13. CASE Decide(w)
  <2>1. cur[w] \in Jobs \ batch[w] /\ seen[w][cur[w]] \in Nat
    BY <1>13 DEF Decide
  <2>2. CountOf(w)'
    BY <1>13 DEF Decide
  <2>3. \A j \in Held(w) \cup Claimable : j # cur[w] => JobBudget(j)'
    BY <1>13 DEF Decide
  <2>4. ASSUME NEW j \in Jobs, j = cur[w] PROVE JobBudget(j)'
    <3>1. CASE status' = [status EXCEPT ![j] = "QUEUED"] /\ MayRetry(j, seen[w][j] + 1)
      BY <1>13, <2>1, <2>4, <3>1 DEF Decide, MayRetry
    <3>2. CASE status' = [status EXCEPT ![j] = "DEAD_LETTERED"] /\ MayGiveUp(j, seen[w][j] + 1)
      <4>1. /\ status'[j] = "DEAD_LETTERED" /\ attempt'[j] = attempt[j]
            /\ attempt[j] = Following(j, seen[w][j]) /\ (Bounded(j) => attempt[j] <= MaxAttempts[j])
        BY <1>13, <2>4, <3>2 DEF Decide
      <4>2. MaxAttempts[j] \in Nat \ {0} /\ (Strategy[j] = "manual" => MaxAttempts[j] = 1)
        OBVIOUS
      <4>3. seen[w][j] \in Nat
        BY <2>1, <2>4
      <4>4. Strategy[j] \in {"manual", "capped"} => attempt[j] = MaxAttempts[j]
        BY <3>2, <4>1, <4>2, <4>3 DEF MayGiveUp
      <4>5. attempt'[j] \in Nat
        BY <4>1
      <4> QED
        BY <4>1, <4>2, <4>4, <4>5
    <3> QED
      BY <1>13, <2>4, <3>1, <3>2 DEF Decide
  <2> QED
    BY <2>1, <2>2, <2>3, <2>4
<1> QED
  BY <1>1, <1>2, <1>3, <1>4, <1>5, <1>6, <1>7, <1>8, <1>9, <1>10, <1>11, <1>12, <1>13
  DEF WorkerStep, Progress

LEMMA CountStep ==
  ASSUME OneOperator
  PROVE  TypeOK /\ Shape /\ HoldInv /\ Counts /\ [Next]_vars => Counts'
<1> SUFFICES ASSUME TypeOK, Shape, HoldInv, Counts, [Next]_vars PROVE Counts'
  OBVIOUS
<1>0. \A v \in Workers : Ahead(v) \subseteq Held(v) /\ (pc[v] \in Busy => cur[v] \in Held(v) \cap Jobs)
  BY NoneAssumption DEF Shape, ShapeOf, Ahead, Held, Waiting, Busy, TypeOK
<1>1. ASSUME NEW w \in Workers, WorkerStep(w) PROVE Counts'
  <2>1. CountOf(w)' /\ \A j \in Held(w) \cup Claimable : JobBudget(j)'
    BY <1>1, OwnCount DEF Counts, Shape
  <2>2. StepEffect(w)
    BY <1>1, StepHasEffect DEF Shape, HoldInv, HeldIsTaken
  <2>3. ASSUME NEW v \in Workers \ {w} PROVE CountOf(v)'
    <3>1. pc'[v] = pc[v] /\ batch'[v] = batch[v] /\ deferred'[v] = deferred[v] /\ cur'[v] = cur[v]
      BY <1>1, StepIsLocal
    <3>2. Ahead(v)' = Ahead(v) /\ seen'[v] = seen[v]
      BY <1>1, <3>1, CountIsLocal DEF Ahead
    <3>3. \A j \in Held(v) \cap Jobs : attempt'[j] = attempt[j]
      <4>1. CASE pc[w] = "start"
        <5>1. cur[w] \in Held(w) /\ Held(w) \cap Held(v) = {}
          BY <1>0, <4>1 DEF Busy, HoldInv, HeldApart
        <5> QED
          BY <1>1, <5>1, CountIsLocal
      <4>2. CASE pc[w] # "start"
        BY <1>1, <4>2, CountIsLocal
      <4> QED
        BY <4>1, <4>2
    <3>4. Ahead(v) \subseteq Held(v) \cap Jobs
      BY <1>0 DEF Ahead, TypeOK, Shape, ShapeOf, Waiting, Busy
    <3>5. CountOf(v) /\ (pc[v] \in Started => cur[v] \in Held(v) \cap Jobs)
      BY <1>0 DEF Counts, Started, Busy
    <3> QED
      BY <3>1, <3>2, <3>3, <3>4, <3>5 DEF CountOf
  <2>4. ASSUME NEW j \in Jobs \ (Held(w) \cup Claimable) PROVE JobBudget(j)'
    <3>1. status'[j] = status[j]
      BY <2>2 DEF StepEffect
    <3>2. attempt'[j] = attempt[j]
      <4>1. CASE pc[w] = "start"
        BY <1>0, <1>1, <4>1, CountIsLocal DEF Busy
      <4>2. CASE pc[w] # "start"
        BY <1>1, <4>2, CountIsLocal
      <4> QED
        BY <4>1, <4>2
    <3> QED
      BY <3>1, <3>2 DEF Counts, JobBudget
  <2> QED
    BY <2>1, <2>3, <2>4 DEF Counts
<1>2. CASE UNCHANGED <<attempt, worker>> /\ (UNCHANGED status \/ \E r \in Runs : CancelRun(r))
  <2>1. \A v \in Workers : CountOf(v)'
    BY <1>2 DEF Counts, CountOf, Ahead, worker
  <2>2. \A j \in Jobs : status'[j] \in {status[j], "CANCELLED"}
    BY <1>2 DEF CancelRun, TypeOK
  <2>3. \A j \in Jobs : JobBudget(j)'
    BY <1>2, <2>2 DEF Counts, JobBudget
  <2> QED
    BY <2>1, <2>3 DEF Counts
<1>3. ASSUME NEW o \in Operators, ReplayWrite(o) PROVE Counts'
  <2>1. replaying[o] \in Jobs /\ status[replaying[o]] = "DEAD_LETTERED"
    BY <1>3 DEF ReplayWrite, HoldInv, ReplayIsFresh, TypeOK
  <2>2. \A v \in Workers : replaying[o] \notin Held(v)
    BY <2>1 DEF HoldInv, HeldIsTaken, Available
  <2>3. \A j \in Jobs \ {replaying[o]} : attempt'[j] = attempt[j] /\ status'[j] = status[j]
    BY <1>3, <2>1 DEF ReplayWrite, SetStatus, TypeOK
  <2>4. ASSUME NEW v \in Workers PROVE CountOf(v)'
    <3>1. Ahead(v) \subseteq Jobs \ {replaying[o]}
      BY <1>0, <2>2 DEF Ahead, TypeOK, Shape, ShapeOf, Waiting, Busy
    <3>2. pc[v] \in Started => cur[v] \in Jobs \ {replaying[o]}
      BY <1>0, <2>2 DEF Started, Busy
    <3>3. Ahead(v)' = Ahead(v) /\ CountOf(v) /\ pc' = pc /\ seen' = seen /\ cur' = cur
      BY <1>3 DEF ReplayWrite, worker, Ahead, Counts
    <3> QED
      BY <2>3, <3>1, <3>2, <3>3 DEF CountOf
  <2>5. ASSUME NEW r \in Jobs, r = replaying[o] PROVE JobBudget(r)'
    <3>1. status'[r] = "QUEUED" /\ attempt'[r] = 0
      BY <1>3, <2>5 DEF ReplayWrite, SetStatus, TypeOK
    <3>2. MaxAttempts[r] \in Nat \ {0}
      BY JobAssumption
    <3> QED
      BY <3>1, <3>2 DEF JobBudget
  <2>6. \A j \in Jobs : JobBudget(j)'
    BY <2>3, <2>5 DEF JobBudget, Counts
  <2> QED
    BY <2>4, <2>6 DEF Counts
<1> QED
  BY <1>1, <1>2, <1>3 DEF Next, WorkerStep, vars, worker, ZombieEnds, LeaseLapses, CancelRun, ReplayRead

\* decideRetry, sendToDeadLetter: whatever workers die, database calls fail or
\* runs are cancelled, no policy that has a cap runs one attempt more, and one
\* that looks at nothing else dead-letters its job after the last one only.  An
\* infinite policy promises neither, a conditional one the cap alone.
THEOREM DeadLettersAreSpent == OneOperator => (Spec => []DeadLetterBudget)
<1> SUFFICES ASSUME OneOperator PROVE Spec => []DeadLetterBudget
  OBVIOUS
<1>1. Init => HoldInv /\ Counts
  BY JobAssumption DEF Init, HoldInv, HeldIsTaken, HeldApart, ReplayIsFresh, Held,
     Counts, CountOf, Ahead, Waiting, Started, JobBudget
<1>2. Counts => DeadLetterBudget
  BY DEF Counts, Bounded, JobBudget, DeadLetterBudget
<1>3. TypeOK /\ Shape /\ HoldInv /\ [Next]_vars => HoldInv'
  BY HoldStep
<1>4. TypeOK /\ Shape /\ HoldInv /\ Counts /\ [Next]_vars => Counts'
  BY CountStep
<1> QED
  BY <1>1, <1>2, <1>3, <1>4, TypeCorrect, PTL DEF Spec
----------------------------------------------------------------------------
\* dlq.ts: a dead letter leaves the queue by a replay only, with its attempts
\* reset; no worker and no cancellation takes it out.
THEOREM DeadLettersStay == OneOperator => (Spec => DeadLetterExit)
<1> SUFFICES ASSUME OneOperator PROVE Spec => DeadLetterExit
  OBVIOUS
<1>1. Init => HoldInv
  BY DEF Init, HoldInv, HeldIsTaken, HeldApart, ReplayIsFresh, Held
<1>2. TypeOK /\ Shape /\ HoldInv /\ [Next]_vars => HoldInv'
  BY HoldStep
<1>3. TypeOK /\ Shape /\ HoldInv /\ [Next]_vars =>
        [\A j \in Jobs : status[j] = "DEAD_LETTERED" /\ status'[j] # "DEAD_LETTERED"
                         => status'[j] = "QUEUED" /\ attempt'[j] = 0]_vars
  <2> SUFFICES ASSUME TypeOK, Shape, HoldInv, Next, NEW j \in Jobs,
                      status[j] = "DEAD_LETTERED", status'[j] # "DEAD_LETTERED"
               PROVE  status'[j] = "QUEUED" /\ attempt'[j] = 0
    OBVIOUS
  <2>1. ASSUME NEW w \in Workers, WorkerStep(w) PROVE FALSE
    <3>1. StepEffect(w)
      BY <2>1, StepHasEffect DEF Shape, HoldInv, HeldIsTaken
    <3>2. j \notin Held(w) \cup Claimable
      BY DEF HoldInv, HeldIsTaken, Available, Claimable
    <3> QED
      BY <3>1, <3>2 DEF StepEffect
  <2>2. ASSUME NEW r \in Runs, CancelRun(r) PROVE FALSE
    BY <2>2 DEF CancelRun, Cancellable, TypeOK
  <2>3. ASSUME NEW o \in Operators, ReplayWrite(o) PROVE status'[j] = "QUEUED" /\ attempt'[j] = 0
    BY <2>3 DEF ReplayWrite, SetStatus, TypeOK
  <2> QED
    BY <2>1, <2>2, <2>3 DEF Next, WorkerStep, ZombieEnds, LeaseLapses, ReplayRead
<1> QED
  BY <1>1, <1>2, <1>3, TypeCorrect, PTL DEF Spec, DeadLetterExit
----------------------------------------------------------------------------
\* A job that is SUCCEEDED and still in hand is the one its worker has just
\* recorded, and the worker goes on to let go of it.
Recorded(w) ==
  \A j \in Held(w) : status[j] = "SUCCEEDED" => j = cur[w] /\ pc[w] \in {"settle", "merge", "crashed"}

SuccessInHand == \A w \in Workers : Recorded(w)

\* Without database faults the success path does not end in the catch.
LEMMA RecordedStep ==
  ASSUME ~DatabaseFaults, TypeOK, NEW w \in Workers, ShapeOf(w), Recorded(w), WorkerStep(w)
  PROVE  /\ Recorded(w)'
         /\ \A j \in Jobs : status[j] = "SUCCEEDED" => status'[j] = "SUCCEEDED"
<1> USE NoneAssumption DEF TypeOK, Goto, SetStatus, ShapeOf, Busy, Recorded, Held
<1>1. CASE Poll(w) \/ LoopEnds(w)
  BY <1>1 DEF Poll, LoopEnds
<1>2. CASE Claim(w)
  BY <1>2 DEF Claim, Claimable
<1>3. CASE Admit(w)
  BY <1>3 DEF Admit
<1>4. CASE Defer(w)
  BY <1>4 DEF Defer
<1>5. CASE Gate(w)
  BY <1>5 DEF Gate
<1>6. CASE TryLock(w)
  BY <1>6 DEF TryLock
<1>7. CASE Requeue(w)
  BY <1>7 DEF Requeue
<1>8. CASE Start(w)
  BY <1>8 DEF Start
<1>9. CASE HandlerReturns(w) \/ HandlerThrows(w) \/ HandlerTimesOut(w)
          \/ SuccessPathFails(w) \/ DecideThrows(w) \/ Crash(w)
  BY <1>9 DEF HandlerReturns, HandlerThrows, HandlerTimesOut, SuccessPathFails, DecideThrows, Crash
<1>10. CASE WriteSucceeded(w)
  BY <1>10 DEF WriteSucceeded
<1>11. CASE Settle(w) \/ Fail(w)
  BY <1>11 DEF Settle, Fail
<1>12. CASE Merge(w)
  BY <1>12 DEF Merge
<1>13. CASE Decide(w)
  BY <1>13 DEF Decide
<1> QED
  BY <1>1, <1>2, <1>3, <1>4, <1>5, <1>6, <1>7, <1>8, <1>9, <1>10, <1>11, <1>12, <1>13
  DEF WorkerStep, Progress

\* While the database answers, a job whose success was recorded is never run
\* or recorded otherwise again, although workers die and other jobs of its
\* run are cancelled and replayed.
THEOREM SuccessesStay == OneOperator /\ ~DatabaseFaults => (Spec => SucceededIsFinal)
<1> SUFFICES ASSUME OneOperator, ~DatabaseFaults PROVE Spec => SucceededIsFinal
  OBVIOUS
<1>1. Init => HoldInv /\ SuccessInHand
  BY DEF Init, HoldInv, HeldIsTaken, HeldApart, ReplayIsFresh, Held, SuccessInHand, Recorded
<1>2. TypeOK /\ Shape /\ HoldInv /\ [Next]_vars => HoldInv'
  BY HoldStep
<1>3. TypeOK /\ Shape /\ HoldInv /\ SuccessInHand /\ Next =>
        SuccessInHand' /\ \A j \in Jobs : status[j] = "SUCCEEDED" => status'[j] = "SUCCEEDED"
  <2> SUFFICES ASSUME TypeOK, Shape, HoldInv, SuccessInHand, Next
               PROVE  SuccessInHand' /\ \A j \in Jobs : status[j] = "SUCCEEDED" => status'[j] = "SUCCEEDED"
    OBVIOUS
  <2>0. \A v \in Workers : Held(v) \subseteq Jobs
    BY DEF Held, TypeOK
  <2>1. ASSUME NEW w \in Workers, WorkerStep(w)
        PROVE  SuccessInHand' /\ \A j \in Jobs : status[j] = "SUCCEEDED" => status'[j] = "SUCCEEDED"
    <3>1. Recorded(w)' /\ \A j \in Jobs : status[j] = "SUCCEEDED" => status'[j] = "SUCCEEDED"
      BY <2>1, RecordedStep DEF Shape, SuccessInHand
    <3>2. StepEffect(w)
      BY <2>1, StepHasEffect DEF Shape, HoldInv, HeldIsTaken
    <3>3. ASSUME NEW v \in Workers \ {w} PROVE Recorded(v)'
      <4>1. pc'[v] = pc[v] /\ cur'[v] = cur[v] /\ Held(v)' = Held(v)
        BY <2>1, StepIsLocal, OthersKeepHeld
      <4>2. \A j \in Held(v) : j \in Jobs \ (Held(w) \cup Claimable)
        BY <2>0 DEF HoldInv, HeldIsTaken, HeldApart, Available, Claimable
      <4>3. \A j \in Held(v) : status'[j] = status[j]
        BY <3>2, <4>2 DEF StepEffect
      <4> QED
        BY <4>1, <4>3 DEF SuccessInHand, Recorded
    <3> QED
      BY <3>1, <3>3 DEF SuccessInHand
  <2>2. ASSUME UNCHANGED worker, \A j \in Jobs : status[j] = "SUCCEEDED" <=> status'[j] = "SUCCEEDED"
        PROVE  SuccessInHand'
    <3>1. \A v \in Workers : Held(v)' = Held(v) /\ pc'[v] = pc[v] /\ cur'[v] = cur[v]
      BY <2>2 DEF worker, Held
    <3> QED
      BY <2>0, <2>2, <3>1 DEF SuccessInHand, Recorded
  <2>3. ASSUME NEW r \in Runs, CancelRun(r)
        PROVE  \A j \in Jobs : status[j] = "SUCCEEDED" <=> status'[j] = "SUCCEEDED"
    BY <2>3 DEF CancelRun, Cancellable, TypeOK
  <2>4. ASSUME NEW o \in Operators, ReplayWrite(o)
        PROVE  \A j \in Jobs : status[j] = "SUCCEEDED" <=> status'[j] = "SUCCEEDED"
    BY <2>4 DEF ReplayWrite, SetStatus, TypeOK, HoldInv, ReplayIsFresh
  <2>5. CASE \E w \in Workers : WorkerStep(w)
    BY <2>1, <2>5
  <2>6. CASE UNCHANGED <<status, worker>>
    BY <2>2, <2>6
  <2>7. CASE \E r \in Runs : CancelRun(r)
    BY <2>2, <2>3, <2>7 DEF CancelRun
  <2>8. CASE \E o \in Operators : ReplayWrite(o)
    BY <2>2, <2>4, <2>8 DEF ReplayWrite
  <2> QED
    BY <2>5, <2>6, <2>7, <2>8 DEF Next, WorkerStep, worker, ZombieEnds, LeaseLapses, ReplayRead
<1>4. SuccessInHand /\ UNCHANGED vars => SuccessInHand'
  BY DEF SuccessInHand, Recorded, Held, vars
<1>5. TypeOK /\ Shape /\ HoldInv /\ SuccessInHand /\ [Next]_vars => SuccessInHand'
  BY <1>3, <1>4
<1>6. TypeOK /\ Shape /\ HoldInv /\ SuccessInHand /\ [Next]_vars =>
        [\A j \in Jobs : status[j] = "SUCCEEDED" => status'[j] = "SUCCEEDED"]_vars
  BY <1>3
<1> QED
  BY <1>1, <1>2, <1>5, <1>6, TypeCorrect, PTL DEF Spec, SucceededIsFinal
=============================================================================
