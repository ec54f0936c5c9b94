----------------------------- MODULE JobKernel -----------------------------
(***************************************************************************)
(* The job kernel of the Automation Engine: processAutomationJobs and       *)
(* executeOneJob (src/lib/automation/executor/job-executor.ts) with the     *)
(* queue claim, the concurrency manager, the job locks, the retry decision, *)
(* the dead letter queue and the cancellation of a run's jobs.              *)
(*                                                                         *)
(* A worker is one invocation of processAutomationJobs (the cron route may  *)
(* be called again while an earlier call still runs); each await of its     *)
(* code that touches shared rows is a step of its own, so another worker or *)
(* an API call may act in between.  The kernel keeps working from the rows  *)
(* it read when it claimed: every status it writes is unconditional.        *)
(*                                                                         *)
(* Abstractions.  scheduledAt: a job waiting for its delay is a QUEUED job  *)
(* that Claim does not pick.  The circuit breaker (module CircuitBreaker)   *)
(* and the token bucket answer nondeterministically here.  A lease outlives *)
(* the work it protects (timeoutMs + 10 s), so it lapses only for a worker  *)
(* that died; module LeaseLock has the leases themselves.                   *)
(***************************************************************************)
EXTENDS Integers, FiniteSets

CONSTANTS
  Jobs, Workers,
  Operators,      \* concurrent API callers that replay dead letters
  Runs, RunOf,    \* RunOf[j]: the automation run job j belongs to
  Locks, LockOf,  \* LockOf[j]: lockKey of j, or NoKey
  ConcKeys, ConcKeyOf, ConcLimit, \* concurrencyKey of j (or NoKey), its limit
  RateLimited,    \* the jobs with a rateLimitKey
  Strategy,       \* Strategy[j] of j's retry policy, "capped" for the four that
                  \* look at the attempts only
  MaxAttempts,    \* MaxAttempts[j]: the attempts j's policy allows; the first
                  \* always runs, and is the only one of "manual"
  Malformed,      \* jobs whose policy lacks the field its strategy needs
  PoolSize,       \* AUTOMATION_WORKER_POOL_SIZE
  GlobalMax,      \* AUTOMATION_MAX_CONCURRENT_JOBS
  DatabaseFaults, \* may a database call of the success path fail?
  MaxCrashes,     \* bound on the worker processes that die
  NoJob, NoWorker, NoKey

ASSUME FiniteAssumption == IsFiniteSet(Jobs)
ASSUME NoneAssumption ==
  NoJob \notin Jobs /\ NoWorker \notin Workers /\ NoKey \notin Locks \cup ConcKeys
ASSUME JobAssumption ==
  /\ RunOf \in [Jobs -> Runs]
  /\ LockOf \in [Jobs -> Locks \cup {NoKey}]
  /\ ConcKeyOf \in [Jobs -> ConcKeys \cup {NoKey}]
  /\ ConcLimit \in [ConcKeys -> Nat \ {0}]
  /\ RateLimited \subseteq Jobs
  /\ Strategy \in [Jobs -> {"manual", "capped", "infinite", "conditional"}]
  /\ MaxAttempts \in [Jobs -> Nat \ {0}]
  /\ \A j \in Jobs : Strategy[j] = "manual" => MaxAttempts[j] = 1
  /\ Malformed \subseteq {j \in Jobs : Strategy[j] \in {"capped", "conditional"}}
ASSUME BoundAssumption == PoolSize \in Nat /\ GlobalMax \in Nat /\ MaxCrashes \in Nat
ASSUME FaultAssumption == DatabaseFaults \in BOOLEAN

VARIABLES
  status,    \* AutomationJob.status
  attempt,   \* AutomationJob.attempt
  lock,      \* lock[k]: worker named by the unexpired lease on k, or NoWorker
  pc,        \* where each worker is in its code
  room,      \* the claim limit a worker computed before it claims
  batch,     \* jobs of its batch a worker has still to execute
  deferred,  \* claimed jobs it decided not to admit
  seen,      \* attempt counts in the rows it read after the claim
  cur,       \* the job it executes, or NoJob
  zombies,   \* jobs with a handler that still runs after its timeout
  replaying  \* replaying[o]: dead letter o read and is about to re-queue

vars == <<status, attempt, lock, pc, room, batch, deferred, seen, cur, zombies, replaying>>
worker == <<pc, room, batch, deferred, seen, cur>>

Statuses == {"QUEUED", "CLAIMED", "RUNNING", "SUCCEEDED", "DEAD_LETTERED", "CANCELLED"}
Steps == {"idle", "poll", "claimed", "defer", "loop", "lock", "requeue", "start",
          "handler", "success", "settle", "merge", "failure", "decide", "crashed"}

TypeOK ==
  /\ status \in [Jobs -> Statuses]
  /\ attempt \in [Jobs -> Nat]
  /\ lock \in [Locks -> Workers \cup {NoWorker}]
  /\ pc \in [Workers -> Steps]
  /\ room \in [Workers -> Nat]
  /\ batch \in [Workers -> SUBSET Jobs]
  /\ deferred \in [Workers -> SUBSET Jobs]
  /\ seen \in [Workers -> [Jobs -> Nat]]
  /\ cur \in [Workers -> Jobs \cup {NoJob}]
  /\ zombies \subseteq Jobs
  /\ replaying \in [Operators -> Jobs \cup {NoJob}]

Init ==
  /\ status = [j \in Jobs |-> "QUEUED"]
  /\ attempt = [j \in Jobs |-> 0]
  /\ lock = [k \in Locks |-> NoWorker]
  /\ pc = [w \in Workers |-> "idle"]
  /\ room = [w \in Workers |-> 0]
  /\ batch = [w \in Workers |-> {}]
  /\ deferred = [w \in Workers |-> {}]
  /\ seen = [w \in Workers |-> [j \in Jobs |-> 0]]
  /\ cur = [w \in Workers |-> NoJob]
  /\ zombies = {}
  /\ replaying = [o \in Operators |-> NoJob]

Goto(w, step) == pc' = [pc EXCEPT ![w] = step]
SetStatus(j, s) == status' = [status EXCEPT ![j] = s]

\* The jobs worker w works on or will: nobody else should.
Held(w) == batch[w] \cup deferred[w] \cup ({cur[w]} \ {NoJob})

----------------------------------------------------------------------------
(* processAutomationJobs *)

InProgress == {j \in Jobs : status[j] = "RUNNING"}
OfKey(k) == {j \in Jobs : ConcKeyOf[j] = k}

\* remainingGlobalCapacity, then Math.min with the pool size.
Poll(w) ==
  LET free == GlobalMax - Cardinality(InProgress)
  IN  /\ pc[w] = "idle"
      /\ free > 0
      /\ room' = [room EXCEPT ![w] = IF free < PoolSize THEN free ELSE PoolSize]
      /\ Goto(w, "poll")
      /\ UNCHANGED <<status, attempt, lock, batch, deferred, seen, cur, zombies, replaying>>

Mut_ClaimableUnlocked == {j \in Jobs : status[j] \in {"QUEUED", "CLAIMED"}}

\* WHERE status = 'QUEUED' ... FOR UPDATE SKIP LOCKED.
Claimable == {j \in Jobs : status[j] = "QUEUED"}

\* The claim transaction: up to room[w] of the jobs that are due.
Claim(w) ==
  /\ pc[w] = "poll"
  /\ \E S \in SUBSET Claimable :
       /\ Cardinality(S) <= room[w]
       /\ status' = [j \in Jobs |-> IF j \in S THEN "CLAIMED" ELSE status[j]]
       /\ batch' = [batch EXCEPT ![w] = S]
       /\ Goto(w, IF S = {} THEN "idle" ELSE "claimed")
  /\ room' = [room EXCEPT ![w] = 0]
  /\ UNCHANGED <<attempt, lock, deferred, seen, cur, zombies, replaying>>

\* The slots admitByConcurrency hands out for key k within the batch, from
\* the number of RUNNING jobs it counted: as many as fit, no more.
SlotsOf(k, claimed, slots) ==
  LET running == Cardinality(InProgress \cap OfKey(k))
      given   == Cardinality(slots \cap OfKey(k))
  IN  /\ given = 0 \/ running + given <= ConcLimit[k]
      /\ claimed \cap OfKey(k) \subseteq slots \/ running + given >= ConcLimit[k]

\* The claimed rows are read and admitted or deferred.  A job the rate
\* limiter refuses has used its slot all the same.
Admit(w) ==
  /\ pc[w] = "claimed"
  /\ \E slots \in SUBSET batch[w], throttled \in SUBSET RateLimited :
       /\ OfKey(NoKey) \cap batch[w] \subseteq slots
       /\ \A k \in ConcKeys : SlotsOf(k, batch[w], slots)
       /\ throttled \subseteq slots
       /\ batch' = [batch EXCEPT ![w] = slots \ throttled]
       /\ deferred' = [deferred EXCEPT ![w] = batch[w] \ (slots \ throttled)]
  /\ seen' = [seen EXCEPT ![w] = [j \in Jobs |-> IF j \in batch[w] THEN attempt[j] ELSE 0]]
  /\ Goto(w, "defer")
  /\ UNCHANGED <<status, attempt, lock, room, cur, zombies, replaying>>

\* updateMany({ id in deferred }, QUEUED).
Defer(w) ==
  /\ pc[w] = "defer"
  /\ status' = [j \in Jobs |-> IF j \in deferred[w] THEN "QUEUED" ELSE status[j]]
  /\ deferred' = [deferred EXCEPT ![w] = {}]
  /\ Goto(w, "loop")
  /\ UNCHANGED <<attempt, lock, room, batch, seen, cur, zombies, replaying>>

LoopEnds(w) ==
  /\ pc[w] = "loop" /\ batch[w] = {}
  /\ seen' = [seen EXCEPT ![w] = [j \in Jobs |-> 0]]
  /\ Goto(w, "idle")
  /\ UNCHANGED <<status, attempt, lock, room, batch, deferred, cur, zombies, replaying>>

----------------------------------------------------------------------------
(* executeOneJob *)

\* The next job of the batch, and the answer of isCircuitOpen for its type.
Gate(w) ==
  /\ pc[w] = "loop"
  /\ \E j \in batch[w] :
       /\ cur' = [cur EXCEPT ![w] = j]
       /\ batch' = [batch EXCEPT ![w] = @ \ {j}]
  /\ \E open \in BOOLEAN : Goto(w, IF open THEN "requeue" ELSE "lock")
  /\ UNCHANGED <<status, attempt, lock, room, deferred, seen, zombies, replaying>>

Mut_LockFreeAlways(w, k) == TRUE

\* tryAcquire succeeds: the key is free, or held by this very worker.
LockFree(w, k) == lock[k] \in {NoWorker, w}

TryLock(w) ==
  LET k == LockOf[cur[w]]
  IN  /\ pc[w] = "lock"
      /\ \/ k = NoKey /\ Goto(w, "start") /\ UNCHANGED lock
         \/ /\ k # NoKey /\ LockFree(w, k)
            /\ lock' = [lock EXCEPT ![k] = w]
            /\ Goto(w, "start")
         \/ k # NoKey /\ ~LockFree(w, k) /\ Goto(w, "requeue") /\ UNCHANGED lock
      /\ UNCHANGED <<status, attempt, room, batch, deferred, seen, cur, zombies, replaying>>

\* Circuit open or lock taken: back to the queue, no attempt consumed.
Requeue(w) ==
  /\ pc[w] = "requeue"
  /\ SetStatus(cur[w], "QUEUED")
  /\ cur' = [cur EXCEPT ![w] = NoJob]
  /\ Goto(w, "loop")
  /\ UNCHANGED <<attempt, lock, room, batch, deferred, seen, zombies, replaying>>

\* The attempt after the n-th.  Nobody compares those of an infinite policy,
\* and they are not counted past the first.
Following(j, n) == IF Strategy[j] = "infinite" THEN 1 ELSE n + 1

\* status RUNNING and attempt + 1, counted from the row read at the claim.
Start(w) ==
  /\ pc[w] = "start"
  /\ SetStatus(cur[w], "RUNNING")
  /\ attempt' = [attempt EXCEPT ![cur[w]] = Following(cur[w], seen[w][cur[w]])]
  /\ Goto(w, "handler")
  /\ UNCHANGED <<lock, room, batch, deferred, seen, cur, zombies, replaying>>

HandlerReturns(w) ==
  /\ pc[w] = "handler"
  /\ Goto(w, "success")
  /\ UNCHANGED <<status, attempt, lock, room, batch, deferred, seen, cur, zombies, replaying>>

HandlerThrows(w) ==
  /\ pc[w] = "handler"
  /\ Goto(w, "failure")
  /\ UNCHANGED <<status, attempt, lock, room, batch, deferred, seen, cur, zombies, replaying>>

\* A slip: the handler is awaited without withTimeout.
Mut_NoTimeout(w) == FALSE /\ UNCHANGED vars

\* withTimeout rejects; nothing stops the handler itself.
HandlerTimesOut(w) ==
  /\ pc[w] = "handler"
  /\ zombies' = zombies \cup {cur[w]}
  /\ Goto(w, "failure")
  /\ UNCHANGED <<status, attempt, lock, room, batch, deferred, seen, cur, replaying>>

ZombieEnds(j) ==
  /\ j \in zombies
  /\ zombies' = zombies \ {j}
  /\ UNCHANGED <<status, attempt, lock, worker, replaying>>

WriteSucceeded(w) ==
  /\ pc[w] = "success"
  /\ SetStatus(cur[w], "SUCCEEDED")
  /\ Goto(w, "settle")
  /\ UNCHANGED <<attempt, lock, room, batch, deferred, seen, cur, zombies, replaying>>

\* release: a DELETE that names this worker as holder.
ReleaseLock(w) ==
  LET k == LockOf[cur[w]]
  IN  lock' = IF k # NoKey /\ lock[k] = w THEN [lock EXCEPT ![k] = NoWorker] ELSE lock

\* recordCircuitSuccess, then the lock is released.
Settle(w) ==
  /\ pc[w] = "settle"
  /\ ReleaseLock(w)
  /\ Goto(w, "merge")
  /\ UNCHANGED <<status, attempt, room, batch, deferred, seen, cur, zombies, replaying>>

\* The handler's variables go into the run, which advances (module
\* AutomationRun); the job itself is done with.
Merge(w) ==
  /\ pc[w] = "merge"
  /\ cur' = [cur EXCEPT ![w] = NoJob]
  /\ Goto(w, "loop")
  /\ UNCHANGED <<status, attempt, lock, room, batch, deferred, seen, zombies, replaying>>

\* The try block covers all of the success path: a database error in it ends
\* in the same catch as a failed attempt.
SuccessPathFails(w) ==
  /\ DatabaseFaults
  /\ pc[w] \in {"success", "settle", "merge"}
  /\ Goto(w, "failure")
  /\ UNCHANGED <<status, attempt, lock, room, batch, deferred, seen, cur, zombies, replaying>>

\* The catch: recordCircuitFailure, then the lock is released.
Fail(w) ==
  /\ pc[w] = "failure"
  /\ ReleaseLock(w)
  /\ Goto(w, "decide")
  /\ UNCHANGED <<status, attempt, room, batch, deferred, seen, cur, zombies, replaying>>

\* A slip in decideRetry: one attempt too many.
Mut_RetryOnceMore(j, n) ==
  Strategy[j] = "infinite" \/ (Strategy[j] # "manual" /\ n <= MaxAttempts[j])

\* The answers decideRetry may give when attempt n has just failed.  An infinite
\* policy stops at its maxDurationMs, if it has one, and a conditional one at an
\* error that its rule does not accept.
MayRetry(j, n) ==
  Strategy[j] = "infinite" \/ (Strategy[j] # "manual" /\ n < MaxAttempts[j])
MayGiveUp(j, n) ==
  Strategy[j] \in {"manual", "infinite", "conditional"} \/ n >= MaxAttempts[j]

\* Back to the queue with a delay, or sendToDeadLetter.
Decide(w) ==
  LET j == cur[w]
      n == seen[w][j] + 1
  IN  /\ pc[w] = "decide"
      /\ j \notin Malformed
      /\ \/ MayRetry(j, n) /\ SetStatus(j, "QUEUED")
         \/ MayGiveUp(j, n) /\ SetStatus(j, "DEAD_LETTERED")
      /\ cur' = [cur EXCEPT ![w] = NoJob]
      /\ Goto(w, "loop")
      /\ UNCHANGED <<attempt, lock, room, batch, deferred, seen, zombies, replaying>>

\* decideRetry throws, and nothing above the catch it is called from does catch
\* it: the call of processAutomationJobs ends there, with the rows as they are.
DecideThrows(w) ==
  /\ pc[w] = "decide"
  /\ cur[w] \in Malformed
  /\ Goto(w, "crashed")
  /\ UNCHANGED <<status, attempt, lock, room, batch, deferred, seen, cur, zombies, replaying>>

----------------------------------------------------------------------------
(* API callers, crashes and the passing of time *)

Mut_CancellableOpen == {"QUEUED", "CLAIMED", "RUNNING", "WAITING", "DEAD_LETTERED"}
Mut_CancellableAll == Statuses

\* The statuses cancelAutomationRun's updateMany selects.
Cancellable == {"QUEUED", "CLAIMED", "RUNNING", "WAITING"}

CancelRun(r) ==
  /\ status' = [j \in Jobs |-> IF RunOf[j] = r /\ status[j] \in Cancellable
                                 THEN "CANCELLED" ELSE status[j]]
  /\ UNCHANGED <<attempt, lock, worker, zombies, replaying>>

\* replayDeadLetter: the row is read and its status tested ...
ReplayRead(o, j) ==
  /\ replaying[o] = NoJob
  /\ status[j] = "DEAD_LETTERED"
  /\ replaying' = [replaying EXCEPT ![o] = j]
  /\ UNCHANGED <<status, attempt, lock, worker, zombies>>

\* ... and later written, whatever it has become.
ReplayWrite(o) ==
  /\ replaying[o] # NoJob
  /\ SetStatus(replaying[o], "QUEUED")
  /\ attempt' = [attempt EXCEPT ![replaying[o]] = 0]
  /\ replaying' = [replaying EXCEPT ![o] = NoJob]
  /\ UNCHANGED <<lock, worker, zombies>>

Crashed == {w \in Workers : pc[w] = "crashed"}

\* The process dies, or an exception leaves processAutomationJobs.  What the
\* worker had claimed stays as it is in the table.
Crash(w) ==
  /\ Cardinality(Crashed) < MaxCrashes
  /\ pc[w] \notin {"idle", "crashed"}
  /\ Goto(w, "crashed")
  /\ UNCHANGED <<status, attempt, lock, room, batch, deferred, seen, cur, zombies, replaying>>

LeaseLapses(k) ==
  /\ lock[k] \in Crashed
  /\ lock' = [lock EXCEPT ![k] = NoWorker]
  /\ UNCHANGED <<status, attempt, worker, zombies, replaying>>

\* What a worker does once its code runs: the handler's own end is not in it,
\* only the timer that bounds it.
Progress(w) ==
  \/ Claim(w) \/ Admit(w) \/ Defer(w) \/ LoopEnds(w)
  \/ Gate(w) \/ TryLock(w) \/ Requeue(w) \/ Start(w)
  \/ HandlerTimesOut(w)
  \/ WriteSucceeded(w) \/ Settle(w) \/ Merge(w)
  \/ Fail(w) \/ Decide(w) \/ DecideThrows(w)

Next ==
  \/ \E w \in Workers : Poll(w) \/ Progress(w) \/ Crash(w)
  \/ \E w \in Workers : HandlerReturns(w) \/ HandlerThrows(w) \/ SuccessPathFails(w)
  \/ \E j \in Jobs : ZombieEnds(j)
  \/ \E k \in Locks : LeaseLapses(k)
  \/ \E r \in Runs : CancelRun(r)
  \/ \E o \in Operators : ReplayWrite(o) \/ \E j \in Jobs : ReplayRead(o, j)

Spec == Init /\ [][Next]_vars

\* A process that lives runs its code to the end: every await of it returns
\* or, for the handler, is bounded by the timer.
FairSpec == Spec /\ \A w \in Workers : WF_vars(Progress(w))
----------------------------------------------------------------------------
(* Properties *)

\* queue/types.ts ("jamais deux fois le meme job a deux appelants
\* concurrents"), carried through the whole execution: no job is in the hands
\* of two workers, and none that can be claimed is in anybody's hands.
HeldByOne ==
  /\ \A v, w \in Workers : v # w => Held(v) \cap Held(w) = {}
  /\ \A w \in Workers : Held(w) \cap Claimable = {}

\* Two workers are never both between the acquisition and the release of one
\* lock key, and such a worker is the one the lease names.
Locking == {"start", "handler", "success", "settle"}
LockExclusion ==
  /\ \A w \in Workers :
       pc[w] \in Locking /\ LockOf[cur[w]] # NoKey => lock[LockOf[cur[w]]] = w
  /\ \A v, w \in Workers :
       /\ pc[v] \in Locking /\ pc[w] \in Locking
       /\ LockOf[cur[v]] = LockOf[cur[w]] /\ LockOf[cur[w]] # NoKey
       => v = w

\* dlq.ts:8 ("epuisement des tentatives, strategie manual, ou condition non
\* remplie"): whatever becomes of the row between two attempts, no policy with
\* a cap runs one attempt too many, and one that looks at nothing else sends a
\* job to the dead letters after its last attempt only.
DeadLetterBudget ==
  \A j \in Jobs :
    /\ Strategy[j] # "infinite" => attempt[j] <= MaxAttempts[j]
    /\ status[j] = "DEAD_LETTERED" /\ Strategy[j] \in {"manual", "capped"}
         => attempt[j] = MaxAttempts[j]

\* dlq.ts: "replayDeadLetter est la seule facon de faire ressortir un job de
\* la DLQ": it leaves it only for the queue, with its attempts reset.
DeadLetterExit ==
  [][\A j \in Jobs : status[j] = "DEAD_LETTERED" /\ status'[j] # "DEAD_LETTERED"
                     => status'[j] = "QUEUED" /\ attempt'[j] = 0]_vars

\* A job whose success was recorded is never run or recorded otherwise again:
\* not by a retry, a cancellation of its run, or a replay.
SucceededIsFinal ==
  [][\A j \in Jobs : status[j] = "SUCCEEDED" => status'[j] = "SUCCEEDED"]_vars

\* A job that was claimed or started does not stay so, unless it is in the hands
\* of a worker that died or left on an exception: a death strands the jobs of
\* its own batch, and no lock, limit or queue makes it strand another.
Settled(j) == status[j] \notin {"CLAIMED", "RUNNING"}
ClaimedIsSettled ==
  \A j \in Jobs : ~Settled(j) ~> Settled(j) \/ \E w \in Crashed : j \in Held(w)

\* The workers and the jobs in their hands implement JobOwnership.
Ownership == INSTANCE JobOwnership WITH hands <- [w \in Workers |-> Held(w)]
ImplementsOwnership == Ownership!Spec

(* Stated by comments of the code, and not kept by it (README) *)

\* ADR 0030 (jobs "survivre a un redemarrage de processus"): whoever dies.
EverySettled == \A j \in Jobs : ~Settled(j) ~> Settled(j)

\* lock/types.ts ("un seul job a la fois par prospect"): of the jobs of one
\* lock key, one handler runs at a time.
OneHandlerPerLock ==
  \A w \in Workers :
    pc[w] = "handler" /\ LockOf[cur[w]] # NoKey => \A z \in zombies : LockOf[z] # LockOf[cur[w]]
=============================================================================
