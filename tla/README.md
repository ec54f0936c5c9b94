# Provence 360: TLA+ models of its engines

This directory holds TLA+ modules translated from the source of Provence 360
(a CRM with an automation, workflow and agent layer, written in TypeScript on
Next.js and Prisma), the TLC configurations that check them on small
instances, and proofs for TLAPS of the theorems that matter most.
`PROJECT.json` lists components, runs, mutants, the map from definitions to
source lines, hazards and theorems. Paths below are relative to the
repository; `automation/` stands for `src/lib/automation/`.

    tlc -workers 2 -config LeaseLock.cfg MCLeaseLock      # one run
    tlapm SharedStateProofs.tla                           # one proof module

Contents: 1 inventory · 2 how the project is built · 3 modules and code ·
4 runs · 5 proofs · 6 what the code does not keep · 7 not modelled.

## 1. Inventory

The program has many parts that only read and write single rows behind a form.
The parts below have a protocol: several processes, a clock, failures, or a
state that only a sequence of operations can spoil. All shared state is in
PostgreSQL; every Prisma call is one atomic step, and unless a `$transaction`
says otherwise nothing ties two calls together. Work is done by *invocations*:
HTTP calls of the cron routes under `src/app/api/cron` (about once a minute,
and a second call may start before the first returns) or of the API by a user.
Nothing in the code keeps two invocations apart but the claims and locks
modelled here.

| Component | State | Operations | Hard behaviour | What makes it correct | Modelled |
|---|---|---|---|---|---|
| Lock manager (`automation/lock`) | `AutomationLock` rows: holder, expiresAt | tryAcquire, renew, release | leases that lapse, takeovers, a holder that dies | one holder at a time; a dead holder's row passes on | `LeaseLock` |
| Queue and job kernel (`automation/queue`, `executor/job-executor.ts`, `concurrency`, `retry`, `dlq`) | `AutomationJob` rows: status, attempt, lockedBy | enqueue, claim, admit or defer, execute, retry or dead-letter, cancel, replay | overlapping invocations, handler timeouts, crashes, late unconditional writes | one owner per job; one holder per lock key; retry budget; one exit of the DLQ; claimed jobs are settled | `JobKernel`, `JobOwnership` |
| Circuit breaker (`automation/retry`) | one row per job type: state, failureCount, resetAt | isCircuitOpen, recordCircuitSuccess, recordCircuitFailure | read and write in two calls | opens on evidence; never blocks for ever; closes after recovery | `CircuitBreaker` |
| Automation run executor (`automation/executor`) | `AutomationRun` row: status, context (node states, loops, maps, variables), resumeAt | start, advance, iterate, cancel, resume | advances that overlap and write stale contexts back, waits, exceptions between effects and save, the bound on a call | order of the graph; verdicts that jobs back; room of a map; a run ends | `RunGraph`, `AutomationRun`, `IterationNode` |
| Automation registry and triggers (`automation/registry`, `trigger-engine.ts`) | definitions, versions, trigger bindings | create, version, activate, stop, archive, fire | activations that overlap a firing or each other, requests that die half-way | what runs was activated; a stop stops | `AutomationRegistry` |
| Workflow engine (`lib/workflows`) | `WorkflowRun`, step rows | execute, retry, suspend, resume, compensate, cancel | crash within a step, retries, compensations | a step runs once, after its sources; success and failure mean what they say | `WorkflowRun` |
| Agent runs and director (`lib/agents`) | `AgentRun`, plan, steps | plan, delegate, execute, retry, cancel | users and cron act on what the director waits for | dependencies first; the verdict is true; the loop ends | `AgentPlan` |
| Sequence engine (`lib/sequence-engine.ts`, `suppression.ts`) | enrolments, messages, exclusion list | enrol, run due steps, validate, send, stop, opt out | overlapping senders, an opt-out racing a send, calls that die | never ahead of its mails; the opt-out is kept | `SequenceEngine` |
| Webhook deliveries (`lib/jobs/webhook-delivery-job.ts`) | deliveries, attempts | plan, post, retry, give up | no claim; stale counts | given up only after its attempts; none stays pending | `WebhookDelivery` |
| Invoices (`lib/crm/invoice-service.ts`, `process-overdue-invoices.ts`) | invoice status, payments | pay, set by hand, mark overdue, announce | check, then act, in two calls | PAID is covered by payments | `InvoicePayments` |
| Rate limiter, priorities | in-process buckets, priority numbers | tryConsume, rank | per-process state | bounded rate | no |
| Billing, plans, quotas | subscriptions, counters | check, use | check, then use | limit never passed | no |
| CRM and accounting, knowledge and memory, domain events, mail and connectors, accounts and permissions, routes and UI, schema | rows, text | forms, indexing, adapters | little protocol | | no, section 7 |

How the modelled parts interact. The automation cron route calls, in this
order, `processQueuedAutomationRuns`, `processDueAutomationRunWaits`,
`processDueAutomationSchedules` and `processAutomationJobs`. The first two
advance runs; advancing a run (`advanceAutomationRun` → `tickGraph`) creates
jobs for its action nodes and for the bodies of its loops and maps. The third
fires trigger bindings, as events and webhook calls do; a firing creates runs.
The last claims jobs through the queue manager, admits them under the
concurrency limits, asks the circuit breaker and the rate limiter, takes the
job's lock, runs its handler, records the end, merges variables into the run
and advances it again. Users cancel runs and replay dead letters at any time.
The workflow engine, the agents, the sequences and the webhooks each have a
cron function of their own, of the form *read the due rows, act, write*. A
domain event (`invoice.paid`) plans webhook deliveries and fires triggers.

## 2. How the project is built

One module per component, parameterised by CONSTANTS with named assumptions;
one action per database call or handler step; properties at its end. Where
components compose: `JobKernel` implements the abstract `JobOwnership`;
`AutomationRun` and `IterationNode` extend `RunGraph` (the code too uses one
algorithm for the root graph and for bodies); `InvoicePayments` extends
`WebhookDelivery` and publishes into it. No module uses a recursive operator,
so every module can be proved about.

`MC…` modules give the constants their values for TLC; they replace no
definition. Operators named `Mut_…` are plausible slips of the definition
below them; they are used by no specification and serve to show that each
property can fail.

The proofs of a component are in a module of their own, except that the lock,
the breaker and the registry's bindings, small tables that every process
shares, have theirs together in `SharedStateProofs` (hence `BreakerSpec`,
`registryVars`: no name of the one may be a name of the other).

What is left, in order: the agents' `scheduler.ts`; cron expressions against a
reference definition.

## 3. Modules and the code they model

**`LeaseLock`** — `lock/providers/postgres-lock.ts`, `memory-lock.ts`.
`holder[k]`, `left[k]` are the row (expiry relative to now, so there is no
clock to bound; every negative value is `-1`); `trust[c][k]` is how long the
client may count on the answer it got. The two providers differ only at the
very instant of expiry: the memory provider already gives the row away
(`expiresAt <= now`), the SQL one does not (`expiresAt < now`); `MemoryKeys`
says which keys are kept by which. `renew` tests the holder only, as the code
does, so a lapsed lease nobody took is prolonged. `crashed` clients release
nothing.

**`JobKernel`** — `processAutomationJobs` and `executeOneJob`, with the queue's
claim, the concurrency manager, `decideRetry`, `replayDeadLetter` and the job
part of `cancelAutomationRun`. A worker is one invocation; `pc` says at which
`await` it stands. `Poll` (global capacity) → `Claim` → `Admit` → `Defer` →
for each job `Gate` → `TryLock` → `Start` → handler → `WriteSucceeded` →
`Settle` → `Merge`, or `Fail` → `Decide`; `Requeue` is the circuit-open and
lock-taken path. `seen` keeps the attempt counts read at the claim, since the
code goes on from that row. The limits are counted over RUNNING rows at
admission, as in `concurrency-manager.ts`. The circuit and the token bucket
answer freely. `decideRetry` is modelled by the strategy of the job's policy:
*capped* (immediate, linear, exponential, limited) retries below the cap and
never else; *manual* never; *infinite* may always retry or, once
`maxDurationMs` has passed, give up; *conditional* retries below the cap if its
rule holds and gives up otherwise (`MayRetry`, `MayGiveUp`; the rule and the
duration are free answers, and the attempts of an infinite policy, which nobody
compares, are counted up to one: `Following`). For a `Malformed` policy, limited
without a cap or conditional without a rule, it throws (`DecideThrows`) out of
`processAutomationJobs`. `DatabaseFaults` lets a call of the success path throw into the
catch that covers it. `zombies` are handlers that go on after `withTimeout`
rejected. Locks are kept as the holder of an unexpired lease: a lease is
`timeoutMs + 10 s` long, so it outlives the work it protects and lapses only
for a dead worker; `LeaseLock` has the leases themselves.

**`JobOwnership`** — what the queue promises
(`queue/types.ts`: never the same job to two concurrent callers): a set of
jobs in each worker's hands, taken only from the free ones, given back at
will. `JobKernel` implements it with `hands[w] = Held(w)`, the union of the
batch, the deferred jobs and the current one.

**`CircuitBreaker`** — one row and the workers around it; each function's read
and write are separate steps. `failureCount` is counted up to the threshold,
the only value it is compared with. Three ghosts serve `OpensOnEvidence`:
`streak` counts the failures reported since the last success, `crossing` holds
the workers whose count was read before a success they have not seen, and
`overcounted` says that one of them has written its count since. `healthy` says the dependency has recovered
for good; until then attempts succeed or fail freely.

**`RunGraph`** — `run-state.ts` and the join rule of `job-executor.ts` as pure
operators over a graph given by constants: edges satisfied, ready, out of
reach, the join's result, what a failed job makes of its node.
`computeReadyNodes` visits the nodes in the order of `graph.nodes` and marks
as it goes; `OutOfReach` is the set of nodes it marks (each node judged with
the marks of the nodes before it). What the code keeps as a list in that order
(the ready nodes of a generation, a batch of steps, what is to be undone) is a
set here and in the modules built on it, taken in order: `Foremost`, `First`,
`Last` name the member whose turn it is.

**`AutomationRun`** — `advanceAutomationRun`, `tickGraph` and their callers. An
actor is a process that works on a job of the run or advances it. An advance
reads the row (`Read`), changes its own `copy` generation by generation
(`Generation`, `Dispatch`), creates tasks that are visible at once
(`DispatchTask`), and writes its copy back (`Save`, `Suspend`) over whatever
the row has become. `MergeRead`/`MergeWrite` are the read and write of the
variables. `DispatchThrows` is an exception that leaves the advance before
anything is saved. A task stands for the job of an action node or the child
run of a subautomation node; `JobKernel` has a job's inner life. Two
simplifications: the polls of one generation are one step, and a recorded
SUCCEEDED task is not overwritten (no database fault here).

**`IterationNode`** — a `loop` or `map` node (`job-executor.ts:183-364`) within
its run: `Read` (with the node's dispatch), then per generation `Poll`, and for
each item under way `Tick` and `DispatchBody` on its body until it rests, and
`LeaveItem`; `Save` writes the context and the verdict. A loop keeps an index,
a map a list of active items; both start items in order, so `started` and
`done` stand for either, with `Room` 1 or `concurrencyLimit`. `gen` counts the
generations of a call against `MAX_TICK_GENERATIONS_PER_CALL`. An overlapping
advance works on a stale copy; `Lose` is a process that dies or a body node
whose dispatch throws (a `wait` in a body, an input that does not resolve).

**`AutomationRegistry`** — `automation-service.ts` and the firing half of
`trigger-engine.ts`: an activation writes the automation, deletes the bindings
and creates new ones in three calls (`ActivateWrites`, `Unindex`, `Index`), a
stop writes the automation and then its bindings, a firing reads the bindings
(`FireReads`), re-reads the automation for each (`FireBinding`) and creates the
run (`FireCreates`). A binding is of one trigger node, so two nodes of one key
are two bindings. Runs by hand take the active version without a look at the
status, retries the version of an earlier run (`ByHandReads`, `RetryReads`,
`ByHandCreates`). `activated`, `ran` and `late` are ghosts; `late` does not count
the runs by hand.

**`WorkflowRun`** — `executeWorkflowRun` with its callers,
`runWorkflowToCompletion` and `cancelWorkflowRun`. `steps` are the rows;
`mem[x]` is an executor's copy of them with the batch it launched: `Load` →
`Resume` → `Scan` (skips and ready nodes) → `Launch` → `Settle` (success, wait,
retry, ignored, failed) → … → `Finish` → `Undo` (compensations). Each row is
written when the code writes it, so `Crash` leaves steps RUNNING. `ValidGraph` is
`validateWorkflowGraph`, with edges into and out of the loops' bodies, which it
admits: an edge out of a body does not count in the scan, one into a body does
where the code asks whether an error edge leaves a node. `BranchesOf` is the
`output.branch` of any node that may have one.

**`AgentPlan`** — the director's loop (`director-agent.ts`), the planning and
delegation engines, `executeAgentRun` and its driver, the cron that executes
queued agent runs, and users who cancel or retry a step. An executor is one
call that works on a step: the director's, the cron's or a user's. A delegation
goes `Resolved` → `CreateRun` → `Bind` → (`Execute` … → `DriveReads`, at most
`MaxDrives` times: `MAX_DRIVE_ITERATIONS`) → `ReadRun` → `Report`; a run that is
not over then makes its step FAILED, and so does whatever throws on the way
(`Refused`: one `catch` covers it all). The verdict is read (`MergePlanResults`)
and then written (`MarkPlanFinished`). `proven` is
the set of steps some agent delivered (a ghost); `touches` bounds what users
and the cron do.

**`SequenceEngine`** — enrolment (`EnrollCheck`/`EnrollCreate`), the due cron
(`CronReads`, `RunDue`, `CheckDue`, `Postpone`, `Generate`, `Hold`), validation
(`Picks`, `Decides`), sending (`SendLoads`, `WriteFailed`, `Send`,
`WriteSent`/`WriteBounced`), advancing (`AdvanceReads`/`AdvanceWrites`), stops
(`Stop`, `StopLead`) and the opt-out's three writes. Every call that reads or
writes what the model keeps is a step, so callers overlap anywhere; mail
events, the prospect's stage and the sender's account are not kept, and the
mark read with the row and the exclusion list, which is written before it, are
asked together. `mailed` and `after` count mails (ghosts).

**`WebhookDelivery`**, **`InvoicePayments`** — an event reads the subscriptions
(`Planned`) and then creates their deliveries, all or none (`CreateDeliveries`);
a caller reads the due
deliveries with their counts (`SenderReads`), then posts and writes them one by
one from what it read. A payment reads invoice and payments (`PayReads`), then
creates its own (`PayCreates`), marks the invoice (`PayMarks`) and publishes
(`PayPublishes` begins to plan deliveries). `byHand` says the status was last set by
`updateInvoiceStatus`.

## 4. Runs

All pass; sizes are distinct states.

| Run | Instance | States | Shows |
|---|---|---|---|
| `LeaseLock` | 3 clients, one key per provider, leases of 1 and 2 ticks | 1 963 | `TrustIsBacked`, `MutualExclusion`; `CrashedHolderLosesLock` under fairness |
| `JobKernelSafety` | 2 workers, 2 jobs sharing a lock and a concurrency key of limit 1, one capped and one conditional policy of 2 attempts, one operator, database faults, one crash | 348 028 | one owner, one lock holder, the DLQ's budget and exit, refinement of `JobOwnership` |
| `JobKernelLive` | the same with one infinite and one malformed policy, one crash, no limit or faults, under fairness | 50 724 | a success is final; a claimed job is settled, unless a worker that died or left on an exception had it |
| `CircuitBreaker` | 3 workers, threshold 2 | 8 396 | opens on consecutive failures or on a count a success has crossed, never blocks for ever, closes after recovery |
| `AutomationRunAlone` | one actor, 9 nodes: wait, condition, child run, error branch, ignored error, join | 398 | one task per node, complete success, the run ends |
| `AutomationRunOverlap` | 2 actors, 2 actions of which one follows the other, one crash, a throwing dispatch, a cancellation | 1 085 783 | order of the graph; SUCCEEDED needs a task that succeeded |
| `IterationNode` | a loop and a map of limit 2 over 3 items, body of a condition and an action, 2 actors, one overlapping advance or one death | 484 324 | open jobs within the room of the node, verdicts that jobs back, the run ends |
| `WorkflowRun` | one executor, 10 nodes: condition, retried action, error branch, ignored failure, loop, subworkflow, wait; edges into and out of the loop's body; a cancellation, a death | 16 729 | no replay, sources first, success follows the graph, failure is undone, the run ends |
| `AgentPlan` | 3 steps, the last after both others, 2 attempts, 2 drives, one act of a user or the cron | 621 089 | dependencies first, true verdict, the loop ends |
| `SequenceEngine` | one enrolment of 2 steps, the second validated, 2 cron calls, a validator, an opt-out, a call that dies | 1 473 108 | never ahead of its mails, one mail per caller after the opt-out, the opt-out settles |
| `InvoicePayments` | total 2, payments of 1 and 2, 2 payers, an overdue call, one status by hand, one subscription, 2 senders, 2 attempts, deaths | 1 172 216 | PAID is covered, verdicts of deliveries are earned, none stays pending |
| `AutomationRegistry` | 2 versions, one with two nodes of one key, 2 keys, 2 administrators, 2 firings or runs by hand, 4 operations, one death | 1 869 518 | only activated versions run, one run per call after a stop |

*Bounds.* Two workers (actors, senders, cron calls) show every race between an
owner and another process; the code treats all invocations alike and nothing
in it counts them, and most safety properties are proved for any number. Two
jobs are enough for a shared key; a batch of two has a job waiting while the
other runs. Three clients let one take over a lease while a second asks and a
third is dead; three workers in the breaker let two stale reports meet a fresh
one. Two lease lengths make leases taken together lapse apart. `MaxCrashes`,
`MaxDeaths`, `MaxDead`, `MaxLost` bound the processes that die. `MaxTasks = 2`
bounds the tasks of one node (in `AutomationRun` two are one too many already;
in `IterationNode` one upset makes no third: the same states are reached with
a larger bound). Three items and a limit of two leave an item to be started
when another is over; `WithinLimit` says something of the map without an upset
(2 of 3 items), and of the loop with or without one (1, then 2 of 3). `MaxGenerations = 7` is above what three items need;
what happens at the bound is in section 6. `MaxIterations = 6` lets the plan's
three steps settle and leaves the loop exhausted when a retry is in flight.
`MaxDrives = 2` is what two attempts need, so the bound is met when another
call has the run in hand meanwhile.
`MaxTouches = 1`: two acts on one plan multiply the states past what a run can
hold, and one reaches each kind of act at every point. `MaxOps = 4` is an
activation, a new version, its activation and a stop. `PoolSize` and
`GlobalMax` are 2, so a worker that polls while another runs one job has room
for one, and for none when both run.

*Deadlock* is checked in the runs of `LeaseLock`, `JobKernel`, `CircuitBreaker`
and `AutomationRunAlone`. It is not where a bound of the model or a final
status stops the system: `AutomationRunOverlap` and `IterationNode` at
`MaxTasks`, and the finite tales of `WorkflowRun`, `AgentPlan`,
`SequenceEngine`, `InvoicePayments` and `AutomationRegistry`, whose liveness
properties say what must have happened by then. *Symmetry* is used over actors
in `AutomationRunOverlap` (invariants only).

*Fairness.* `JobKernel`: weak fairness of each worker's own code (`Progress`),
which contains the timeout but neither the handler's answer nor the next
`Poll`: every `await` of the code returns, and the handler is bounded by
`withTimeout`. `LeaseLock`: time passes, and surviving clients go on asking,
since the cron calls the kernel again and again. `CircuitBreaker`: `resetAt`
passes, the cron keeps offering jobs of the type, and a worker that was let
through reports (its handler is bounded). `AutomationRun`: weak fairness of
what an actor does once it works on the run, and strong fairness of
`CronPicks` and `TaskTaken`: one invocation of the cron route runs the four
functions in turn, so neither the runs nor the jobs starve, although either may
be disabled for a moment by another process. `IterationNode`: strong fairness
of each actor's steps, for the same reason; which job it takes is not
constrained. `WorkflowRun`: executors run on, time passes, and the cron picks
what is QUEUED or due. `AgentPlan`: the director's calls and the executions
they wait for run on; users and the cron owe nothing. `SequenceEngine`: cron
calls are made again and again and run on, dates are reached; validators owe
nothing. `WebhookDelivery`: senders run on and come again, retries fall due.
Properties of runs that may lose a process say so (`RunEnds`, `IterationEnds`,
`ClaimedIsSettled`),
or hold because another call takes the work up (`OptOutSettles`,
`DeliveryEnds`).

## 5. Proofs

Checked by TLAPS for every value of the constants, under the `ASSUME`s of the
modules (finite set of jobs, positive limits and attempts, "none" values
outside the sets).

| Theorem | States | Argument |
|---|---|---|
| `SharedStateProofs!TypeCorrect`, `TrustBacked`, `Exclusive` | `Spec => []TypeOK`, `[]TrustIsBacked`, `[]MutualExclusion` | `TypeOK /\ TrustIsBacked` is inductive: the table names whoever counts on a key, for as long; two who count on it are both the one it names |
| `SharedStateProofs!OpenOnlyOnEvidence` | `BreakerSpec => [](BreakerTypeOK /\ OpensOnEvidence)` | `CountsAreBacked`: until a count that a success has crossed is written back, neither the row's count nor a count a worker has read exceeds what was reported since the last success |
| `JobKernelProofs!TypeCorrect` | `Spec => []TypeOK` | with `Shape`: a worker has a current job exactly between `Gate` and the end of `executeOneJob`, and its other sets are empty where the code has left them |
| `JobKernelProofs!OneWorkerPerLock` | `Spec => []LockExclusion` | a worker between acquisition and release is the one its lease names; a lease lapses for dead workers only |
| `JobKernelProofs!ExclusiveHolding` | with `OneOperator`, `Spec => []HeldByOne` | jobs in hands are not claimable; every write of QUEUED is made by the one who lets go |
| `JobKernelProofs!KernelImplementsOwnership` | with `OneOperator`, the kernel implements `JobOwnership` | every step takes free jobs, gives jobs back, or stutters |
| `JobKernelProofs!DeadLettersAreSpent` | with `OneOperator`, `Spec => []DeadLetterBudget` | what a worker has read of a job's attempts is what the row says, as long as nobody else may write it (ownership again), and it is below the cap of the job's strategy, if that has one |
| `JobKernelProofs!DeadLettersStay`, `SuccessesStay` | with `OneOperator` (the second with `~DatabaseFaults` too), `Spec => DeadLetterExit`, `SucceededIsFinal` | no worker has a job in its hands whose row is DEAD_LETTERED or, once it may no longer throw, SUCCEEDED; so only a replay writes over the first and nothing over the second |
| `AutomationRunProofs!SuccessNeedsEvidence` | `Spec => []SuccessHasEvidence` | `Backing`: the context **and every actor's copy** are backed by tasks that succeeded; tasks only grow in number and a SUCCEEDED one stays so, so a copy may be as stale as it likes |
| `AutomationRunProofs!TypeCorrect` | `Spec => []TypeOK` | `Typing`, with `Backing`: the context and every copy are of the same type, since the one is overwritten with the other; who merges variables holds the task of a node that sets some, and a task in hands is still there |
| `AutomationRunProofs!NeedsComeFirst` | `Spec => []AfterItsNeeds` | `NeedsInv`: along the context and every copy, a node that was reached has its sources settled, and a settled node is accounted for by a task that is over; the scan (`OutOfReachAgrees`) lists only nodes of which that is true |
| `AutomationRunProofs!LoneAdvanceIsIdempotent`, `LoneSuccessIsComplete` | with `Alone`, `Spec => []OneTaskPerNode`, `[]SuccessIsComplete` | when nothing is under way the row is all there is, and the tasks it names are all the tasks; a copy under way differs from the row by what its own advance did |
| `WorkflowRunProofs!TypeCorrect` | `Spec => []TypeOK` | with `Shape`: what a copy and a batch may hold at each place of the code |
| `WorkflowRunProofs!NothingIsReplayed`, `SourcesComeFirst` | with `OneExecutor`, `Spec => NeverReplayed`, `StartsAfterSources` | `Mirror`: an executor's copy is the table, but for the steps of the batch it is settling |
| `WorkflowRunProofs!FailuresAreUndone` | with `OneExecutor`, `Spec => []FailureIsUndone` | `Failing`: a run is failing only for a step left FAILED, and what is still to be undone is what succeeded and is not COMPENSATED yet |
| `WorkflowRunProofs!SuccessesFollowGraph` | with `OneExecutor`, `Spec => []SuccessFollowsGraph` | `Following`: each step that is over was reached, or skipped, by what its sources say, which the scan keeps from one generation to the next |
| `AgentPlanProofs!TypeCorrect` | `Spec => []TypeOK` | with `Shape`: a delegation has a run of its own step in hand exactly from the creation of that run to its report |
| `AgentPlanProofs!NothingBeforeItsTurn` | `Spec => []DeliveredFirst` | `Delivery` follows a success from the run an agent ended to the delegation that reads it and to the step it writes |
| `AgentPlanProofs!PlanVerdict` | with `EnoughRounds`, `Spec => []VerdictIsTrue` | `Settling`, of plans no user touched: a step is under way only while the Director works on it, a skipped one goes back to one that failed, and each round settles at least the next step of the list, since a step depends on earlier ones only |
| `SharedStateProofs!RunsAreOfActivated` | `Spec => []OnlyActivatedRuns` | `Origins` follows a version from the activation that carries it through the bindings and each firing's batch to the run |
| `SharedStateProofs!StopIsPrompt` | `Spec => []OneRunAfterStop` | `Brakes`: a call about to create a run for a stopped automation has created none since the stop, because it re-reads the automation for each binding |
| `IterationNodeProofs!TypeCorrect`, `VerdictBacked` | `Spec => []TypeOK`, `[]VerdictIsBacked` | `Shape`: the context **and every actor's copy** (`Views`) say of a body node only what a job of it did; a RUNNING job is in the hands of one actor, so what is over stays over |
| `IterationNodeProofs!RoomIsKept` | `Spec => []WithinLimit` | `Limits`: no context has more items under way than there is room for (`Narrow`), and every open job is awaited by the copy of an advance under way, by the saved context when there is none, or is of an item put down when the copy that awaited it was overwritten or lost (`Accounted`). A beginning overlap adds a copy, a loss puts one down, and the union of `m` sets of `Room` items has no more than `Room * m` (`UnionBound`) |
| `InvoicePaymentsProofs!PaidInFull` | `Spec => []PaidIsCovered` | `Paying`: the sum a payer has read is at most what is paid now, as payments are only added |
| `InvoicePaymentsProofs!EarnedVerdicts` | `Spec => []VerdictIsEarned` | `Posting`: no count, in a row or in a caller's hand, exceeds the posts made |
| `InvoicePaymentsProofs!TypeCorrect` | `Spec => []TypeOK` | from the two invariants, whose steps meet only where an event is published |
| `SequenceEngineProofs!TypeCorrect` | `Spec => []TypeOK` | with what a caller at work has in hand |
| `SequenceEngineProofs!NeverAheadOfItsMails` | `Spec => []AdvanceIsBacked` | `Backed` counts the callers in flight: steps done and callers about to add one do not outnumber the mails |
| `SequenceEngineProofs!OptOutIsKept` | `Spec => []OneMailAfterOptOut` | `Asked`: a caller that has mailed after the opt-out has not been allowed another, since it asks the list before each |

The hypotheses are where the code needs them, not where the proofs do; without
each, section 6 has what happens. `OneOperator` is *at most one caller in the
middle of a replay*: `replayDeadLetter` reads and writes in two calls, and with
two operators a late write re-queues a job that a worker holds (`JobKernelSafety`
has one operator for the same reason). `~DatabaseFaults`: a fault after the
SUCCEEDED write is caught as a failure of the job. `Alone` is one actor, no
dispatch that throws and no crash: `advanceAutomationRun` takes no lock, so two
advances create a job each. `OneExecutor` is one executor at a time: a workflow
run is not claimed by who executes it. `EnoughRounds` is a round of the
Director's loop for each step of the plan.

A step of induction over the nodes of a graph is out of reach (see below); the
proofs about the scans of a graph do without it. `OutOfReach` is shown to exist
as a least fixed point, the meet of the sets closed under the scan.

The type invariants of `LeaseLock`, `JobKernel`, `CircuitBreaker`, `AutomationRun`,
`SequenceEngine`, `InvoicePayments` and `AutomationRegistry` are proved and no
run repeats them; each can be added to its cfg as an INVARIANT.

Model-checked only: all liveness (liveness under fairness and `ENABLED` are out
of this prover's reach); what a recursion over data computes for every input
(no induction over data; the graph closures are written as set definitions).
Every other property that a run checks is stated by a theorem above.

## 6. What the code does not keep

Each of these is stated by a comment, a document or a test of the repository
and is violated by what the code does. The statement is in the module; add it
to the cfg named to see TLC's counterexample.

| Statement, and who makes it | How to see it | What happens |
|---|---|---|
| `EverySettled`: a claimed job is settled although its process dies (`docs/adr/0030`, line 51: the engine is for "tout ce qui doit survivre à un redémarrage de processus") | PROPERTY in `JobKernelLive.cfg` | a job CLAIMED or RUNNING at the death stays so; nothing reclaims it (`job-executor.ts:750`). A malformed retry policy does the same without a death: `decideRetry` throws (`retry-engine.ts:92`), the job stays RUNNING and the rest of its batch CLAIMED |
| `OneHandlerPerLock` (`automation/lock/types.ts:6`: "un seul job à la fois par prospect") | INVARIANT in `JobKernelSafety.cfg` | the lock is released when the timeout rejects, while the handler goes on (`job-executor.ts:799`) |
| `OneTaskPerNode` (`job-executor.ts:482`: "ré-entrant et idempotent") | INVARIANT in `AutomationRunOverlap.cfg` | two overlapping advances create a job each (`job-executor.ts:505`) |
| `TerminalIsFinal` (`tests/automation/job-executor.test.ts:348`: "annule un run en cours et ses jobs non terminaux") | PROPERTY in `AutomationRunOverlap.cfg`, without its SYMMETRY | an advance under way writes a cancelled run back to life (`job-executor.ts:500`) |
| `WaitLasts` (same test file, line 278: 'un noeud "wait" suspend le run puis reprend une fois le délai écoulé') | PROPERTY in `AutomationRunAlone.cfg` | the end of a job on a parallel branch ends the wait (`job-executor.ts:516`) |
| `JoinAllMeansAll` (`graph-types.ts:80`: mode *all* waits for all edges to be "terminales et satisfaites") | INVARIANT in `AutomationRunAlone.cfg` | the join succeeds when one source does (`job-executor.ts:407`) |
| `IterationEnds` for any collection a loop accepts, 1000 items by default (`job-executor.ts:487`: a "cron de sécurité" takes the rest up) | `IterationNode.cfg` with `Kinds = {"loop"}`, `Actors = {p1}`, `MaxUpsets = 0`, `NodeList <- IdleList`, `Edges <- IdleEdges`, the code's `MaxGenerations = 200` and `NumItems = 198` (197 is still fine) | each item costs a generation; 198 items in a row that need no job (a condition lets them go) use up the call (`tick-graph.ts:25`), and no cron picks up a RUNNING run |
| `AlwaysWithinLimit` (`automation/graph-types.ts:71`: items run "jusqu'à `concurrencyLimit`", those of a loop "séquentiellement") | INVARIANT in `IterationNode.cfg` in the place of `WithinLimit` | two overlapping advances create a job each for item 1 (`job-executor.ts:505`); who sees the first succeed starts item 2 while the other job is QUEUED or RUNNING. `WithinLimit` says how far this can go |
| `OpensOnConsecutiveFailures` (`automation/retry/circuit-breaker.ts:7`, `docs/adr/0033`, line 9: it opens "après un nombre de défaillances consécutives") | INVARIANT in `CircuitBreaker.cfg` | a worker reads a count of 1, another reports a success, which clears it, and the first writes 2 (`circuit-breaker.ts:52`): the row opens on one failure in a row. `OpensOnEvidence` says that this is the only way |
| `NeverReplayed` for overlapping executors (`workflows/execution-engine.ts:304`: a resumption "ne rejoue jamais" a finished step) | `WorkflowRun.cfg` with `Executors = {p1, p2}` | both run the same steps: `executeWorkflowRun` writes RUNNING without a condition |
| `NeverOverpaid` (`crm/invoice-service.ts:182`: "jamais de sur-paiement silencieux") | INVARIANT in `InvoicePayments.cfg` | two payments each find room for their own (`invoice-service.ts:196`) |
| `FailureIsUndone` without its `Halting(steps) # {}` (`docs/adr/0019`: "un noeud avec plusieurs arêtes entrantes devient prêt dès qu'AU MOINS une arête est satisfaite, à condition que TOUTES ses sources soient terminales") | `WorkflowRun.cfg` with a graph whose list puts a join before its source: `NodeList` ⟨e, t, a2, a3⟩, edges t→a2, a2 –error→ a3, a2→e, a3→e | one scan judges each node when it comes to it: e, listed before the source a3 that this scan skips, is not ready, nothing else is, and the loop stops (`workflows/execution-engine.ts:380`); the run is FAILED with e PENDING and a2 is not undone |
| `VerdictIsTrue` for any plan (`agents/definitions/director-agent.ts:22`: the bound is a "Filet de sécurité contre une boucle infinie en cas d'anomalie") | `AgentPlan.cfg` with `MaxIterations = 2` | a plan may have any number of steps (`lib/validations/director.ts:27`); a chain of more steps than `MAX_LOOP_ITERATIONS`, 50, ends FAILED with steps PENDING and none failed |
| `IndexIsActive` (bindings belong to the active version) | INVARIANT in `AutomationRegistry.cfg` | overlapping activations leave the bindings of both (`automation-service.ts:231`) |

Other behaviours met while modelling:

- Kernel: a concurrency limit is passed by two workers, since only RUNNING jobs
  count and they become so after admission (`concurrency-manager.ts:68`). A
  cancelled job is overwritten by its worker's last write
  (`job-executor.ts:775`). A database fault after the SUCCEEDED write ends in
  the catch, and the job is retried or dead-lettered (`job-executor.ts:794`):
  `SucceededIsFinal` is checked without faults. With two operators the DLQ has
  a second exit (`dlq.ts:39`): the late write of a replay re-queues a job a
  worker has, a second worker claims it, the first dead-letters it and the
  second takes it out with its attempts unreset.
- Breaker: HALF_OPEN lets everybody through (`circuit-breaker.ts:34`), and a
  failing trial may leave it HALF_OPEN (`circuit-breaker.ts:53`): a late
  success resets the count, HALF_OPEN is written over it, and the trial's
  failure counts one.
- Run: overlapping writes of the context lose the variables another job merged
  in between (`job-executor.ts:783`; `SuccessIsComplete` is checked with one
  actor). A RUNNING run whose process died between a job's last write and the save
  is not picked up by any cron (`job-executor.ts:689`). A join of mode *any*
  none of whose edges can be satisfied stays PENDING for ever
  (`run-state.ts:101`), and one whose only end is an ignored error is SKIPPED
  (`job-executor.ts:407`). A failure with policy *stop* makes the run FAILED at
  the end of the tick only, so a node with another satisfied edge still gets
  its job. A RUNNING job of a cancelled run whose attempt fails goes back to
  the queue, so after a cancellation a node may run again beside those that
  follow it: `AfterItsNeeds` is stated up to the cancellation of the jobs.
- Loop and map: a body failure with policy *alternative_branch* runs the error
  branch and still fails the item (`run-state.ts:139` ignores the policy, which
  `isHaltingFailure` respects at the top level). A failing map leaves the jobs
  of its other items running. A map with a `concurrencyLimit` of 0 starts
  nothing and its run never ends. A loop over too many items throws out of the
  advance (`job-executor.ts:225`), which leaves its run RUNNING.
- Workflow: a cancelled run that was picked beforehand runs on and may end
  SUCCEEDED; a cancellation may be written over a run that just finished. A
  retry and a wait in one batch resume the wait early. A death leaves the run
  RUNNING, which no cron picks up. A run blocked on PENDING steps is FAILED
  without compensation.
- Agents: `retryStepDelegation` does not look at dependencies again. A plan
  with cancelled or skipped steps and no failed one is SUCCEEDED. The loop
  burns its iterations without delay while a retry is in flight. A cancelled
  run is overwritten by its executor. The director's own timeout leaves its
  loop going. Two overlapping calls of the scheduler each create a run for a
  due slot (`scheduler.ts:61`).
- Sequences (`process-overdue-invoices.ts:10` calls the function "idempotent,
  rejouable"): two cron calls, or two validators on one message, send a step
  twice and may then skip a step. A death between the message and its hold
  makes two messages; one after an approval leaves it APPROVED and never sent.
  An approval that lands between the message and `nextRunAt := null`, and a
  rejection, leave an enrolment ACTIVE without a date, which blocks a new one.
- Webhooks and invoices: a late FAILED may overwrite SUCCESS. Deleting a
  subscription under way aborts the rest of the batch. Two partial payments
  that complete the sum together mark nothing PAID. OVERDUE may be written over
  PAID or CANCELLED (`process-overdue-invoices.ts:27`). Two conversions of one
  quote may create two invoices.
- Registry: a stopped automation still runs by hand, and its old runs again, as
  neither looks at the status (`job-executor.ts:627`, `:655`). An event between `Unindex` and `Index` is lost. An archived
  automation can be activated again. `parseField` of `cron-engine.ts` does not
  end on a step of 0 (`*/0`).

## 7. Not modelled, and why

- Parts of the modelled components: the memory queue (keeps nothing across a
  process), replays of dead
  letters as seen by `AutomationRun`, priorities (they order what `Claim` may
  take in any order), the rate limiter's bucket (per process; a free answer),
  templates and webhook secrets of the registry, cron expressions, holidays
  and time zones (a free answer), `workflow-service.ts` and the workflow
  triggers (the registry's shape again), `scheduler.ts` of the agents, what a
  language model answers, the creation and numbering of invoices.
- Billing, plans and quotas: counters checked and then used, as in the kernel's
  admission; where they gate a modelled operation their answer is free.
- CRM, accounting, accounts and permissions: single-row reads and writes, no
  protocol between actors. Knowledge, memory and context: the state is text.
  Mail, calendar, LLM and connectors: adapters to external services. Schema,
  migrations and seeds: generated or data.
- Routes, pages and components (the larger part of the source): I/O and
  rendering, whose state is one request or one screen. This is why the map
  covers only a small share of the repository's lines: it covers the engines
  under `src/lib` that several processes work on, and little else has a state
  that more than one actor changes in more than one step.
