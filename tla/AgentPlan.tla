----------------------------- MODULE AgentPlan -----------------------------
(***************************************************************************)
(* A plan of the Director agent: its loop (definitions/director-agent.ts),  *)
(* the planning and delegation engines (director/planning-engine.ts,        *)
(* delegation-engine.ts), the agent runs a delegation creates and executes  *)
(* (agents/execution-engine.ts), the cron that executes queued runs, and    *)
(* the users who cancel or retry a step.                                    *)
(*                                                                         *)
(* A delegation is one call of delegateStep: the Director's, or the one a   *)
(* user's retry makes; no two of one kind work on one step.  Each await on  *)
(* a plan, a step or a run is a step of its own.                            *)
(*                                                                         *)
(* Abstractions.  What an agent answers is a free choice.  Messages,        *)
(* memory and logs are left out; so is the Director's own run, whose        *)
(* timeout stops nobody.  scheduledAt only delays what the cron may take    *)
(* at any time.                                                             *)
(***************************************************************************)
EXTENDS Naturals, FiniteSets, Sequences

CONSTANTS
  NumSteps,
  DependsOn,      \* DependsOn[s]: the steps s depends on
  MaxAttempts,    \* maxAttempts of a delegated run
  MaxIterations,  \* MAX_LOOP_ITERATIONS
  MaxDrives,      \* MAX_DRIVE_ITERATIONS
  MaxRuns,        \* bound on the runs of one step
  MaxTouches      \* bound on the cancellations, retries and cron executions together

Steps == 1 .. NumSteps

\* createPlan: a step depends on earlier ones only.
ASSUME PlanAssumption ==
  /\ NumSteps \in Nat \ {0} /\ MaxAttempts \in Nat \ {0} /\ MaxIterations \in Nat
  /\ MaxDrives \in Nat \ {0} /\ MaxRuns \in Nat /\ MaxTouches \in Nat
  /\ DependsOn \in [Steps -> SUBSET Steps]
  /\ \A s \in Steps : \A d \in DependsOn[s] : d < s

Kinds == {"director", "user"}
Delegations == Steps \X Kinds
Cron == <<0, "cron">>
Executors == Delegations \cup {Cron}

VARIABLES
  plan,     \* AgentPlan.status, with the loop's own place in the code
  rounds,   \* iterations of the loop
  step,     \* step[s]: status and subRunId (an index of runs[s], 0 for none)
  runs,     \* runs[s]: the AgentRuns created for s, status and attempt
  pc,       \* pc[x]: where a delegation, or the cron, is in its code
  on,       \* on[x]: the run it executes, <<step, index>>
  attempt,  \* attempt[x]: run.attempt as its executeAgentRun read it
  drives,   \* drives[x]: iterations of runAgentToCompletion that ended short of the run
  cancel,   \* cancel[s]: progress of a cancellation of s, and the run it found
  retrying, \* steps a user's retry has found FAILED or CANCELLED
  touches,  \* how often a user or the cron stepped in
  byUser,   \* did a user?
  proven    \* steps of which some run has been written SUCCEEDED

vars == <<plan, rounds, step, runs, pc, on, attempt, drives, cancel, retrying, touches, byUser, proven>>

StepStatuses == {"PENDING", "DELEGATED", "RUNNING", "SUCCEEDED", "FAILED", "CANCELLED", "SKIPPED"}
Live == {"PENDING", "DELEGATED", "RUNNING"}             \* NON_TERMINAL_STEP_STATUSES
RunStatuses == {"QUEUED", "RUNNING", "SUCCEEDED", "FAILED", "CANCELLED"}
TerminalRun == {"SUCCEEDED", "FAILED", "CANCELLED"}     \* FAILED stands for TIMED_OUT too
NoRun == <<0, 0>>

RunOf(r) == runs[r[1]][r[2]]

Init ==
  /\ plan = "ready" /\ rounds = 0
  /\ step = [s \in Steps |-> [status |-> "PENDING", sub |-> 0]]
  /\ runs = [s \in Steps |-> <<>>]
  /\ pc = [x \in Executors |-> "idle"]
  /\ on = [x \in Executors |-> NoRun]
  /\ attempt = [x \in Executors |-> 0] /\ drives = [x \in Delegations |-> 0]
  /\ cancel = [s \in Steps |-> [at |-> "none", sub |-> 0]]
  /\ retrying = {} /\ touches = 0 /\ byUser = FALSE /\ proven = {}

----------------------------------------------------------------------------
(* The Director's loop *)

Lost == {"FAILED", "CANCELLED", "SKIPPED"}

Blocked(s) == step[s].status = "PENDING" /\ \E d \in DependsOn[s] : step[d].status \in Lost

\* A slip: one finished dependency is enough.
Mut_ReadyOnFirst(s) ==
  /\ step[s].status = "PENDING"
  /\ DependsOn[s] # {} => \E d \in DependsOn[s] : step[d].status = "SUCCEEDED"

Ready(s) == step[s].status = "PENDING" /\ \A d \in DependsOn[s] : step[d].status = "SUCCEEDED"

\* A slip: a blocked step is left PENDING.
Mut_NoSkip ==
  /\ plan = "ready" /\ rounds < MaxIterations
  /\ rounds' = rounds + 1
  /\ pc' = [x \in Executors |-> IF x[2] = "director" /\ Ready(x[1]) THEN "resolve" ELSE pc[x]]
  /\ plan' = IF \E s \in Steps : Ready(s) THEN "delegating" ELSE "counting"
  /\ UNCHANGED <<step, runs, on, attempt, drives, cancel, retrying, touches, byUser, proven>>

\* getReadySteps: blocked steps are skipped, ready ones delegated together.
GetReadySteps ==
  /\ plan = "ready" /\ rounds < MaxIterations
  /\ rounds' = rounds + 1
  /\ step' = [s \in Steps |-> IF Blocked(s) THEN [step[s] EXCEPT !.status = "SKIPPED"] ELSE step[s]]
  /\ pc' = [x \in Executors |-> IF x[2] = "director" /\ Ready(x[1]) THEN "resolve" ELSE pc[x]]
  /\ plan' = IF \E s \in Steps : Ready(s) THEN "delegating" ELSE "counting"
  /\ UNCHANGED <<runs, on, attempt, drives, cancel, retrying, touches, byUser, proven>>

\* Promise.all returns once every delegation of the batch has.
BatchEnds ==
  /\ plan = "delegating"
  /\ \A s \in Steps : pc[<<s, "director">>] = "idle"
  /\ plan' = "ready"
  /\ UNCHANGED <<rounds, step, runs, pc, on, attempt, drives, cancel, retrying, touches, byUser, proven>>

\* countPendingSteps: nothing ready and nothing pending ends the loop.
CountPending ==
  /\ plan = "counting"
  /\ plan' = IF \E s \in Steps : step[s].status = "PENDING" THEN "ready" ELSE "merging"
  /\ UNCHANGED <<rounds, step, runs, pc, on, attempt, drives, cancel, retrying, touches, byUser, proven>>

LoopExhausted ==
  /\ plan = "ready" /\ rounds = MaxIterations
  /\ plan' = "merging"
  /\ UNCHANGED <<rounds, step, runs, pc, on, attempt, drives, cancel, retrying, touches, byUser, proven>>

Verdict == IF \E s \in Steps : step[s].status \in {"FAILED"} \cup Live THEN "FAILED" ELSE "SUCCEEDED"

\* The plan is read, and mergePlanResults counts its steps ...
MergePlanResults ==
  /\ plan = "merging"
  /\ plan' = IF Verdict = "SUCCEEDED" THEN "to SUCCEEDED" ELSE "to FAILED"
  /\ UNCHANGED <<rounds, step, runs, pc, on, attempt, drives, cancel, retrying, touches, byUser, proven>>

\* ... and what they said is written, whatever they have become.
MarkPlanFinished ==
  /\ plan \in {"to SUCCEEDED", "to FAILED"}
  /\ plan' = IF plan = "to SUCCEEDED" THEN "SUCCEEDED" ELSE "FAILED"
  /\ UNCHANGED <<rounds, step, runs, pc, on, attempt, drives, cancel, retrying, touches, byUser, proven>>

----------------------------------------------------------------------------
(* delegateStep *)

\* No agent for the step, or without the rights it asks; or an exception of
\* any call from the first to the last one: one catch for all.
Refused(x) ==
  /\ pc[x] # "idle"
  /\ step' = [step EXCEPT ![x[1]].status = "FAILED"]
  /\ pc' = [pc EXCEPT ![x] = "idle"]
  /\ on' = [on EXCEPT ![x] = NoRun]
  /\ attempt' = [attempt EXCEPT ![x] = 0]
  /\ drives' = [drives EXCEPT ![x] = 0]
  /\ UNCHANGED <<plan, rounds, runs, cancel, retrying, touches, byUser, proven>>

\* Whatever the step has become since it was read.
Resolved(x) ==
  /\ pc[x] = "resolve"
  /\ step' = [step EXCEPT ![x[1]].status = "DELEGATED"]
  /\ pc' = [pc EXCEPT ![x] = "create"]
  /\ UNCHANGED <<plan, rounds, runs, on, attempt, drives, cancel, retrying, touches, byUser, proven>>

CreateRun(x) ==
  /\ pc[x] = "create" /\ Len(runs[x[1]]) < MaxRuns
  /\ runs' = [runs EXCEPT ![x[1]] = Append(@, [status |-> "QUEUED", attempt |-> 0])]
  /\ on' = [on EXCEPT ![x] = <<x[1], Len(runs[x[1]]) + 1>>]
  /\ pc' = [pc EXCEPT ![x] = "bind"]
  /\ UNCHANGED <<plan, rounds, step, attempt, drives, cancel, retrying, touches, byUser, proven>>

Bind(x) ==
  /\ pc[x] = "bind"
  /\ step' = [step EXCEPT ![x[1]] = [status |-> "RUNNING", sub |-> on[x][2]]]
  /\ pc' = [pc EXCEPT ![x] = "execute"]
  /\ UNCHANGED <<plan, rounds, runs, on, attempt, drives, cancel, retrying, touches, byUser, proven>>

\* A slip: the run is executed until it succeeds, however often it fails.
Mut_UntilItSucceeds(x) ==
  /\ pc[x] = "drive"
  /\ pc' = [pc EXCEPT ![x] = IF RunOf(on[x]).status = "SUCCEEDED" THEN "read" ELSE "execute"]
  /\ UNCHANGED <<plan, rounds, step, runs, on, attempt, drives, cancel, retrying, touches, byUser, proven>>

\* runAgentToCompletion: again while the run is not terminal, MaxDrives times at most.
DriveReads(x) ==
  LET again == RunOf(on[x]).status \notin TerminalRun /\ drives[x] + 1 < MaxDrives
  IN  /\ pc[x] = "drive"
      /\ pc' = [pc EXCEPT ![x] = IF again THEN "execute" ELSE "read"]
      /\ drives' = [drives EXCEPT ![x] = IF again THEN @ + 1 ELSE 0]
      /\ UNCHANGED <<plan, rounds, step, runs, on, attempt, cancel, retrying, touches, byUser, proven>>

\* A slip: the status of the run is taken as it is.
Mut_Unmapped(x) ==
  /\ pc[x] = "read"
  /\ pc' = [pc EXCEPT ![x] = RunOf(on[x]).status]
  /\ UNCHANGED <<plan, rounds, step, runs, on, attempt, drives, cancel, retrying, touches, byUser, proven>>

\* delegateStep reads the run again; mapRunStatusToStepStatus, for which a run
\* that is not terminal, or no longer, has failed.
ReadRun(x) ==
  /\ pc[x] = "read"
  /\ pc' = [pc EXCEPT ![x] = IF RunOf(on[x]).status \in TerminalRun THEN RunOf(on[x]).status ELSE "FAILED"]
  /\ UNCHANGED <<plan, rounds, step, runs, on, attempt, drives, cancel, retrying, touches, byUser, proven>>

Report(x) ==
  /\ pc[x] \in TerminalRun
  /\ step' = [step EXCEPT ![x[1]].status = pc[x]]
  /\ pc' = [pc EXCEPT ![x] = "idle"]
  /\ on' = [on EXCEPT ![x] = NoRun]
  /\ UNCHANGED <<plan, rounds, runs, attempt, drives, cancel, retrying, touches, byUser, proven>>

----------------------------------------------------------------------------
(* executeAgentRun, by a delegation or by processQueuedAgentRuns *)

CronPicks ==
  /\ touches < MaxTouches /\ pc[Cron] = "idle"
  /\ touches' = touches + 1
  /\ \E s \in Steps : \E k \in 1 .. Len(runs[s]) :
       /\ runs[s][k].status = "QUEUED"
       /\ on' = [on EXCEPT ![Cron] = <<s, k>>]
  /\ pc' = [pc EXCEPT ![Cron] = "execute"]
  /\ UNCHANGED <<plan, rounds, step, runs, attempt, drives, cancel, retrying, byUser, proven>>

\* RUNNING replaces any status, a cancelled one included.  An attempt beyond
\* the last is counted as the first one beyond it.
Execute(x) ==
  /\ pc[x] = "execute"
  /\ LET n == IF RunOf(on[x]).attempt > MaxAttempts THEN RunOf(on[x]).attempt
                                                    ELSE RunOf(on[x]).attempt + 1
     IN  /\ runs' = [runs EXCEPT ![on[x][1]][on[x][2]] = [status |-> "RUNNING", attempt |-> n]]
         /\ attempt' = [attempt EXCEPT ![x] = n]
  /\ pc' = [pc EXCEPT ![x] = "running"]
  /\ UNCHANGED <<plan, rounds, step, on, drives, cancel, retrying, touches, byUser, proven>>

\* The call returns: the cron is done, a delegation looks at the run.
Return(x) ==
  /\ pc' = [pc EXCEPT ![x] = IF x = Cron THEN "idle" ELSE "drive"]
  /\ on' = IF x = Cron THEN [on EXCEPT ![Cron] = NoRun] ELSE on
  /\ attempt' = [attempt EXCEPT ![x] = 0]

SetStatus(r, status) == runs' = [runs EXCEPT ![r[1]][r[2]].status = status]

\* The agent answers in time.
Answers(x) ==
  /\ pc[x] = "running"
  /\ SetStatus(on[x], "SUCCEEDED")
  /\ proven' = proven \cup {on[x][1]}
  /\ pc' = [pc EXCEPT ![x] = "after"]
  /\ UNCHANGED <<plan, rounds, step, on, attempt, drives, cancel, retrying, touches, byUser>>

\* The log, the intervention request and the event after the success.
AfterSuccess(x) ==
  /\ pc[x] = "after"
  /\ Return(x)
  /\ UNCHANGED <<plan, rounds, step, runs, drives, cancel, retrying, touches, byUser, proven>>

\* The status a failure leaves the run with.
AfterFailure(x) == IF attempt[x] < MaxAttempts THEN "QUEUED" ELSE "FAILED"

\* The agent throws or is late, its installation is not active, or what
\* follows the success throws: all but the third are in one catch.
Fails(x) ==
  /\ pc[x] \in {"running", "after"}
  /\ SetStatus(on[x], AfterFailure(x)) \/ (pc[x] = "running" /\ SetStatus(on[x], "FAILED"))
  /\ Return(x)
  /\ UNCHANGED <<plan, rounds, step, drives, cancel, retrying, touches, byUser, proven>>

----------------------------------------------------------------------------
(* Users: cancelStepDelegation and retryStepDelegation *)

CancelReads(s) ==
  /\ touches < MaxTouches /\ cancel[s].at = "none"
  /\ step[s].status \in Live
  /\ touches' = touches + 1 /\ byUser' = TRUE
  /\ cancel' = [cancel EXCEPT ![s] = [at |-> IF step[s].sub = 0 THEN "step" ELSE "run", sub |-> step[s].sub]]
  /\ UNCHANGED <<plan, rounds, step, runs, pc, on, attempt, drives, retrying, proven>>

\* cancelAgentRun reads the run; a terminal one is left alone ...
CancelReadsRun(s) ==
  /\ cancel[s].at = "run"
  /\ cancel' = [cancel EXCEPT ![s].at = IF runs[s][cancel[s].sub].status \in TerminalRun THEN "step" ELSE "write"]
  /\ UNCHANGED <<plan, rounds, step, runs, pc, on, attempt, drives, retrying, touches, byUser, proven>>

\* ... any other is written CANCELLED, whatever it has become.
CancelWritesRun(s) ==
  /\ cancel[s].at = "write"
  /\ SetStatus(<<s, cancel[s].sub>>, "CANCELLED")
  /\ cancel' = [cancel EXCEPT ![s].at = "step"]
  /\ UNCHANGED <<plan, rounds, step, pc, on, attempt, drives, retrying, touches, byUser, proven>>

CancelWritesStep(s) ==
  /\ cancel[s].at = "step"
  /\ step' = [step EXCEPT ![s].status = "CANCELLED"]
  /\ cancel' = [cancel EXCEPT ![s] = [at |-> "none", sub |-> 0]]
  /\ UNCHANGED <<plan, rounds, runs, pc, on, attempt, drives, retrying, touches, byUser, proven>>

RetryReads(s) ==
  /\ touches < MaxTouches /\ s \notin retrying
  /\ step[s].status \in {"FAILED", "CANCELLED"}
  /\ pc[<<s, "user">>] = "idle"
  /\ touches' = touches + 1 /\ byUser' = TRUE
  /\ retrying' = retrying \cup {s}
  /\ UNCHANGED <<plan, rounds, step, runs, pc, on, attempt, drives, cancel, proven>>

\* The step starts afresh, and is delegated without a look at what it depends on.
RetryResets(s) ==
  /\ s \in retrying
  /\ step' = [step EXCEPT ![s] = [status |-> "PENDING", sub |-> 0]]
  /\ retrying' = retrying \ {s}
  /\ pc' = [pc EXCEPT ![<<s, "user">>] = "resolve"]
  /\ UNCHANGED <<plan, rounds, runs, on, attempt, drives, cancel, touches, byUser, proven>>

----------------------------------------------------------------------------
Loop == GetReadySteps \/ BatchEnds \/ CountPending \/ LoopExhausted
        \/ MergePlanResults \/ MarkPlanFinished

Delegate(x) == \/ Refused(x) \/ Resolved(x) \/ CreateRun(x) \/ Bind(x)
               \/ DriveReads(x) \/ ReadRun(x) \/ Report(x)

Work(x) == Execute(x) \/ Answers(x) \/ AfterSuccess(x) \/ Fails(x)

Users(s) == \/ CancelReads(s) \/ CancelReadsRun(s) \/ CancelWritesRun(s) \/ CancelWritesStep(s)
            \/ RetryReads(s) \/ RetryResets(s)

Next ==
  \/ Loop \/ CronPicks
  \/ \E x \in Executors : Work(x)
  \/ \E x \in Delegations : Delegate(x)
  \/ \E s \in Steps : Users(s)

Spec == Init /\ [][Next]_vars

\* The Director's process goes on, and every agent answers or times out.
FairSpec ==
  /\ Spec
  /\ WF_vars(Loop)
  /\ \A x \in Executors : WF_vars(Work(x))
  /\ \A x \in Delegations : WF_vars(Delegate(x))

----------------------------------------------------------------------------
(* Properties *)

TypeOK ==
  /\ plan \in {"ready", "delegating", "counting", "merging", "to SUCCEEDED", "to FAILED", "SUCCEEDED", "FAILED"}
  /\ rounds \in 0 .. MaxIterations
  /\ \A s \in Steps : step[s].status \in StepStatuses /\ step[s].sub \in 0 .. Len(runs[s])
  /\ \A s \in Steps : /\ Len(runs[s]) <= MaxRuns
                      /\ \A k \in 1 .. Len(runs[s]) : runs[s][k].status \in RunStatuses
                                                      /\ runs[s][k].attempt \in 0 .. MaxAttempts + 1
  /\ \A x \in Executors :
       /\ pc[x] \in {"idle", "resolve", "create", "bind", "execute", "running", "after", "drive", "read"}
                 \cup TerminalRun
       /\ attempt[x] \in 0 .. MaxAttempts + 1
       /\ on[x] # NoRun <=> pc[x] \notin {"idle", "resolve", "create"}
       /\ on[x] # NoRun => on[x][1] \in Steps /\ on[x][2] \in 1 .. Len(runs[on[x][1]])
  /\ \A x \in Delegations : drives[x] \in 0 .. MaxDrives - 1
  /\ \A s \in Steps : cancel[s].at \in {"none", "run", "write", "step"} /\ cancel[s].sub \in 0 .. Len(runs[s])
  /\ retrying \subseteq Steps /\ touches \in 0 .. MaxTouches /\ byUser \in BOOLEAN /\ proven \subseteq Steps

\* The Director works on a step only once an agent has delivered each step it
\* depends on, and no step is shown as SUCCEEDED that no agent delivered,
\* whatever users cancel or retry and whoever else executes the runs.
DeliveredFirst ==
  /\ \A s \in Steps : pc[<<s, "director">>] # "idle" => DependsOn[s] \subseteq proven
  /\ \A s \in Steps : step[s].status = "SUCCEEDED" => s \in proven

\* A plan no user touched ends with every step settled, a step skipped only
\* for one before it that was lost, and SUCCEEDED if and only if all did.
VerdictIsTrue ==
  plan \in {"SUCCEEDED", "FAILED"} /\ ~byUser =>
    /\ \A s \in Steps : step[s].status \notin Live
    /\ \A s \in Steps : step[s].status = "SKIPPED" => \E d \in DependsOn[s] : step[d].status \in Lost
    /\ plan = "SUCCEEDED" <=> \A s \in Steps : step[s].status = "SUCCEEDED"

\* Whatever fails, is cancelled or is retried, the Director's loop comes to an end.
PlanEnds == <>(plan \in {"SUCCEEDED", "FAILED"})
=============================================================================
