--------------------------- MODULE AutomationRun ---------------------------
(***************************************************************************)
(* One AutomationRun: advanceAutomationRun and tickGraph, the workers whose *)
(* finished jobs call them, the cron that calls them for QUEUED and due     *)
(* WAITING runs, and cancelAutomationRun                                    *)
(* (src/lib/automation/executor/job-executor.ts, tick-graph.ts).            *)
(*                                                                         *)
(* An actor is a process that works on a job of the run or advances it.  An *)
(* advance reads the run's row once, works on its copy of the context, and  *)
(* writes it back at the end, whatever the row has become; each job it      *)
(* creates on the way is visible at once.                                   *)
(*                                                                         *)
(* Abstractions.  A task stands for the job of an action node (module       *)
(* JobKernel has its attempts, locks and retries) or the child run of a     *)
(* subautomation node; "RUNNING" is a task in some worker's hands.  The     *)
(* polls of one generation are taken together.  resumeAt is kept as "due".  *)
(* Loop and map nodes, and replays of dead letters, are left out.           *)
(***************************************************************************)
EXTENDS RunGraph

CONSTANTS
  Actors,
  Setters,    \* nodes whose handler sets variables of the run
  Faulty,     \* nodes whose dispatch may throw (an input that does not resolve)
  MayCancel,  \* may a user cancel the run?
  MaxTasks,   \* bound on the tasks created for one node
  MaxCrashes, \* bound on the processes that die
  NoTask

VARIABLES
  run,        \* AutomationRun.status
  due,        \* has the run's resumeAt passed?
  context,    \* AutomationRun.context: node states, and variables set so far
  tasks,      \* tasks[n]: statuses of the tasks created for node n
  pc,         \* where each actor is in its code
  copy,       \* copy[a]: the context as actor a read and changed it
  todo,       \* todo[a]: ready nodes it has still to dispatch
  doing,      \* doing[a]: the task in its hands, or NoTask
  cancel,     \* progress of the cancellation
  crashes     \* processes that died

vars == <<run, due, context, tasks, pc, copy, todo, doing, cancel, crashes>>

RunStatuses == {"QUEUED", "RUNNING", "WAITING", "SUCCEEDED", "FAILED", "CANCELLED"}
TerminalRun == {"SUCCEEDED", "FAILED", "CANCELLED"}  \* TERMINAL_RUN_STATUSES
TaskStatuses == {"QUEUED", "RUNNING", "SUCCEEDED", "DEAD_LETTERED", "CANCELLED"}
OpenTask == {"QUEUED", "RUNNING"}
Tasked == {n \in Nodes : TypeOf[n] \in {"action", "subautomation"}}

Contexts ==
  [nodes : [Nodes -> [status : NodeStatuses,
                      tag : {"none"} \cup Policies \cup UNION {BranchesOf[n] : n \in Nodes},
                      task : 0 .. MaxTasks]],
   vars  : SUBSET Setters]

ASSUME BoundAssumption == MaxTasks \in Nat /\ MaxCrashes \in Nat

Blank == [nodes |-> [n \in Nodes |-> Fresh], vars |-> {}]

TypeOK ==
  /\ run \in RunStatuses
  /\ due \in BOOLEAN
  /\ context \in Contexts
  /\ \A n \in Nodes : /\ Len(tasks[n]) <= MaxTasks
                      /\ \A k \in 1 .. Len(tasks[n]) : tasks[n][k] \in TaskStatuses
  /\ pc \in [Actors -> {"idle", "working", "merge", "merging", "called", "starting",
                        "poll", "dispatch", "suspend", "save"}]
  /\ copy \in [Actors -> Contexts]
  /\ \A a \in Actors : todo[a] \subseteq Nodes /\ (todo[a] = {} <=> pc[a] # "dispatch")
  /\ \A a \in Actors : doing[a] # NoTask => doing[a].k \in 1 .. Len(tasks[doing[a].node])
  /\ cancel \in {"none", "checked", "jobs", "done"}
  /\ crashes \in 0 .. MaxCrashes

Init ==
  /\ run = "QUEUED" /\ due = FALSE /\ context = Blank
  /\ tasks = [n \in Nodes |-> <<>>]
  /\ pc = [a \in Actors |-> "idle"]
  /\ copy = [a \in Actors |-> Blank]
  /\ todo = [a \in Actors |-> {}]
  /\ doing = [a \in Actors |-> NoTask]
  /\ cancel = "none" /\ crashes = 0

Goto(a, step) == pc' = [pc EXCEPT ![a] = step]

\* The advance returns or throws: its copy is gone.
Return(a) ==
  /\ Goto(a, "idle")
  /\ copy' = [copy EXCEPT ![a] = Blank]
  /\ todo' = [todo EXCEPT ![a] = {}]

----------------------------------------------------------------------------
(* The callers of advanceAutomationRun *)

\* processQueuedAutomationRuns, triggerManualAutomationRun and
\* processDueAutomationRunWaits: the run is selected, then advanced.
CronPicks(a) ==
  /\ pc[a] = "idle"
  /\ run = "QUEUED" \/ (run = "WAITING" /\ due)
  /\ Goto(a, "called")
  /\ UNCHANGED <<run, due, context, tasks, copy, todo, doing, cancel, crashes>>

TaskTaken(a, n) ==
  /\ pc[a] = "idle"
  /\ \E k \in 1 .. Len(tasks[n]) :
       /\ tasks[n][k] = "QUEUED"
       /\ tasks' = [tasks EXCEPT ![n][k] = "RUNNING"]
       /\ doing' = [doing EXCEPT ![a] = [node |-> n, k |-> k]]
  /\ Goto(a, "working")
  /\ UNCHANGED <<run, due, context, copy, todo, cancel, crashes>>

\* A slip: the worker leaves the run to the next cron call.
Mut_NoAdvanceAfterTask(a) ==
  /\ pc[a] = "working"
  /\ \E outcome \in {"SUCCEEDED", "DEAD_LETTERED"} :
       tasks' = [tasks EXCEPT ![doing[a].node][doing[a].k] = outcome]
  /\ Goto(a, "idle")
  /\ doing' = [doing EXCEPT ![a] = NoTask]
  /\ UNCHANGED <<run, due, context, copy, todo, cancel, crashes>>

\* The worker records the end of the task, whatever the row has become;
\* after a success with variables it merges them before it advances the run.
TaskEnds(a) ==
  /\ pc[a] = "working"
  /\ \E outcome \in {"SUCCEEDED", "DEAD_LETTERED"} :
       /\ tasks' = [tasks EXCEPT ![doing[a].node][doing[a].k] = outcome]
       /\ IF outcome = "SUCCEEDED" /\ doing[a].node \in Setters
            THEN Goto(a, "merge") /\ UNCHANGED doing
            ELSE Goto(a, "called") /\ doing' = [doing EXCEPT ![a] = NoTask]
  /\ UNCHANGED <<run, due, context, copy, todo, cancel, crashes>>

\* A failed attempt goes back to the queue even if the row was CANCELLED
\* meanwhile.  Other retries are within "RUNNING".
TaskRequeued(a) ==
  /\ pc[a] = "working"
  /\ tasks[doing[a].node][doing[a].k] = "CANCELLED"
  /\ tasks' = [tasks EXCEPT ![doing[a].node][doing[a].k] = "QUEUED"]
  /\ Goto(a, "idle")
  /\ doing' = [doing EXCEPT ![a] = NoTask]
  /\ UNCHANGED <<run, due, context, copy, todo, cancel, crashes>>

\* A slip: only the new variables are kept.
Mut_OverwriteVariables(a) ==
  /\ pc[a] = "merge"
  /\ copy' = [copy EXCEPT ![a] = [context EXCEPT !.vars = {doing[a].node}]]
  /\ doing' = [doing EXCEPT ![a] = NoTask]
  /\ Goto(a, "merging")
  /\ UNCHANGED <<run, due, context, tasks, todo, cancel, crashes>>

\* state.variables = { ...state.variables, ...variables }: read ...
MergeRead(a) ==
  /\ pc[a] = "merge"
  /\ copy' = [copy EXCEPT ![a] = [context EXCEPT !.vars = @ \cup {doing[a].node}]]
  /\ doing' = [doing EXCEPT ![a] = NoTask]
  /\ Goto(a, "merging")
  /\ UNCHANGED <<run, due, context, tasks, todo, cancel, crashes>>

\* ... and written back, node states included.
MergeWrite(a) ==
  /\ pc[a] = "merging"
  /\ context' = copy[a]
  /\ copy' = [copy EXCEPT ![a] = Blank]
  /\ Goto(a, "called")
  /\ UNCHANGED <<run, due, tasks, todo, doing, cancel, crashes>>

----------------------------------------------------------------------------
(* advanceAutomationRun *)

\* Every wait node found WAITING is over, whoever called.
Resumed(c) ==
  [c EXCEPT !.nodes = [n \in Nodes |-> IF TypeOf[n] = "wait" /\ c.nodes[n].status = "WAITING"
                                       THEN State("SUCCEEDED", "none", 0) ELSE c.nodes[n]]]

Read(a) ==
  /\ pc[a] = "called"
  /\ IF run \in TerminalRun
       THEN Goto(a, "idle") /\ UNCHANGED copy
       ELSE /\ Goto(a, IF run = "QUEUED" THEN "starting" ELSE "poll")
            /\ copy' = [copy EXCEPT ![a] = Resumed(context)]
  /\ UNCHANGED <<run, due, context, tasks, todo, doing, cancel, crashes>>

WriteRunning(a) ==
  /\ pc[a] = "starting"
  /\ run' = "RUNNING"
  /\ Goto(a, "poll")
  /\ UNCHANGED <<due, context, tasks, copy, todo, doing, cancel, crashes>>

\* A slip: a task that is over counts as a success.
Mut_AnyEndIsSuccess(n, s) ==
  IF s.status # "RUNNING" \/ tasks[n][s.task] \in OpenTask THEN s
  ELSE State("SUCCEEDED", "none", 0)

\* The state of a node after its poll.
Polled(n, s) ==
  IF s.status # "RUNNING" \/ tasks[n][s.task] \in OpenTask THEN s
  ELSE IF tasks[n][s.task] = "SUCCEEDED" THEN State("SUCCEEDED", "none", 0)
  ELSE FailureResult(n)

\* One generation of tickGraph up to its dispatches: poll what runs, mark
\* what cannot be reached, list what is ready.  Nothing new: the tick ends.
Generation(a) ==
  LET before == copy[a].nodes
      polled == [n \in Nodes |-> Polled(n, before[n])]
      after  == MarkSkipped(polled)
      ready  == ReadyNodes(polled)
  IN  /\ pc[a] = "poll"
      /\ copy' = [copy EXCEPT ![a].nodes = after]
      /\ todo' = [todo EXCEPT ![a] = ready]
      /\ Goto(a, IF ready # {} THEN "dispatch"
                 ELSE IF after # before THEN "poll" ELSE "save")
      /\ UNCHANGED <<run, due, context, tasks, doing, cancel, crashes>>

\* A dispatched node gets state s; the last one ends the generation.
Dispatched(a, n, s) ==
  /\ copy' = [copy EXCEPT ![a].nodes[n] = s]
  /\ todo' = [todo EXCEPT ![a] = @ \ {n}]
  /\ Goto(a, IF todo[a] = {n} THEN "poll" ELSE "dispatch")

\* trigger, end, join, condition and switch: settled in memory.
DispatchInline(a, n) ==
  /\ TypeOf[n] \in {"trigger", "end", "join", "condition"}
  /\ CASE TypeOf[n] = "join" -> Dispatched(a, n, JoinResult(n, copy[a].nodes))
       [] TypeOf[n] = "condition" -> \E b \in BranchesOf[n] : Dispatched(a, n, State("SUCCEEDED", b, 0))
       [] OTHER -> Dispatched(a, n, State("SUCCEEDED", "none", 0))
  /\ UNCHANGED tasks

\* A slip: the node is not marked as under way.
Mut_StaysPending(a, n) ==
  /\ n \in Tasked
  /\ Len(tasks[n]) < MaxTasks
  /\ tasks' = [tasks EXCEPT ![n] = Append(@, "QUEUED")]
  /\ Dispatched(a, n, Fresh)

\* dispatchActionNode, dispatchSubautomationNode: the task is created now.
DispatchTask(a, n) ==
  /\ n \in Tasked
  /\ Len(tasks[n]) < MaxTasks
  /\ tasks' = [tasks EXCEPT ![n] = Append(@, "QUEUED")]
  /\ Dispatched(a, n, State("RUNNING", "none", Len(tasks[n]) + 1))

\* A wait ends the tick: the other ready nodes are left for another advance.
DispatchWait(a, n) ==
  /\ TypeOf[n] = "wait"
  /\ copy' = [copy EXCEPT ![a].nodes[n] = State("WAITING", "none", 0)]
  /\ todo' = [todo EXCEPT ![a] = {}]
  /\ Goto(a, "suspend")
  /\ UNCHANGED tasks

\* The exception leaves advanceAutomationRun before anything is saved.
DispatchThrows(a, n) == n \in Faulty /\ Return(a) /\ UNCHANGED tasks

Dispatch(a) ==
  /\ pc[a] = "dispatch"
  /\ \E n \in Foremost(todo[a]) :
       DispatchInline(a, n) \/ DispatchTask(a, n) \/ DispatchWait(a, n) \/ DispatchThrows(a, n)
  /\ UNCHANGED <<run, due, context, doing, cancel, crashes>>

Suspend(a) ==
  /\ pc[a] = "suspend"
  /\ run' = "WAITING" /\ due' = FALSE
  /\ context' = copy[a]
  /\ Return(a)
  /\ UNCHANGED <<tasks, doing, cancel, crashes>>

\* The status the run is left with: FAILED on a failure nothing handles,
\* SUCCEEDED when all is settled, as it is otherwise.
Outcome(st) ==
  IF Halting(st) # {} THEN "FAILED" ELSE IF AllSettled(st) THEN "SUCCEEDED" ELSE run

Save(a) ==
  /\ pc[a] = "save"
  /\ run' = Outcome(copy[a].nodes)
  /\ context' = copy[a]
  /\ Return(a)
  /\ UNCHANGED <<due, tasks, doing, cancel, crashes>>

----------------------------------------------------------------------------
(* cancelAutomationRun, time, and processes that die *)

CancelCheck ==
  /\ MayCancel /\ cancel = "none"
  /\ run \in {"QUEUED", "RUNNING", "WAITING"}
  /\ cancel' = "checked"
  /\ UNCHANGED <<run, due, context, tasks, pc, copy, todo, doing, crashes>>

\* Jobs only: child runs are left alone.
CancelTasks ==
  /\ cancel = "checked"
  /\ tasks' = [n \in Nodes |-> [k \in 1 .. Len(tasks[n]) |->
                 IF TypeOf[n] = "action" /\ tasks[n][k] \in OpenTask THEN "CANCELLED" ELSE tasks[n][k]]]
  /\ cancel' = "jobs"
  /\ UNCHANGED <<run, due, context, pc, copy, todo, doing, crashes>>

CancelWrite ==
  /\ cancel = "jobs"
  /\ run' = "CANCELLED"
  /\ cancel' = "done"
  /\ UNCHANGED <<due, context, tasks, pc, copy, todo, doing, crashes>>

ResumeAtPasses ==
  /\ run = "WAITING" /\ ~due
  /\ due' = TRUE
  /\ UNCHANGED <<run, context, tasks, pc, copy, todo, doing, cancel, crashes>>

Crash(a) ==
  /\ pc[a] # "idle" /\ crashes < MaxCrashes
  /\ crashes' = crashes + 1
  /\ doing' = [doing EXCEPT ![a] = NoTask]
  /\ Return(a)
  /\ UNCHANGED <<run, due, context, tasks, cancel>>

\* What an actor does once it works on the run.
Proceed(a) ==
  \/ TaskEnds(a) \/ TaskRequeued(a) \/ MergeRead(a) \/ MergeWrite(a)
  \/ Read(a) \/ WriteRunning(a) \/ Generation(a) \/ Dispatch(a) \/ Suspend(a) \/ Save(a)

Next ==
  \/ \E a \in Actors : CronPicks(a) \/ Proceed(a) \/ Crash(a)
  \/ \E a \in Actors, n \in Tasked : TaskTaken(a, n)
  \/ CancelCheck \/ CancelTasks \/ CancelWrite
  \/ ResumeAtPasses
  \/ (\A a \in Actors : pc[a] = "idle") /\ UNCHANGED vars   \* the cron finds nothing

Spec == Init /\ [][Next]_vars

\* A process runs its code to the end; time passes; every call of the cron
\* route first picks runs up and then works on queued jobs, so neither
\* starves the other.
Fairness ==
  /\ WF_vars(ResumeAtPasses)
  /\ \A a \in Actors : WF_vars(Proceed(a)) /\ SF_vars(CronPicks(a))
  /\ \A a \in Actors, n \in Tasked : SF_vars(TaskTaken(a, n))
FairSpec == Spec /\ Fairness

----------------------------------------------------------------------------
(* Properties *)

\* The nodes that a run must have dealt with before it may reach n: those with
\* a path to n whose edges never enter a join that any one branch opens.
Gated ==
  [m \in Nodes |-> {e.target : e \in {e \in Edges : e.source = m}}
                     \ {n \in Nodes : TypeOf[n] = "join" /\ ModeOf[n] = "any"}]
Needs ==
  [n \in Nodes |-> {m \in Nodes : \A S \in SUBSET Nodes :
     (Gated[m] \subseteq S /\ \A x \in S : Gated[x] \subseteq S) => n \in S}]

\* However advances of one run overlap, whichever copy of the context each of
\* them works on and writes back, and until a cancellation touches its jobs:
\* no advance has gone on to a node before a task of each node it has to
\* follow is over, or that node was found out of reach (isNodeReady,
\* computeReadyNodes, pollActionNode).
Views == {context.nodes} \cup {copy[a].nodes : a \in Actors}
AfterItsNeeds ==
  cancel \in {"none", "checked"} =>
    \A st \in Views, n \in Nodes : \A m \in Tasked \cap Needs[n] :
      st[n].status # "PENDING" =>
        \/ st[m] = State("SKIPPED", "none", 0)
        \/ \E k \in 1 .. Len(tasks[m]) : tasks[m][k] \notin OpenTask

\* A node stands as SUCCEEDED in the run's context only if a task of it did
\* succeed, whatever stale copies were written (pollActionNode).
SuccessHasEvidence ==
  \A n \in Tasked : context.nodes[n].status = "SUCCEEDED"
    => \E k \in 1 .. Len(tasks[n]) : tasks[n][k] = "SUCCEEDED"

\* advanceAutomationRun is idempotent: no node gets a second task.
OneTaskPerNode == \A n \in Nodes : Len(tasks[n]) <= 1

\* A run that SUCCEEDED left no task behind, and kept the variables of every
\* handler that succeeded (executeOneJob merges them before it advances).
SuccessIsComplete ==
  run = "SUCCEEDED" =>
    \A n \in Nodes : \A k \in 1 .. Len(tasks[n]) :
      /\ tasks[n][k] \notin OpenTask
      /\ (n \in Setters /\ tasks[n][k] = "SUCCEEDED") => n \in context.vars

\* Every run reaches the end: somebody always advances it once more.
RunEnds == <>(run \in TerminalRun)

(* Stated by the tests and comments of the code, and not kept by it (README) *)

\* A terminal run stays what it is: every caller of advanceAutomationRun finds
\* it in TERMINAL_RUN_STATUSES and returns.
TerminalIsFinal == [][(run \in TerminalRun) => run' = run]_vars

\* A wait node ends once its delay has passed, not before.
WaitLasts ==
  [][\A n \in Nodes : (context.nodes[n].status = "WAITING"
                        /\ context'.nodes[n].status = "SUCCEEDED") => due]_vars

\* A join that requires all its edges is SUCCEEDED only if all are satisfied.
JoinAllMeansAll ==
  \A n \in Nodes :
    TypeOf[n] = "join" /\ ModeOf[n] = "all" /\ context.nodes[n].status = "SUCCEEDED"
      => Along(n, context.nodes) = Into(n)
=============================================================================
