---------------------------- MODULE WorkflowRun ----------------------------
(***************************************************************************)
(* One WorkflowRun: executeWorkflowRun, the cron and the direct callers     *)
(* that start it, runWorkflowToCompletion and cancelWorkflowRun             *)
(* (src/lib/workflows/execution-engine.ts), over a graph that passed        *)
(* validateWorkflowGraph (graph-validation.ts).                             *)
(*                                                                         *)
(* An executor works on stepStates, a copy of the rows of WorkflowRunStep,  *)
(* and writes each change of it to the row at once.  A step is its status,  *)
(* its attempt and a tag: the branch its output names, or the error policy  *)
(* its error names.                                                         *)
(*                                                                         *)
(* Abstractions.  What a handler answers is chosen when its answer is       *)
(* settled.  The rows one scan of the graph skips are written together.     *)
(* A loop runs its body in memory and fails as a whole; notify and          *)
(* escalate_director halt the run as stop does, and tell somebody.          *)
(* scheduledAt and resumeAt are kept as "due".  Graphs need fewer than the  *)
(* 200 ticks of a call and retries fewer than the 25 calls of a driver.     *)
(***************************************************************************)
EXTENDS Naturals, FiniteSets, Sequences

CONSTANTS
  Executors,
  NodeList,     \* top-level nodes, in the order of graph.nodes
  Bodies,       \* subordinateIds: the nodes of the loops' bodies
  Edges,        \* [source, target, branch], branch "none" when unlabelled
  TypeOf,
  PolicyOf,     \* onError, "stop" for what is not an action
  RetriesOf,    \* maxAttempts of a retry policy
  Compensable,  \* actions with a compensateActionKey
  MayCancel,    \* may a user cancel the run?
  MaxCrashes    \* bound on the executors that die or meet a database error

Nodes == {NodeList[i] : i \in 1 .. Len(NodeList)}
NodeTypes == {"trigger", "condition", "action", "loop", "wait", "subworkflow", "end"}
Policies == {"stop", "retry", "ignore", "alternative_branch"}

\* Edges that come out of a body do not count, in the scan as in the check for
\* cycles; those that go into one do, for whether an error edge leaves n.
Into(n) == {e \in Edges : e.target = n /\ e.source \notin Bodies}
From(n) == {e \in Edges : e.source = n}

\* validateWorkflowGraph: what an edited graph must satisfy to be saved.
ValidGraph ==
  /\ Cardinality(Nodes) = Len(NodeList) /\ Nodes \cap Bodies = {}
  /\ \E n \in Nodes \cup Bodies : TypeOf[n] = "trigger"
  /\ \E n \in Nodes \cup Bodies : TypeOf[n] = "end"
  /\ \A e \in Edges : {e.source, e.target} \subseteq Nodes \cup Bodies /\ e.source # e.target
  /\ \A n \in Nodes \cup Bodies : TypeOf[n] = "condition" => \E e \in From(n) : e.branch \in {"true", "false"}
  /\ \A S \in SUBSET Nodes \ {{}} : \E n \in S : \A e \in Into(n) : e.source \notin S  \* no cycle

ASSUME GraphAssumption ==
  /\ TypeOf \in [Nodes \cup Bodies -> NodeTypes]
  /\ PolicyOf \in [Nodes -> Policies]
  /\ RetriesOf \in [Nodes -> Nat]
  /\ Compensable \subseteq {n \in Nodes : TypeOf[n] = "action"}
  /\ MaxCrashes \in Nat
  /\ ValidGraph

VARIABLES
  run,       \* WorkflowRun.status
  due,       \* has scheduledAt or resumeAt passed?
  steps,     \* steps[n]: the row of node n
  pc,        \* where each executor is in its code
  mem,       \* mem[a].st: its stepStates; .batch: nodes to settle; .undo: nodes to compensate
  flags,     \* flags[a]: which of halted, suspended, retryRequested are set
  drive,     \* drive[a]: is it called by runWorkflowToCompletion?
  cancel,    \* progress of the cancellation
  kept,      \* steps whose compensation failed
  crashes

vars == <<run, due, steps, pc, mem, flags, drive, cancel, kept, crashes>>

RunStatuses == {"QUEUED", "RUNNING", "WAITING", "SUCCEEDED", "FAILED", "CANCELLED"}
TerminalRun == {"SUCCEEDED", "FAILED", "CANCELLED"}     \* TERMINAL_RUN_STATUSES
TerminalStep == {"SUCCEEDED", "FAILED", "SKIPPED", "CANCELLED", "COMPENSATED"}
StepStatuses == TerminalStep \cup {"ABSENT", "PENDING", "RUNNING", "WAITING"}

Step(status, tag, attempt) == [status |-> status, tag |-> tag, attempt |-> attempt]

Budget(n) == IF PolicyOf[n] = "retry" THEN RetriesOf[n] ELSE 0

Blank == [st |-> [n \in Nodes |-> Step("ABSENT", "none", 0)], batch |-> {}, undo |-> {}]

Init ==
  /\ run = "QUEUED" /\ due = TRUE
  /\ steps = Blank.st
  /\ pc = [a \in Executors |-> "idle"]
  /\ mem = [a \in Executors |-> Blank]
  /\ flags = [a \in Executors |-> {}]
  /\ drive = [a \in Executors |-> FALSE]
  /\ cancel = "none"
  /\ kept = {} /\ crashes = 0

Goto(a, step) == pc' = [pc EXCEPT ![a] = step]

\* Writes of executor a: to its copy and to the row.
Record(a, n, s) ==
  /\ mem' = [mem EXCEPT ![a].st[n] = s, ![a].batch = @ \ {n}]
  /\ steps' = [steps EXCEPT ![n] = s]

----------------------------------------------------------------------------
(* The callers of executeWorkflowRun *)

\* A slip: runs that wait are not selected.
Mut_PicksQueuedOnly(a) ==
  /\ pc[a] = "idle"
  /\ run = "QUEUED" /\ due
  /\ Goto(a, "called") /\ UNCHANGED drive
  /\ UNCHANGED <<run, due, steps, mem, flags, cancel, kept, crashes>>

\* The cron selects the run (processQueuedWorkflowRuns, processDueWorkflowWaits),
\* or its creator executes it at once, and may then drive it to its end.
Pick(a) ==
  /\ pc[a] = "idle"
  /\ run \in {"QUEUED", "WAITING"} /\ due
  /\ Goto(a, "called")
  /\ \E driver \in BOOLEAN :
       /\ driver => steps = Blank.st
       /\ drive' = [drive EXCEPT ![a] = driver]
  /\ UNCHANGED <<run, due, steps, mem, flags, cancel, kept, crashes>>

\* executeWorkflowRun has returned.  runWorkflowToCompletion calls it again,
\* without regard to scheduledAt, unless the run is terminal or waits.
Returned(a) ==
  /\ pc[a] = "returned"
  /\ LET again == drive[a] /\ run \notin TerminalRun /\ run # "WAITING"
     IN  /\ Goto(a, IF again THEN "called" ELSE "idle")
         /\ drive' = [drive EXCEPT ![a] = again]
  /\ UNCHANGED <<run, due, steps, mem, flags, cancel, kept, crashes>>

----------------------------------------------------------------------------
(* executeWorkflowRun *)

\* The status of the row read is not looked at: RUNNING replaces any other.
Begin(a) ==
  /\ pc[a] = "called"
  /\ run' = "RUNNING"
  /\ Goto(a, "load")
  /\ UNCHANGED <<due, steps, mem, flags, drive, cancel, kept, crashes>>

\* A slip: a resumed run starts from fresh steps.
Mut_LoadFresh(a) ==
  /\ pc[a] = "load"
  /\ steps' = [n \in Nodes |-> Step("PENDING", "none", 0)]
  /\ mem' = [mem EXCEPT ![a].st = steps']
  /\ Goto(a, "scan")
  /\ UNCHANGED <<run, due, flags, drive, cancel, kept, crashes>>

\* Missing rows are created; then all are read.
Load(a) ==
  /\ pc[a] = "load"
  /\ steps' = [n \in Nodes |-> IF steps[n].status = "ABSENT"
                               THEN Step("PENDING", "none", 0) ELSE steps[n]]
  /\ mem' = [mem EXCEPT ![a].st = steps']
  /\ Goto(a, "resume")
  /\ UNCHANGED <<run, due, flags, drive, cancel, kept, crashes>>

\* Every wait that was suspended is over, whoever calls.
Resume(a) ==
  /\ pc[a] = "resume"
  /\ LET over == {n \in Nodes : TypeOf[n] = "wait" /\ mem[a].st[n].status = "WAITING"}
         After(st) == [n \in Nodes |-> IF n \in over THEN [st[n] EXCEPT !.status = "SUCCEEDED"] ELSE st[n]]
     IN  /\ steps' = After(steps)
         /\ mem' = [mem EXCEPT ![a].st = After(@)]
  /\ Goto(a, "scan")
  /\ UNCHANGED <<run, due, flags, drive, cancel, kept, crashes>>

\* May the run go on along e, given its source's state?
EdgeIsSatisfied(e, s) ==
  \/ s.status = "SUCCEEDED" /\ e.branch \in {"none", s.tag}
  \/ s.status = "SKIPPED" /\ s.tag = "ignore" /\ e.branch = "none"
  \/ s.status = "FAILED" /\ s.tag = "alternative_branch" /\ e.branch = "error"

Over(s) == s.status \in TerminalStep
Reached(n, st) == Into(n) = {} \/ \E e \in Into(n) : EdgeIsSatisfied(e, st[e.source])

Earlier(m, n) == \E k \in 1 .. Len(NodeList) : NodeList[k] = n /\ \E i \in 1 .. k - 1 : NodeList[i] = m
First(S) == {n \in S : \A m \in S : ~Earlier(m, n)}
Last(S) == {n \in S : \A m \in S : ~Earlier(n, m)}

Pending(st) == {n \in Nodes : st[n].status = "PENDING"}

\* The scan skips a node when all its edges are decided and none can be taken.
Skips(n, st, skipped) ==
  /\ Into(n) # {}
  /\ \A e \in Into(n) :
       \/ e.source \in skipped /\ Earlier(e.source, n)
       \/ Over(st[e.source]) /\ ~EdgeIsSatisfied(e, st[e.source])

\* A skip it has just made decides the edges of the nodes after it.
OutOfReach(st) ==
  CHOOSE S \in SUBSET Pending(st) : \A n \in Pending(st) : n \in S <=> Skips(n, st, S)

\* A slip: one satisfied edge is enough.
Mut_ReadyOnFirst(n, st, skipped) == Reached(n, st)

Ready(n, st, skipped) ==
  /\ Reached(n, st)
  /\ \A e \in Into(n) : Over(st[e.source]) \/ (e.source \in skipped /\ Earlier(e.source, n))

Scan(a) ==
  /\ pc[a] = "scan"
  /\ LET st      == mem[a].st
         skipped == OutOfReach(st)
         ready   == {n \in Pending(st) : Ready(n, st, skipped)}
         After(s) == [n \in Nodes |-> IF n \in skipped THEN Step("SKIPPED", "none", st[n].attempt) ELSE s[n]]
     IN  /\ mem' = [mem EXCEPT ![a].st = After(st), ![a].batch = ready]
         /\ steps' = After(steps)
         /\ Goto(a, IF ready = {} THEN "finish" ELSE "launch")
  /\ UNCHANGED <<run, due, flags, drive, cancel, kept, crashes>>

\* The handlers of the whole batch are started together.
Launch(a) ==
  /\ pc[a] = "launch"
  /\ steps' = [n \in Nodes |-> IF n \in mem[a].batch THEN [steps[n] EXCEPT !.status = "RUNNING"] ELSE steps[n]]
  /\ Goto(a, "settle")
  /\ UNCHANGED <<run, due, mem, flags, drive, cancel, kept, crashes>>

AfterSettle(a, n, raised) ==
  /\ flags' = [flags EXCEPT ![a] = @ \cup raised]
  /\ Goto(a, IF mem[a].batch # {n} THEN "settle"
             ELSE IF flags'[a] # {} THEN "finish" ELSE "scan")

SettleWait(a, n) ==
  /\ TypeOf[n] = "wait"
  /\ mem' = [mem EXCEPT ![a].st[n] = Step("WAITING", "none", 0), ![a].batch = @ \ {n}]
  /\ steps' = [steps EXCEPT ![n].status = "WAITING"]
  /\ AfterSettle(a, n, {"suspended"})

\* output.branch, when an edge asks for it.  An action, a subworkflow or the data
\* of the trigger may hold one as well as a condition.
BranchesOf(n) ==
  CASE TypeOf[n] = "condition" -> {"true", "false"}
    [] TypeOf[n] \in {"trigger", "action", "subworkflow"} -> {"none"} \cup {e.branch : e \in From(n)}
    [] OTHER -> {"none"}

SettleSuccess(a, n) ==
  /\ TypeOf[n] # "wait"
  /\ \E branch \in BranchesOf(n) :
       Record(a, n, Step("SUCCEEDED", branch, mem[a].st[n].attempt))
  /\ AfterSettle(a, n, {})

\* executeGraphNode throws or times out: a rule, an action, a loop or a
\* subworkflow may; triggers and ends do not.
MayFail(n) == TypeOf[n] \in {"condition", "action", "loop", "subworkflow"}

\* A slip: the attempts are not compared with their maximum.
Mut_RetryForEver(a, n) ==
  /\ PolicyOf[n] = "retry"
  /\ Record(a, n, Step("PENDING", "none", mem[a].st[n].attempt + 1))
  /\ AfterSettle(a, n, {"retry"})

SettleRetry(a, n) ==
  /\ MayFail(n)
  /\ PolicyOf[n] = "retry" /\ mem[a].st[n].attempt < RetriesOf[n]
  /\ Record(a, n, Step("PENDING", "none", mem[a].st[n].attempt + 1))
  /\ AfterSettle(a, n, {"retry"})

SettleIgnored(a, n) ==
  /\ MayFail(n) /\ PolicyOf[n] = "ignore"
  /\ Record(a, n, Step("SKIPPED", "ignore", mem[a].st[n].attempt))
  /\ AfterSettle(a, n, {})

\* A slip: whatever the policy, the run goes on.
Mut_FailureGoesOn(a, n) ==
  /\ MayFail(n)
  /\ PolicyOf[n] # "ignore"
  /\ Record(a, n, Step("FAILED", PolicyOf[n], mem[a].st[n].attempt))
  /\ AfterSettle(a, n, {})

\* FAILED: the run goes on along an error edge, or it halts.
SettleFailed(a, n) ==
  /\ MayFail(n)
  /\ PolicyOf[n] # "ignore"
  /\ ~(PolicyOf[n] = "retry" /\ mem[a].st[n].attempt < RetriesOf[n])
  /\ Record(a, n, Step("FAILED", PolicyOf[n], mem[a].st[n].attempt))
  /\ AfterSettle(a, n, IF PolicyOf[n] = "alternative_branch" /\ \E e \in From(n) : e.branch = "error"
                       THEN {} ELSE {"halted"})

Settle(a) ==
  /\ pc[a] = "settle"
  /\ \E n \in First(mem[a].batch) :
       \/ SettleWait(a, n) \/ SettleSuccess(a, n) \/ SettleRetry(a, n)
       \/ SettleIgnored(a, n) \/ SettleFailed(a, n)
  /\ UNCHANGED <<run, due, drive, cancel, kept, crashes>>

\* A slip: what succeeded after a retry is not compensated.
Mut_FirstAttemptsOnly(st) ==
  {n \in Compensable : st[n].status = "SUCCEEDED" /\ st[n].attempt = 0}

\* runCompensations: what is to undo.
ToUndo(st) == {n \in Compensable : st[n].status = "SUCCEEDED"}

\* The status the run is left with.
Outcome(a) ==
  IF "halted" \in flags[a] THEN "FAILED"
  ELSE IF "retry" \in flags[a] THEN "QUEUED"
  ELSE IF "suspended" \in flags[a] THEN "WAITING"
  ELSE IF \E n \in Nodes : mem[a].st[n].status = "PENDING" THEN "FAILED" ELSE "SUCCEEDED"

Finish(a) ==
  /\ pc[a] = "finish"
  /\ run' = Outcome(a)
  /\ due' = IF run' \in {"QUEUED", "WAITING"} THEN FALSE ELSE due
  /\ LET undo == IF "halted" \in flags[a] THEN ToUndo(mem[a].st) ELSE {}
     IN  IF undo = {}
           THEN Goto(a, "returned") /\ mem' = [mem EXCEPT ![a] = Blank]
           ELSE Goto(a, "undo") /\ mem' = [mem EXCEPT ![a].undo = undo]
  /\ flags' = [flags EXCEPT ![a] = {}]
  /\ UNCHANGED <<steps, drive, cancel, kept, crashes>>

\* One compensation, the last node first: a failure is logged and the next
\* one is tried.
Undo(a) ==
  /\ pc[a] = "undo"
  /\ \E n \in Last(mem[a].undo) :
       /\ \/ steps' = [steps EXCEPT ![n].status = "COMPENSATED"] /\ kept' = kept
          \/ kept' = kept \cup {n} /\ steps' = steps
       /\ IF mem[a].undo = {n}
            THEN Goto(a, "returned") /\ mem' = [mem EXCEPT ![a] = Blank]
            ELSE pc' = pc /\ mem' = [mem EXCEPT ![a].undo = @ \ {n}]
  /\ UNCHANGED <<run, due, flags, drive, cancel, crashes>>

----------------------------------------------------------------------------
(* cancelWorkflowRun, time, and executors that die *)

CancelCheck ==
  /\ MayCancel /\ cancel = "none"
  /\ run \in {"QUEUED", "RUNNING", "WAITING"}
  /\ cancel' = "checked"
  /\ UNCHANGED <<run, due, steps, pc, mem, flags, drive, kept, crashes>>

CancelSteps ==
  /\ cancel = "checked"
  /\ steps' = [n \in Nodes |-> IF steps[n].status \in {"PENDING", "RUNNING", "WAITING"}
                               THEN [steps[n] EXCEPT !.status = "CANCELLED"] ELSE steps[n]]
  /\ cancel' = "steps"
  /\ UNCHANGED <<run, due, pc, mem, flags, drive, kept, crashes>>

CancelWrite ==
  /\ cancel = "steps"
  /\ run' = "CANCELLED"
  /\ cancel' = "done"
  /\ UNCHANGED <<due, steps, pc, mem, flags, drive, kept, crashes>>

DueComes ==
  /\ ~due /\ run \in {"QUEUED", "WAITING"}
  /\ due' = TRUE
  /\ UNCHANGED <<run, steps, pc, mem, flags, drive, cancel, kept, crashes>>

\* The process dies, or a database call throws out of executeWorkflowRun.
Crash(a) ==
  /\ pc[a] # "idle" /\ crashes < MaxCrashes
  /\ crashes' = crashes + 1
  /\ Goto(a, "idle")
  /\ mem' = [mem EXCEPT ![a] = Blank]
  /\ flags' = [flags EXCEPT ![a] = {}]
  /\ drive' = [drive EXCEPT ![a] = FALSE]
  /\ UNCHANGED <<run, due, steps, cancel, kept>>

Execute(a) ==
  \/ Begin(a) \/ Load(a) \/ Resume(a) \/ Scan(a) \/ Launch(a) \/ Settle(a)
  \/ Finish(a) \/ Undo(a) \/ Returned(a)

Next ==
  \/ \E a \in Executors : Pick(a) \/ Execute(a) \/ Crash(a)
  \/ CancelCheck \/ CancelSteps \/ CancelWrite \/ DueComes

Spec == Init /\ [][Next]_vars

\* The platform calls the cron route every minute, time passes, and a call
\* that has begun goes on: every handler returns or times out.
FairSpec ==
  /\ Spec
  /\ WF_vars(DueComes) /\ WF_vars(CancelSteps) /\ WF_vars(CancelWrite)
  /\ \A a \in Executors : WF_vars(Pick(a)) /\ WF_vars(Execute(a))

----------------------------------------------------------------------------
(* Properties *)

TypeOK ==
  /\ run \in RunStatuses
  /\ due \in BOOLEAN
  /\ \A n \in Nodes : /\ steps[n].status \in StepStatuses
                      /\ steps[n].tag \in {"none", "true", "false"} \cup Policies \cup {e.branch : e \in Edges}
                      /\ steps[n].attempt \in 0 .. Budget(n)
  /\ pc \in [Executors -> {"idle", "called", "load", "resume", "scan", "launch", "settle",
                           "finish", "undo", "returned"}]
  /\ \A a \in Executors : /\ mem[a].batch # {} <=> pc[a] \in {"launch", "settle"}
                          /\ mem[a].undo # {} <=> pc[a] = "undo"
                          /\ mem[a].batch \subseteq Nodes
  /\ flags \in [Executors -> SUBSET {"halted", "suspended", "retry"}]
  /\ drive \in [Executors -> BOOLEAN]
  /\ cancel \in {"none", "checked", "steps", "done"}
  /\ kept \subseteq Compensable
  /\ crashes \in 0 .. MaxCrashes

Undisturbed == cancel = "none" /\ crashes = 0

\* One executor at a time never replays a step (the comment of
\* executeWorkflowRun): what is SUCCEEDED or SKIPPED stays so whatever is
\* resumed, retried, cancelled or crashes, unless it is compensated.
NeverReplayed ==
  [][\A n \in Nodes : steps[n].status \in {"SUCCEEDED", "SKIPPED"} =>
       \/ steps'[n] = steps[n]
       \/ steps[n].status = "SUCCEEDED" /\ steps'[n] = [steps[n] EXCEPT !.status = "COMPENSATED"]]_vars

\* A handler starts only once every node that leads to it is over, whatever
\* was retried, resumed or cancelled in between.
StartsAfterSources ==
  [][\A n \in Nodes : steps'[n].status = "RUNNING" /\ steps[n].status # "RUNNING" =>
       \A e \in Into(n) : Over(steps[e.source])]_vars

\* The failed steps that no error edge leads on from.
Halting(st) ==
  {n \in Nodes : st[n].status = "FAILED" /\ ~\E e \in From(n) : EdgeIsSatisfied(e, st[n])}

\* A run that nothing disturbed and that SUCCEEDED has followed its graph to
\* the end: every node is over, the skipped ones are exactly those no edge
\* led to, and every failure left by an error edge.
SuccessFollowsGraph ==
  run = "SUCCEEDED" /\ Undisturbed =>
    \A n \in Nodes :
      /\ steps[n].status \in {"SUCCEEDED", "SKIPPED", "FAILED"}
      /\ Reached(n, steps) <=> steps[n].status # "SKIPPED" \/ steps[n].tag = "ignore"
      /\ n \notin Halting(steps)

\* A run that a step left FAILED has undone every action it can undo, unless
\* the compensation itself failed; no other run undoes anything.
FailureIsUndone ==
  /\ run = "FAILED" /\ Halting(steps) # {} /\ crashes = 0 /\ (\A a \in Executors : pc[a] = "idle") =>
       \A n \in Compensable : steps[n].status = "SUCCEEDED" => n \in kept
  /\ (\E n \in Nodes : steps[n].status = "COMPENSATED") => run = "FAILED" \/ cancel # "none"

\* With the cron called again and again, every run ends, unless a process dies in it.
RunEnds == <>[](run \in TerminalRun \/ crashes > 0)
=============================================================================
