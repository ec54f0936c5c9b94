--------------------------- MODULE IterationNode ---------------------------
(***************************************************************************)
(* A loop or map node of an AutomationRun: dispatchLoopNode, pollLoopNode,  *)
(* dispatchMapNode, pollMapNode (src/lib/automation/executor/               *)
(* job-executor.ts), with tickGraph on the body of one item, the save of    *)
(* the run that contains the node, and the jobs of the body's actions.      *)
(*                                                                         *)
(* RunGraph's constants describe the body.  The graph around the node is a  *)
(* trigger before it and an end after it, which settle in the same call.    *)
(* A loop keeps an index and a map a list of items under way; both start    *)
(* items from the first on, so "started" counts them, and a loop is a map   *)
(* with room for one item that sees its end one generation later.  As in    *)
(* AutomationRun, an advance works on its copy of the context and writes it *)
(* back whatever the row has become; cancellation and the merge of          *)
(* variables are left to that module.                                       *)
(***************************************************************************)
EXTENDS RunGraph

CONSTANTS
  Kinds,          \* which nodes to look at: "loop", "map"
  NumItems,       \* items of the collection, after the cut to maxItems
  Limit,          \* concurrencyLimit of the map
  MaxGenerations, \* MAX_TICK_GENERATIONS_PER_CALL
  Actors,
  MaxTasks,       \* bound on the jobs created for one body node of one item
  MaxUpsets       \* bound on the advances begun while another is under way, plus
                  \* the advances and workers that die

ASSUME IterationAssumption ==
  /\ Kinds \subseteq {"loop", "map"} /\ Kinds # {}
  /\ NumItems \in Nat /\ Limit \in Nat \ {0} /\ MaxTasks \in Nat /\ MaxUpsets \in Nat
  /\ MaxGenerations \in Nat \ {0, 1}   \* the node is dispatched in the second
  /\ \A n \in Nodes : TypeOf[n] \in {"condition", "action", "end"}   \* dispatchBodyNode

VARIABLES
  kind,      \* the type of the node
  picks,     \* picks[i][n]: the branch that condition n takes for item i
  run,       \* AutomationRun.status
  context,   \* the node's state, its items and their bodies, as saved
  tasks,     \* tasks[i][n]: statuses of the jobs created for node n of item i
  pc,        \* where each actor is in its code
  copy,      \* copy[a]: the context as actor a read and changed it
  call,      \* call[a]: items left to poll, nodes left to dispatch, generation,
             \* has this generation progressed?
  doing,     \* doing[a]: {the job in its hands}
  overlaps, lost

vars == <<kind, picks, run, context, tasks, pc, copy, call, doing, overlaps, lost>>

Items == 1 .. NumItems
Actions == {n \in Nodes : TypeOf[n] = "action"}
Conditions == {n \in Nodes : TypeOf[n] = "condition"}
\* evaluateRule on an item gives the same answer each time.
Choices == {f \in [Conditions -> UNION {BranchesOf[n] : n \in Conditions}] :
              \A n \in Conditions : f[n] \in BranchesOf[n]}
OpenTask == {"QUEUED", "RUNNING"}
TerminalRun == {"SUCCEEDED", "FAILED"}

FreshBody == [n \in Nodes |-> Fresh]
Blank == [node |-> "PENDING", started |-> 0, done |-> {}, subs |-> [i \in Items |-> FreshBody]]
NoCall == [items |-> {}, ready |-> {}, gen |-> 0, moved |-> FALSE]

IsContext(c) ==
  /\ c.node \in {"PENDING", "RUNNING", "SUCCEEDED", "FAILED"}
  /\ c.started \in 0 .. NumItems
  /\ c.done \subseteq 1 .. c.started
  /\ \A i \in Items, n \in Nodes : c.subs[i][n].status \in NodeStatuses \ {"WAITING"}
  /\ \A i \in Items : i > c.started => c.subs[i] = FreshBody

TypeOK ==
  /\ kind \in Kinds /\ picks \in [Items -> Choices]
  /\ run \in {"QUEUED", "RUNNING"} \cup TerminalRun
  /\ IsContext(context) /\ \A a \in Actors : IsContext(copy[a])
  /\ \A i \in Items, n \in Nodes :
       /\ Len(tasks[i][n]) <= IF n \in Actions THEN MaxTasks ELSE 0
       /\ \A k \in DOMAIN tasks[i][n] : tasks[i][n][k] \in OpenTask \cup {"SUCCEEDED", "DEAD_LETTERED"}
  /\ pc \in [Actors -> {"idle", "working", "called", "starting", "poll", "tick", "dispatch", "save"}]
  /\ \A a \in Actors : /\ call[a].gen \in 0 .. MaxGenerations
                       /\ call[a].items \subseteq Items /\ call[a].ready \subseteq Nodes
                       /\ pc[a] \in {"tick", "dispatch"} <=> call[a].items # {}
                       /\ pc[a] = "dispatch" <=> call[a].ready # {}
  /\ \A a \in Actors : doing[a] # {} <=> pc[a] = "working"
  /\ overlaps \in Nat /\ lost \in Nat /\ overlaps + lost <= MaxUpsets

Init ==
  /\ kind \in Kinds /\ picks \in [Items -> Choices]
  /\ run = "QUEUED" /\ context = Blank
  /\ tasks = [i \in Items |-> [n \in Nodes |-> <<>>]]
  /\ pc = [a \in Actors |-> "idle"]
  /\ copy = [a \in Actors |-> Blank]
  /\ call = [a \in Actors |-> NoCall]
  /\ doing = [a \in Actors |-> {}]
  /\ overlaps = 0 /\ lost = 0

Goto(a, step) == pc' = [pc EXCEPT ![a] = step]

Return(a) ==
  /\ Goto(a, "idle")
  /\ copy' = [copy EXCEPT ![a] = Blank]
  /\ call' = [call EXCEPT ![a] = NoCall]

----------------------------------------------------------------------------
(* The callers: the cron for a QUEUED run, a worker whose job is over *)

CronPicks(a) ==
  /\ pc[a] = "idle" /\ run = "QUEUED"
  /\ Goto(a, "called")
  /\ UNCHANGED <<kind, picks, run, context, tasks, copy, call, doing, overlaps, lost>>

TaskTaken(a, i, n) ==
  /\ pc[a] = "idle"
  /\ \E k \in DOMAIN tasks[i][n] :
       /\ tasks[i][n][k] = "QUEUED"
       /\ tasks' = [tasks EXCEPT ![i][n][k] = "RUNNING"]
       /\ doing' = [doing EXCEPT ![a] = {<<i, n, k>>}]
  /\ Goto(a, "working")
  /\ UNCHANGED <<kind, picks, run, context, copy, call, overlaps, lost>>

TaskEnds(a) ==
  /\ pc[a] = "working"
  /\ \E outcome \in {"SUCCEEDED", "DEAD_LETTERED"}, t \in doing[a] :
       tasks' = [tasks EXCEPT ![t[1]][t[2]][t[3]] = outcome]
  /\ doing' = [doing EXCEPT ![a] = {}]
  /\ Goto(a, "called")
  /\ UNCHANGED <<kind, picks, run, context, copy, call, overlaps, lost>>

----------------------------------------------------------------------------
(* advanceAutomationRun, and the node's dispatch *)

Advancing == {a \in Actors : pc[a] \notin {"idle", "working", "called"}}

\* dispatchLoopNode, dispatchMapNode: the call that finds the node PENDING
\* dispatches it in its second generation; the trigger takes the first.
DispatchNode(a) ==
  /\ copy' = [copy EXCEPT ![a] = [context EXCEPT !.node = "RUNNING"]]
  /\ call' = [call EXCEPT ![a].gen = IF context.node = "PENDING" THEN 2 ELSE 0]

\* MaxUpsets bounds the advances that begin beside another.
Read(a) ==
  /\ pc[a] = "called"
  /\ IF run \in TerminalRun
       THEN Goto(a, "idle") /\ UNCHANGED <<copy, call, overlaps>>
       ELSE /\ IF Advancing = {} THEN UNCHANGED overlaps
                                 ELSE overlaps + lost < MaxUpsets /\ overlaps' = overlaps + 1
            /\ DispatchNode(a)
            /\ Goto(a, IF run = "QUEUED" THEN "starting" ELSE "poll")
  /\ UNCHANGED <<kind, picks, run, context, tasks, doing, lost>>

WriteRunning(a) ==
  /\ pc[a] = "starting"
  /\ run' = "RUNNING"
  /\ Goto(a, "poll")
  /\ UNCHANGED <<kind, picks, context, tasks, copy, call, doing, overlaps, lost>>

----------------------------------------------------------------------------
(* pollLoopNode, pollMapNode: one generation of the run's own graph *)

Room == IF kind = "loop" THEN 1 ELSE Limit
Active(c) == (1 .. c.started) \ c.done

\* A slip: only the items started by this poll count against the limit.
Mut_Start(c) ==
  [c EXCEPT !.started = IF @ + Room < NumItems THEN @ + Room ELSE NumItems]

\* A slip: the number of items is not looked at.
Mut_StartPastEnd(c) ==
  LET free == Room - Cardinality(Active(c))
  IN  [c EXCEPT !.started = IF free <= 0 THEN @ ELSE @ + free]

\* Items are started in their order while there is room for them.
Start(c) ==
  LET free == Room - Cardinality(Active(c))
  IN  [c EXCEPT !.started = IF free <= 0 THEN @
                            ELSE IF @ + free < NumItems THEN @ + free ELSE NumItems]

Poll(a) ==
  /\ pc[a] = "poll"
  /\ IF call[a].gen = MaxGenerations
       THEN Goto(a, "save") /\ UNCHANGED <<copy, call>>
       ELSE IF copy[a].done = Items
       THEN /\ copy' = [copy EXCEPT ![a].node = "SUCCEEDED"]
            /\ Goto(a, "save") /\ UNCHANGED call
       ELSE LET c == Start(copy[a])
            IN  /\ copy' = [copy EXCEPT ![a] = c]
                /\ call' = [call EXCEPT ![a] = [items |-> Active(c), ready |-> {},
                                                gen |-> @.gen + 1, moved |-> FALSE]]
                /\ Goto(a, "tick")
  /\ UNCHANGED <<kind, picks, run, context, tasks, doing, overlaps, lost>>

\* A slip: a job that is over counts as a success.
Mut_Polled(i, n, s) ==
  IF s.status # "RUNNING" \/ tasks[i][n][s.task] \in OpenTask THEN s
  ELSE State("SUCCEEDED", "none", 0)

\* pollBodyNode
Polled(i, n, s) ==
  IF s.status # "RUNNING" \/ tasks[i][n][s.task] \in OpenTask THEN s
  ELSE IF tasks[i][n][s.task] = "SUCCEEDED" THEN State("SUCCEEDED", "none", 0)
  ELSE FailureResult(n)

SubgraphHasFailure(st) == \E n \in Nodes : st[n].status = "FAILED"

\* Items are polled in their order.
First(items) == CHOOSE i \in items : \A j \in items : i <= j

\* The poll goes on with the next item, or ends: the node is SUCCEEDED (a loop
\* sees it at its next poll), or polled again if anything has changed.
NextItem(a, c, moved) ==
  LET rest == call[a].items \ {First(call[a].items)}
      over == rest = {} /\ kind = "map" /\ c.done = Items
  IN  /\ copy' = [copy EXCEPT ![a] = IF over THEN [c EXCEPT !.node = "SUCCEEDED"] ELSE c]
      /\ call' = [call EXCEPT ![a].items = rest, ![a].moved = moved]
      /\ Goto(a, IF rest # {} THEN "tick" ELSE IF moved /\ ~over THEN "poll" ELSE "save")

\* A slip: the end of an item is not progress.
Mut_LeaveItem(a, i, c) ==
  IF ~AllSettled(c.subs[i]) THEN NextItem(a, c, call[a].moved)
  ELSE IF SubgraphHasFailure(c.subs[i])
  THEN /\ copy' = [copy EXCEPT ![a] = [c EXCEPT !.node = "FAILED"]]
       /\ call' = [call EXCEPT ![a].items = {}]
       /\ Goto(a, "save")
  ELSE NextItem(a, [c EXCEPT !.done = @ \cup {i}], FALSE)

\* The item's body has come to rest: is it over, and how?  A failure ends the
\* node at once, whatever the other items are doing.
LeaveItem(a, i, c) ==
  IF ~AllSettled(c.subs[i]) THEN NextItem(a, c, call[a].moved)
  ELSE IF SubgraphHasFailure(c.subs[i])
  THEN /\ copy' = [copy EXCEPT ![a] = [c EXCEPT !.node = "FAILED"]]
       /\ call' = [call EXCEPT ![a].items = {}]
       /\ Goto(a, "save")
  ELSE NextItem(a, [c EXCEPT !.done = @ \cup {i}], TRUE)

\* One generation of tickGraph on the body of an item, up to its dispatches.
\* (A body has far fewer generations than the bound.)
Tick(a) ==
  LET i      == First(call[a].items)
      before == copy[a].subs[i]
      polled == [n \in Nodes |-> Polled(i, n, before[n])]
      c      == [copy[a] EXCEPT !.subs[i] = MarkSkipped(polled)]
      ready  == ReadyNodes(polled)
  IN  /\ pc[a] = "tick"
      /\ IF ready = {} /\ c.subs[i] = before THEN LeaveItem(a, i, c)
         ELSE /\ copy' = [copy EXCEPT ![a] = c]
              /\ call' = [call EXCEPT ![a].ready = ready, ![a].moved = TRUE]
              /\ Goto(a, IF ready = {} THEN "tick" ELSE "dispatch")
      /\ UNCHANGED <<kind, picks, run, context, tasks, doing, overlaps, lost>>

\* dispatchBodyNode
DispatchBody(a) ==
  /\ pc[a] = "dispatch"
  /\ \E n \in Foremost(call[a].ready) :
       LET i == First(call[a].items)
           Dispatched(s) == copy' = [copy EXCEPT ![a].subs[i][n] = s]
       IN  /\ \/ /\ n \notin Actions /\ UNCHANGED tasks
                 /\ Dispatched(State("SUCCEEDED", IF n \in Conditions THEN picks[i][n] ELSE "none", 0))
              \/ /\ n \in Actions /\ Len(tasks[i][n]) < MaxTasks
                 /\ tasks' = [tasks EXCEPT ![i][n] = Append(@, "QUEUED")]
                 /\ Dispatched(State("RUNNING", "none", Len(tasks[i][n]) + 1))
           /\ call' = [call EXCEPT ![a].ready = @ \ {n}]
           /\ Goto(a, IF call[a].ready = {n} THEN "tick" ELSE "dispatch")
  /\ UNCHANGED <<kind, picks, run, context, doing, overlaps, lost>>

\* The run ends with the node; otherwise only the context is written.
Save(a) ==
  /\ pc[a] = "save"
  /\ context' = copy[a]
  /\ run' = IF copy[a].node \in TerminalRun THEN copy[a].node ELSE run
  /\ Return(a)
  /\ UNCHANGED <<kind, picks, tasks, doing, overlaps, lost>>

----------------------------------------------------------------------------

\* The process dies, or a dispatch throws and leaves the advance.
Lose(a) ==
  /\ pc[a] # "idle" /\ overlaps + lost < MaxUpsets
  /\ lost' = lost + 1
  /\ doing' = [doing EXCEPT ![a] = {}]
  /\ Return(a)
  /\ UNCHANGED <<kind, picks, run, context, tasks, overlaps>>

Proceed(a) ==
  \/ TaskEnds(a) \/ Read(a) \/ WriteRunning(a)
  \/ Poll(a) \/ Tick(a) \/ DispatchBody(a) \/ Save(a)

Step(a) == CronPicks(a) \/ (\E i \in Items, n \in Actions : TaskTaken(a, i, n)) \/ Proceed(a)

Next == \E a \in Actors : Step(a) \/ Lose(a)

Spec == Init /\ [][Next]_vars

\* A process runs its code to the end, and the cron route is called again and
\* again: each call picks runs up and takes jobs, though another may be first.
Fairness == \A a \in Actors : SF_vars(Step(a))
FairSpec == Spec /\ Fairness

----------------------------------------------------------------------------
(* Properties *)

HasTask(i, n, status) == \E k \in DOMAIN tasks[i][n] : tasks[i][n][k] = status

UnderWay == {i \in Items : \E n \in Actions : HasTask(i, n, "QUEUED") \/ HasTask(i, n, "RUNNING")}

\* graph-types.ts:71: items run up to concurrencyLimit at a time, those of a
\* loop one after the other.  Each advance that overlaps another, or is lost,
\* may bring one more copy of the context whose items run beside the others,
\* and never more: without one the limit is kept as it is stated.
WithinLimit == Cardinality(UnderWay) <= Room * (1 + overlaps + lost)

\* Whatever copy is saved last, what it says of a body node is what a job of
\* it did; a node that is SUCCEEDED has all its items through, without a
\* failure, and one that is FAILED an item that failed.
VerdictIsBacked ==
  /\ \A i \in Items, n \in Actions :
       LET s == context.subs[i][n]
       IN  /\ s.status = "SUCCEEDED" => HasTask(i, n, "SUCCEEDED")
           /\ s.status = "FAILED" \/ s.tag = "ignore" => HasTask(i, n, "DEAD_LETTERED")
  /\ context.node = "SUCCEEDED" => \A i \in Items : /\ AllSettled(context.subs[i])
                                                    /\ ~SubgraphHasFailure(context.subs[i])
  /\ context.node = "FAILED" => \E i \in Items : SubgraphHasFailure(context.subs[i])

\* The run ends unless an advance or a worker was lost: the end of an item or
\* of a job always leads to another look at the node.  (Of a collection whose
\* bodies fit in MaxGenerations; the README has one that does not.)
IterationEnds == <>(run \in TerminalRun \/ lost > 0)

----------------------------------------------------------------------------
(* Stated by a comment of the code, and not kept by it (README) *)

\* graph-types.ts:71, however advances overlap.  An advance reads the context
\* and saves it after it has created jobs: two of them create jobs for the same
\* item, and who sees the first succeed starts the next item beside the second.
AlwaysWithinLimit == Cardinality(UnderWay) <= Room
=============================================================================
