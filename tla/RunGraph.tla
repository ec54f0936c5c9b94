------------------------------ MODULE RunGraph ------------------------------
(***************************************************************************)
(* The graph of an automation version and the rules by which a run moves    *)
(* through it (src/lib/automation/executor/run-state.ts and the join of     *)
(* job-executor.ts).  A node state keeps of the code's NodeState what the   *)
(* rules read: its status, and as "tag" the branch its output names or the  *)
(* error policy its error names; "task" is the job or child run it waits    *)
(* for.  Bodies of loop and map nodes are not in this graph: they are       *)
(* subordinate nodes, with their own edges.                                 *)
(***************************************************************************)
EXTENDS Naturals, FiniteSets, Sequences

CONSTANTS
  NodeList,  \* top-level nodes, in the order of graph.nodes
  Edges,     \* [source, target, branch], branch "none" when unlabelled
  TypeOf,    \* TypeOf[n]: the node's type
  ModeOf,    \* ModeOf[n]: "all" or "any", read for joins only
  PolicyOf,  \* PolicyOf[n]: onError of an action
  BranchesOf \* BranchesOf[n]: the branches a condition or switch may take

NodeTypes == {"trigger", "condition", "action", "wait", "join", "subautomation", "end"}
Policies == {"stop", "ignore", "alternative_branch"}
NodeStatuses == {"PENDING", "RUNNING", "WAITING", "SUCCEEDED", "FAILED", "SKIPPED"}
Terminal == {"SUCCEEDED", "FAILED", "SKIPPED"}   \* TERMINAL_NODE_STATUSES

Nodes == {NodeList[i] : i \in 1 .. Len(NodeList)}

ASSUME GraphAssumption ==
  /\ Edges \subseteq [source : Nodes, target : Nodes, branch : STRING]
  /\ TypeOf \in [Nodes -> NodeTypes]
  /\ ModeOf \in [Nodes -> {"all", "any"}]
  /\ PolicyOf \in [Nodes -> Policies]

State(status, tag, task) == [status |-> status, tag |-> tag, task |-> task]
Fresh == State("PENDING", "none", 0)

Into(n) == {e \in Edges : e.target = n}

Settled(s) == s.status \in Terminal

\* edgeIsSatisfied: may the run go on along e, given its source's state?
EdgeIsSatisfied(e, s) ==
  \/ s.status = "SUCCEEDED" /\ e.branch \in {"none", s.tag}
  \/ s.status = "SKIPPED" /\ s.tag = "ignore" /\ e.branch = "none"
  \/ s.status = "FAILED" /\ s.tag = "alternative_branch" /\ e.branch = "error"

Along(n, st) == {e \in Into(n) : EdgeIsSatisfied(e, st[e.source])}
AllIn(n, st) == \A e \in Into(n) : Settled(st[e.source])

\* A slip: one satisfied edge is enough for any node.
Mut_ReadyOnFirst(n, st) == Into(n) = {} \/ Along(n, st) # {}

\* isNodeReady, answer "ready".
Ready(n, st) ==
  \/ Into(n) = {}
  \/ TypeOf[n] = "join" /\ ModeOf[n] = "all" /\ AllIn(n, st)
  \/ TypeOf[n] = "join" /\ ModeOf[n] = "any" /\ Along(n, st) # {}
  \/ TypeOf[n] # "join" /\ AllIn(n, st) /\ Along(n, st) # {}

\* isNodeReady, answer "skip".  A join is never skipped.
Unreachable(n, st) ==
  /\ Into(n) # {} /\ TypeOf[n] # "join"
  /\ AllIn(n, st) /\ Along(n, st) = {}

Pending(st) == {n \in Nodes : st[n].status = "PENDING"}

Marked(st, skipped) ==
  [n \in Nodes |-> IF n \in skipped \cap Pending(st) THEN State("SKIPPED", "none", 0) ELSE st[n]]

Before == [n \in Nodes |-> {NodeList[i] : i \in {i \in 1 .. Len(NodeList) :
                            \E k \in i + 1 .. Len(NodeList) : NodeList[k] = n}}]

\* computeReadyNodes visits the nodes in order, and marks at once those it
\* finds out of reach: each node is judged with the marks of those before it.
OutOfReach(st) ==
  CHOOSE S \in SUBSET Pending(st) :
    \A n \in Pending(st) : n \in S <=> Unreachable(n, Marked(st, S \cap Before[n]))

MarkSkipped(st) == Marked(st, OutOfReach(st))

\* The nodes to dispatch ...
ReadyNodes(st) == {n \in Pending(st) : Ready(n, Marked(st, OutOfReach(st) \cap Before[n]))}

\* ... in order: the one whose turn it is among those of S.
Foremost(S) == {n \in S : \A m \in S \ {n} : n \in Before[m]}

\* dispatchJoinNode: it succeeds as soon as one source did.
JoinResult(n, st) ==
  IF Into(n) = {} \/ \E e \in Into(n) : st[e.source].status = "SUCCEEDED"
    THEN State("SUCCEEDED", "none", 0) ELSE State("SKIPPED", "none", 0)

\* pollActionNode and pollSubautomationNode on a task that is not SUCCEEDED.
FailureResult(n) ==
  CASE TypeOf[n] = "subautomation" -> State("FAILED", "none", 0)
    [] PolicyOf[n] = "ignore"      -> State("SKIPPED", "ignore", 0)
    [] OTHER                       -> State("FAILED", PolicyOf[n], 0)

Halting(st) == {n \in Nodes : st[n].status = "FAILED" /\ st[n].tag # "alternative_branch"}
AllSettled(st) == \A n \in Nodes : Settled(st[n])
=============================================================================
