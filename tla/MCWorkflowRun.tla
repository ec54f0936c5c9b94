--------------------------- MODULE MCWorkflowRun ---------------------------
(* A small graph for WorkflowRun: a condition chooses between a retried,      *)
(* compensable action and a loop; an action whose error leads to another one, *)
(* an ignored failure, and a wait run beside them.                            *)
EXTENDS WorkflowRun

E(m, n) == [source |-> m, target |-> n, branch |-> "none"]
B(m, b, n) == [source |-> m, target |-> n, branch |-> b]

Kind == [t |-> "trigger", c |-> "condition", a1 |-> "action", a2 |-> "action", a3 |-> "action",
         a4 |-> "action", b |-> "action", l |-> "loop", w |-> "wait", s |-> "subworkflow", e |-> "end"]

MCNodeList == <<"e", "t", "c", "a1", "l", "a2", "a3", "w", "a4", "s">>
MCEdges == {E("t", "c"), B("c", "true", "a1"), B("c", "false", "l"), E("a1", "a4"), E("l", "a4"),
            E("t", "a2"), B("a2", "error", "a3"), E("t", "w"), E("w", "s"),
            E("l", "b"), E("b", "a4"), E("a4", "e"), E("a2", "e"), E("a3", "e"), E("s", "e")}
MCTypeOf == [n \in Nodes \cup Bodies |-> Kind[n]]
MCPolicyOf == [n \in Nodes |-> CASE n = "a1" -> "retry"
                                 [] n = "a2" -> "alternative_branch"
                                 [] n = "a3" -> "ignore"
                                 [] OTHER    -> "stop"]
MCRetriesOf == [n \in Nodes |-> 2]
=============================================================================
