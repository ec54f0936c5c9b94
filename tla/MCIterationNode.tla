-------------------------- MODULE MCIterationNode --------------------------
(* Bodies for IterationNode: a condition that lets some items go without a   *)
(* job, and an action.                                                       *)
EXTENDS IterationNode

E(m, n) == [source |-> m, target |-> n, branch |-> "none"]
B(m, b, n) == [source |-> m, target |-> n, branch |-> b]

Kind == [c |-> "condition", a1 |-> "action", e |-> "end"]
MCTypeOf == [n \in Nodes |-> Kind[n]]
MCAll == [n \in Nodes |-> "all"]
MCBranches == [n \in Nodes |-> IF n = "c" THEN {"true", "false"} ELSE {}]

BodyList == <<"c", "a1">>
BodyEdges == {B("c", "true", "a1")}
BodyPolicies == [n \in Nodes |-> "stop"]

\* The body of a loop whose items all go without a job.
IdleList == <<"e">>
IdleEdges == {}
=============================================================================
