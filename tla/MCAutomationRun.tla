-------------------------- MODULE MCAutomationRun --------------------------
(* Small graphs for AutomationRun.  Nodes are named by their role: t trigger, *)
(* a action, s subautomation, c condition, w wait, j join, e end.             *)
EXTENDS AutomationRun, TLC

MCActorSymmetry == Permutations(Actors)

E(m, n) == [source |-> m, target |-> n, branch |-> "none"]
B(m, b, n) == [source |-> m, target |-> n, branch |-> b]

Kind == [t |-> "trigger", a1 |-> "action", a2 |-> "action", a3 |-> "action",
         s |-> "subautomation", c |-> "condition", w |-> "wait", j |-> "join", e |-> "end"]
MCTypeOf == [n \in Nodes |-> Kind[n]]
MCAll == [n \in Nodes |-> "all"]
MCStop == [n \in Nodes |-> "stop"]
MCBranches == [n \in Nodes |-> IF n = "c" THEN {"true", "false"} ELSE {}]

\* Everything at once: a wait, a condition, a child run, a failure that takes
\* an error branch, one that is ignored, and a join of all of it.
FullList == <<"t", "c", "a1", "a2", "s", "a3", "w", "j", "e">>
FullEdges == {E("t", "c"), B("c", "true", "a1"), B("c", "false", "s"), B("a1", "error", "a2"),
              E("t", "a3"), E("a3", "w"),
              E("a1", "j"), E("a2", "j"), E("s", "j"), E("w", "j"), E("j", "e")}
FullPolicies == [n \in Nodes |-> CASE n = "a1" -> "alternative_branch"
                                   [] n = "a2" -> "ignore"
                                   [] OTHER    -> "stop"]

\* An action that follows the trigger directly, and by way of another action.
ShortcutList == <<"t", "a1", "a2", "e">>
ShortcutEdges == {E("t", "a1"), E("t", "a2"), E("a1", "a2"), E("a2", "e")}
=============================================================================
