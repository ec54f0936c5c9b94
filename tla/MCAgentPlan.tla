---------------------------- MODULE MCAgentPlan ----------------------------
(* A plan for AgentPlan: a step, one that follows it, and one that follows both. *)
EXTENDS AgentPlan

MCDependsOn == <<{}, {1}, {1, 2}>>
=============================================================================
