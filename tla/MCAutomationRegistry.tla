------------------------ MODULE MCAutomationRegistry ------------------------
(* Two versions that listen to one common key, the second with two nodes of it. *)
EXTENDS AutomationRegistry

MCListensTo ==
  [v \in 1..MaxVersions |->
     IF v = 1 THEN {[node |-> "t1", key |-> "quote.sent"], [node |-> "t2", key |-> "invoice.paid"]}
     ELSE {[node |-> "t1", key |-> "quote.sent"], [node |-> "t2", key |-> "quote.sent"]}]
=============================================================================
