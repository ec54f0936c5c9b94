--------------------------- MODULE JobOwnership ---------------------------
(***************************************************************************)
(* What the job kernel promises about who works on a job                    *)
(* (src/lib/automation/queue/types.ts): a worker takes jobs nobody has, and *)
(* only the worker that has a job lets go of it.  A job never passes from   *)
(* one worker to another directly.  JobKernel implements this.              *)
(***************************************************************************)
CONSTANTS Jobs, Workers

VARIABLE hands   \* hands[w]: the jobs worker w has

Init == hands = [w \in Workers |-> {}]

Unowned == Jobs \ UNION {hands[w] : w \in Workers}

Take(w) == \E S \in SUBSET Unowned : hands' = [hands EXCEPT ![w] = @ \cup S]

Drop(w) == \E S \in SUBSET hands[w] : hands' = [hands EXCEPT ![w] = @ \ S]

Next == \E w \in Workers : Take(w) \/ Drop(w)

Spec == Init /\ [][Next]_hands
=============================================================================
