---------------------------- MODULE MCJobKernel ----------------------------
(* JobKernel on two jobs of two runs that share a lock key and a            *)
(* concurrency key.                                                         *)
EXTENDS JobKernel, TLC

CONSTANTS j1, j2, r1, r2, lockKey, concKey

MCRunOf == (j1 :> r1) @@ (j2 :> r2)
MCLockOf == (j1 :> lockKey) @@ (j2 :> lockKey)
MCConcKeyOf == (j1 :> concKey) @@ (j2 :> concKey)
MCConcLimit == concKey :> 1

\* Two attempts by a count alone, and two by a rule too.
SafetyStrategy == (j1 :> "capped") @@ (j2 :> "conditional")
SafetyAttempts == (j1 :> 2) @@ (j2 :> 2)

\* Attempts without end, and a policy that cannot be evaluated.
LiveStrategy == (j1 :> "infinite") @@ (j2 :> "conditional")
LiveAttempts == (j1 :> 1) @@ (j2 :> 1)

\* For the runs that need no limits.
MCNoKeys == (j1 :> NoKey) @@ (j2 :> NoKey)
=============================================================================
