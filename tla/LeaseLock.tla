----------------------------- MODULE LeaseLock -----------------------------
(***************************************************************************)
(* The Lock Manager of the Automation Engine (src/lib/automation/lock): a   *)
(* table of leases, one row per lock key, and the clients that acquire,     *)
(* renew and release them.  Both providers are modelled: PostgresLockManager*)
(* (one conditional upsert) takes over a row whose expiresAt is strictly in *)
(* the past, MemoryLockManager one whose expiresAt is not in the future.    *)
(*                                                                         *)
(* Instants are kept relative to the current one: "left" is expiresAt - now *)
(* and Tick lowers it.  No test of the code tells two negative values apart *)
(* so Tick stops at Lapsed = -1; there is no clock to bound.               *)
(***************************************************************************)
EXTENDS Integers, FiniteSets

CONSTANTS
  Keys,          \* lock keys
  Clients,       \* holderIds; a worker draws a fresh one for each invocation
  Leases,        \* the lease lengths clients ask for, in ticks
  MemoryKeys,    \* the keys kept by MemoryLockManager, not PostgresLockManager
  NoClient       \* holder of a key that has no row

ASSUME LeasesAssumption == Leases \subseteq Nat \ {0}
ASSUME MemoryAssumption == MemoryKeys \subseteq Keys
ASSUME NoClientAssumption == NoClient \notin Clients

VARIABLES
  holder,  \* holder[k]: holderId of k's row, NoClient when there is no row
  left,    \* left[k]: expiresAt - now of that row
  trust,   \* trust[c][k]: for how long c, told so by the manager, counts on k
  crashed  \* clients that stopped without releasing anything

vars == <<holder, left, trust, crashed>>

Lapsed == -1
Live == Clients \ crashed

TypeOK ==
  /\ holder \in [Keys -> Clients \cup {NoClient}]
  /\ left \in [Keys -> Nat \cup {Lapsed}]
  /\ trust \in [Clients -> [Keys -> Nat \cup {Lapsed}]]
  /\ crashed \subseteq Clients

Init ==
  /\ holder = [k \in Keys |-> NoClient]
  /\ left = [k \in Keys |-> Lapsed]
  /\ trust = [c \in Clients |-> [k \in Keys |-> Lapsed]]
  /\ crashed = {}

----------------------------------------------------------------------------
\* Plausible slips in the upsert's WHERE: none at all; no test of expiresAt.
Mut_AlwaysStealable(c, k) == TRUE
Mut_NeverLapses(c, k) == holder[k] \in {NoClient, c}

\* The WHERE of the upsert, or the early return of the memory provider.
Stealable(c, k) ==
  \/ holder[k] = NoClient
  \/ holder[k] = c
  \/ left[k] < 0
  \/ k \in MemoryKeys /\ left[k] = 0

Grant(c, k, lease) ==
  /\ holder' = [holder EXCEPT ![k] = c]
  /\ left' = [left EXCEPT ![k] = lease]
  /\ trust' = [trust EXCEPT ![c][k] = lease]
  /\ UNCHANGED crashed

Refuse(c, k) ==
  /\ trust' = [trust EXCEPT ![c][k] = Lapsed]
  /\ UNCHANGED <<holder, left, crashed>>

TryAcquire(c, k, lease) == Stealable(c, k) /\ Grant(c, k, lease)
AcquireRefused(c, k) == ~Stealable(c, k) /\ Refuse(c, k)

\* renew tests the holder only: a lease that ran out but was not taken over
\* is prolonged.
Renew(c, k, lease) == holder[k] = c /\ Grant(c, k, lease)
RenewRefused(c, k) == holder[k] # c /\ Refuse(c, k)

\* A slip: DELETE ... WHERE lockKey = k, whoever holds it.
Mut_ReleaseAnyones(c, k) ==
  /\ holder' = [holder EXCEPT ![k] = NoClient]
  /\ left' = [left EXCEPT ![k] = Lapsed]
  /\ trust' = [trust EXCEPT ![c][k] = Lapsed]
  /\ UNCHANGED crashed

\* DELETE ... WHERE lockKey = k AND holderId = c.
Release(c, k) ==
  /\ IF holder[k] = c
       THEN /\ holder' = [holder EXCEPT ![k] = NoClient]
            /\ left' = [left EXCEPT ![k] = Lapsed]
       ELSE UNCHANGED <<holder, left>>
  /\ trust' = [trust EXCEPT ![c][k] = Lapsed]
  /\ UNCHANGED crashed

\* The process of c dies: nothing is released, and its holderId is not used
\* again.  One client at least survives.
Crash(c) ==
  /\ Live # {c}
  /\ crashed' = crashed \cup {c}
  /\ trust' = [trust EXCEPT ![c] = [k \in Keys |-> Lapsed]]
  /\ UNCHANGED <<holder, left>>

Sooner(t) == IF t > Lapsed THEN t - 1 ELSE Lapsed

Tick ==
  /\ left' = [k \in Keys |-> Sooner(left[k])]
  /\ trust' = [c \in Clients |-> [k \in Keys |-> Sooner(trust[c][k])]]
  /\ UNCHANGED <<holder, crashed>>

Acquire(k) == \E c \in Live, lease \in Leases : TryAcquire(c, k, lease)

Next ==
  \/ Tick
  \/ \E c \in Live : Crash(c)
  \/ \E c \in Live, k \in Keys :
       \/ AcquireRefused(c, k)
       \/ RenewRefused(c, k)
       \/ Release(c, k)
       \/ \E lease \in Leases : TryAcquire(c, k, lease) \/ Renew(c, k, lease)

Spec == Init /\ [][Next]_vars

\* Time passes, and surviving clients keep asking for a key that is free to
\* take: the cron calls the workers again and again.
Fairness == WF_vars(Tick) /\ \A k \in Keys : WF_vars(Acquire(k))
FairSpec == Spec /\ Fairness

----------------------------------------------------------------------------
\* While a client counts on a lease, the table still names it, for as long.
TrustIsBacked ==
  \A c \in Clients, k \in Keys :
    trust[c][k] > 0 => holder[k] = c /\ left[k] = trust[c][k]

\* lock/types.ts: two clients never count on the same key at the same time,
\* whatever was released, renewed or taken over late in between.
MutualExclusion ==
  \A k \in Keys : \A c, d \in Clients :
    trust[c][k] > 0 /\ trust[d][k] > 0 => c = d

\* lock/types.ts: "un worker qui plante en tenant un verrou ne le retient
\* jamais indefiniment": the row of a crashed holder passes to somebody else.
CrashedHolderLosesLock ==
  \A k \in Keys : (holder[k] \in crashed) ~> (holder[k] \notin crashed)
=============================================================================
