------------------------- MODULE SharedStateProofs -------------------------
(***************************************************************************)
(* What several processes share without a transaction: the lock and the     *)
(* circuit breaker a worker asks before it runs a handler, and the bindings *)
(* by which events find an automation.                                      *)
(*                                                                         *)
(* LeaseLock: mutual exclusion of the leases for any set of clients, keys   *)
(* and lease lengths, and for both providers.  The inductive invariant is   *)
(* TrustIsBacked: what a client counts on is exactly what the table says.   *)
(*                                                                         *)
(* CircuitBreaker: OpensOnEvidence for every number of workers and every    *)
(* threshold.  It is not inductive: a worker may be about to write a count  *)
(* it read long ago.  Evidence adds that no count, in the row or in a       *)
(* worker's hands, exceeds the failures reported since the last success,    *)
(* but for the counts such a success has crossed.                           *)
(*                                                                         *)
(* AutomationRegistry: OnlyActivatedRuns and OneRunAfterStop for every set  *)
(* of requests, calls, keys and versions.  Neither is inductive: a run is   *)
(* created from what a call has held since it read the bindings, which were *)
(* made from what an activation has held since it began.  Origins follows   *)
(* the version along that way; Brakes adds that a call about to create a    *)
(* run for a stopped automation has created none since it was stopped.      *)
(***************************************************************************)
EXTENDS LeaseLock, CircuitBreaker, AutomationRegistry, TLAPS

----------------------------------------------------------------------------
(* The lock *)

\* Every reachable state of the lock table is well typed, in particular no
\* remaining time falls under its floor.
THEOREM TypeCorrect == Spec => []TypeOK
<1>1. Init => TypeOK
  BY DEF Init, TypeOK, Lapsed
<1>2. TypeOK /\ [Next]_vars => TypeOK'
  <2> SUFFICES ASSUME TypeOK, [Next]_vars PROVE TypeOK'
    OBVIOUS
  <2> USE LeasesAssumption DEF TypeOK
  <2>1. CASE Tick
    <3>1. \A t \in Nat \cup {Lapsed} : Sooner(t) \in Nat \cup {Lapsed}
      BY DEF Sooner, Lapsed
    <3> QED
      BY <2>1, <3>1 DEF Tick
  <2>2. CASE \E c \in Live : Crash(c)
    BY <2>2 DEF Crash, Live
  <2>3. ASSUME NEW c \in Live, NEW k \in Keys, AcquireRefused(c, k) \/ RenewRefused(c, k)
        PROVE  TypeOK'
    BY <2>3 DEF AcquireRefused, RenewRefused, Refuse, Live
  <2>4. ASSUME NEW c \in Live, NEW k \in Keys, Release(c, k) PROVE TypeOK'
    BY <2>4 DEF Release, Live
  <2>5. ASSUME NEW c \in Live, NEW k \in Keys, NEW lease \in Leases,
               TryAcquire(c, k, lease) \/ Renew(c, k, lease)
        PROVE  TypeOK'
    <3>1. Grant(c, k, lease) /\ c \in Clients /\ lease \in Nat
      BY <2>5 DEF TryAcquire, Renew, Live
    <3>2. [trust[c] EXCEPT ![k] = lease] \in [Keys -> Nat \cup {Lapsed}]
      BY <3>1
    <3>3. trust' = [trust EXCEPT ![c] = [trust[c] EXCEPT ![k] = lease]]
      BY <3>1 DEF Grant
    <3> QED
      BY <3>1, <3>2, <3>3 DEF Grant
  <2>6. CASE UNCHANGED vars
    BY <2>6 DEF vars
  <2> QED
    BY <2>1, <2>2, <2>3, <2>4, <2>5, <2>6 DEF Next
<1> QED
  BY <1>1, <1>2, PTL DEF Spec

----------------------------------------------------------------------------
\* The step of the induction: every operation keeps the clients' beliefs in
\* agreement with the table.
LEMMA TrustStep ==
  TypeOK /\ TypeOK' /\ TrustIsBacked /\ [Next]_vars => TrustIsBacked'
<1> SUFFICES ASSUME TypeOK, TypeOK', TrustIsBacked, [Next]_vars,
                    NEW d \in Clients, NEW h \in Keys, trust'[d][h] > 0
             PROVE  holder'[h] = d /\ left'[h] = trust'[d][h]
  BY DEF TrustIsBacked
<1> USE LeasesAssumption, MemoryAssumption, NoClientAssumption DEF TypeOK, TrustIsBacked
<1>1. CASE Tick
  <2>1. trust'[d][h] = Sooner(trust[d][h]) /\ left'[h] = Sooner(left[h]) /\ holder'[h] = holder[h]
    BY <1>1 DEF Tick
  <2>2. trust[d][h] \in Nat \cup {Lapsed}
    OBVIOUS
  <2>3. trust[d][h] > 0
    BY <2>1, <2>2 DEF Sooner, Lapsed
  <2> QED
    BY <2>1, <2>3
<1>2. CASE \E c \in Live : Crash(c)
  BY <1>2 DEF Crash, Live, Lapsed
<1>3. ASSUME NEW c \in Live, NEW k \in Keys, AcquireRefused(c, k) \/ RenewRefused(c, k)
      PROVE  holder'[h] = d /\ left'[h] = trust'[d][h]
  BY <1>3 DEF AcquireRefused, RenewRefused, Refuse, Live, Lapsed
<1>4. ASSUME NEW c \in Live, NEW k \in Keys, Release(c, k)
      PROVE  holder'[h] = d /\ left'[h] = trust'[d][h]
  BY <1>4 DEF Release, Live, Lapsed
<1>5. ASSUME NEW c \in Live, NEW k \in Keys, NEW lease \in Leases,
             TryAcquire(c, k, lease) \/ Renew(c, k, lease)
      PROVE  holder'[h] = d /\ left'[h] = trust'[d][h]
  <2>1. c \in Clients
    BY DEF Live
  <2>2. Stealable(c, k) /\ Grant(c, k, lease)
    BY <1>5 DEF TryAcquire, Renew, Stealable
  <2>3. CASE d = c /\ h = k
    BY <2>1, <2>2, <2>3 DEF Grant
  <2>4. CASE h # k
    BY <2>1, <2>2, <2>4 DEF Grant
  <2>5. CASE d # c /\ h = k
    <3>1. trust'[d][h] = trust[d][h]
      BY <2>1, <2>2, <2>5 DEF Grant
    <3>2. holder[k] = d /\ left[k] = trust[d][k] /\ left[k] > 0
      BY <3>1, <2>5
    <3>3. FALSE
      BY <3>2, <2>2, <2>5 DEF Stealable, Lapsed
    <3> QED
      BY <3>3
  <2> QED
    BY <2>3, <2>4, <2>5
<1>6. CASE UNCHANGED vars
  BY <1>6 DEF vars
<1> QED
  BY <1>1, <1>2, <1>3, <1>4, <1>5, <1>6 DEF Next

\* lock/types.ts: what a client was told it holds, the table gives to nobody
\* else while the lease runs.
THEOREM TrustBacked == Spec => []TrustIsBacked
<1>1. Init => TrustIsBacked
  BY DEF Init, TrustIsBacked, Lapsed
<1> QED
  BY <1>1, TypeCorrect, TrustStep, PTL DEF Spec

\* lock/types.ts: no two clients count on the same lock key at the same time.
THEOREM Exclusive == Spec => []MutualExclusion
<1>1. TypeOK /\ TrustIsBacked => MutualExclusion
  BY DEF TrustIsBacked, MutualExclusion
<1> QED
  BY <1>1, TypeCorrect, TrustBacked, PTL

----------------------------------------------------------------------------
(* The circuit breaker *)

\* Until a count from before a success is written back, no count exceeds the
\* failures reported since the last success: not the row's, and not one in the
\* hands of a worker that no success has crossed.
CountsAreBacked ==
  \/ overcounted
  \/ /\ failures <= streak
     /\ \A w \in Workers : w \in crossing \/ read[w] <= streak

\* A worker holds a count only between the read and the write of a failure.
ReadWhileFailing == \A w \in Workers : pc[w] # "failing" => read[w] = 0

Evidence == BreakerTypeOK /\ CountsAreBacked /\ ReadWhileFailing /\ OpensOnEvidence

\* Counting up to the threshold keeps the order of two counts, and reaches it
\* from any count the code would open on.
LEMMA Saturation ==
  ASSUME NEW m \in Counts, NEW n \in Counts, m <= n
  PROVE  /\ UpToThreshold(m + 1) \in Counts
         /\ UpToThreshold(m + 1) <= UpToThreshold(n + 1)
         /\ n <= UpToThreshold(n + 1)
         /\ ShouldOpen(m + 1) => UpToThreshold(n + 1) = Threshold
  BY ThresholdAssumption DEF Counts, UpToThreshold, ShouldOpen

\* Nothing a worker, the clock or the dependency does breaks Evidence.
LEMMA EvidenceStep == Evidence /\ [BreakerNext]_breakerVars => Evidence'
<1> SUFFICES ASSUME Evidence, [BreakerNext]_breakerVars
             PROVE  Evidence'
  OBVIOUS
<1> USE ThresholdAssumption DEF Evidence, BreakerTypeOK, CountsAreBacked, ReadWhileFailing,
                                OpensOnEvidence, Counts, Goto, evidence
<1>1. CASE ResetElapses
  BY <1>1 DEF ResetElapses
<1>2. CASE Recover
  BY <1>2 DEF Recover
<1>3. ASSUME NEW w \in Workers, Ask(w)
      PROVE  Evidence'
  BY <1>3 DEF Ask, LetThrough, FindDue
<1>4. ASSUME NEW w \in Workers, WriteHalfOpen(w)
      PROVE  Evidence'
  BY <1>4 DEF WriteHalfOpen
<1>5. ASSUME NEW w \in Workers, Succeed(w)
      PROVE  Evidence'
  <2>1. /\ state' = "CLOSED" /\ failures' = 0 /\ reset' = "none"
        /\ pc' = [pc EXCEPT ![w] = "idle"]
        /\ streak' = 0 /\ overcounted' = FALSE
        /\ crossing' = crossing \cup {x \in Workers : pc[x] = "failing" /\ read[x] > 0}
        /\ read' = read /\ healthy' = healthy /\ pc[w] = "trying"
    BY <1>5 DEF Succeed
  <2>2. BreakerTypeOK' /\ OpensOnEvidence' /\ ReadWhileFailing'
    BY <2>1
  <2>3. ASSUME NEW x \in Workers
        PROVE  x \in crossing' \/ read'[x] <= streak'
    <3>1. CASE pc[x] = "failing" /\ read[x] > 0
      BY <2>1, <3>1
    <3>2. CASE ~(pc[x] = "failing" /\ read[x] > 0)
      <4>1. read[x] = 0
        BY <3>2
      <4> QED
        BY <2>1, <4>1
    <3> QED
      BY <3>1, <3>2
  <2> QED
    BY <2>1, <2>2, <2>3
<1>6. ASSUME NEW w \in Workers, FailRead(w)
      PROVE  Evidence'
  BY <1>6 DEF FailRead
<1>7. ASSUME NEW w \in Workers, FailWrite(w)
      PROVE  Evidence'
  <2> DEFINE next == read[w] + 1
  <2>1. /\ failures' = UpToThreshold(next)
        /\ streak' = UpToThreshold(streak + 1)
        /\ overcounted' = (overcounted \/ w \in crossing)
        /\ crossing' = crossing \ {w}
        /\ read' = [read EXCEPT ![w] = 0]
        /\ pc' = [pc EXCEPT ![w] = "idle"]
        /\ healthy' = healthy
        /\ IF ShouldOpen(next) THEN state' = "OPEN" /\ reset' = "ahead"
                               ELSE state' = state /\ reset' = reset
    BY <1>7 DEF FailWrite
  <2>2. read[w] \in Counts /\ streak \in Counts
    OBVIOUS
  <2>3. failures' \in Counts /\ streak' \in Counts /\ streak <= streak'
        /\ (streak = Threshold => streak' = Threshold)
    <3>1. UpToThreshold(next) \in Counts
      BY <2>2, Saturation
    <3>2. UpToThreshold(streak + 1) \in Counts /\ streak <= UpToThreshold(streak + 1)
      BY <2>2, Saturation
    <3> QED
      BY <2>1, <3>1, <3>2
  <2>4. BreakerTypeOK'
    BY <2>1, <2>3
  <2>5. ReadWhileFailing'
    BY <2>1
  <2>6. CASE overcounted'
    BY <2>1, <2>3, <2>4, <2>5, <2>6
  <2>7. CASE ~overcounted'
    <3>1. ~overcounted /\ w \notin crossing /\ read[w] <= streak
      BY <2>1, <2>7
    <3>2. failures' <= streak' /\ (ShouldOpen(next) => streak' = Threshold)
      BY <2>1, <2>2, <3>1, Saturation
    <3>3. ASSUME NEW x \in Workers
          PROVE  x \in crossing' \/ read'[x] <= streak'
      <4>1. x = w \/ x \in crossing \/ read[x] <= streak
        BY <3>1
      <4> QED
        BY <2>1, <2>3, <4>1
    <3>4. OpensOnEvidence'
      BY <2>1, <2>3, <3>1, <3>2
    <3> QED
      BY <2>4, <2>5, <3>2, <3>3, <3>4
  <2> QED
    BY <2>6, <2>7
<1>8. CASE UNCHANGED breakerVars
  BY <1>8 DEF breakerVars
<1> QED
  BY <1>1, <1>2, <1>3, <1>4, <1>5, <1>6, <1>7, <1>8 DEF BreakerNext, Report

\* recordCircuitFailure: however the reads and writes of any number of workers
\* interleave, the row is OPEN only when as many failures as the threshold were
\* reported since the last success, or when a count read before that success
\* was written after it; and it then has the instant of its next test.
THEOREM OpenOnlyOnEvidence == BreakerSpec => [](BreakerTypeOK /\ OpensOnEvidence)
<1>1. BreakerInit => Evidence
  <2> SUFFICES ASSUME BreakerInit
               PROVE  Evidence
    OBVIOUS
  <2>1. 0 \in Counts
    BY ThresholdAssumption DEF Counts
  <2>2. BreakerTypeOK
    BY <2>1 DEF BreakerInit, BreakerTypeOK
  <2>3. CountsAreBacked /\ ReadWhileFailing
    BY DEF BreakerInit, CountsAreBacked, ReadWhileFailing
  <2>4. OpensOnEvidence
    BY DEF BreakerInit, OpensOnEvidence
  <2> QED
    BY <2>2, <2>3, <2>4 DEF Evidence
<1>2. Evidence => BreakerTypeOK /\ OpensOnEvidence
  BY DEF Evidence
<1> QED
  BY <1>1, <1>2, EvidenceStep, PTL DEF BreakerSpec

----------------------------------------------------------------------------
(* The bindings of an automation *)

\* What a request has in hand.
Carries ==
  \A a \in Admins : admin[a].at \in {"activate", "delete", "index"} => admin[a].v \in Versions

\* Every version on its way to a run has been active.
Origins ==
  /\ automation.active \in activated \cup {0}
  /\ \A a \in Admins : admin[a].at \in {"delete", "index"} => admin[a].v \in activated
  /\ \A b \in bindings : b.v \in activated
  /\ \A f \in Firers : /\ \A b \in firer[f].batch : b.v \in activated
                       /\ firer[f].at \in {"create", "manual"} => firer[f].v \in activated
  /\ ran \subseteq activated

Brakes ==
  \A f \in Firers :
    /\ late[f] <= 1
    /\ firer[f].at = "create" /\ automation.status # "ACTIVE" => late[f] = 0

RunsInv == RegistryTypeOK /\ Carries /\ Origins /\ Brakes

\* What the registry writes over its bindings keeps their type and versions.
LEMMA SwitchedOff ==
  ASSUME NEW S, NEW V, S \subseteq Binding, \A b \in S : b.v \in V
  PROVE  LET T == {[b EXCEPT !.on = FALSE] : b \in S}
         IN  T \subseteq Binding /\ \A b \in T : b.v \in V
<1>1. ASSUME NEW b \in S
      PROVE  [b EXCEPT !.on = FALSE] \in Binding /\ [b EXCEPT !.on = FALSE].v = b.v
  BY DEF Binding
<1> QED
  BY <1>1

LEMMA Indexed ==
  ASSUME NEW a \in Admins, NEW v \in Versions
  PROVE  LET T == {[by |-> a, v |-> v, node |-> t.node, key |-> t.key, on |-> TRUE] :
                     t \in ListensTo[v]}
         IN  T \subseteq Binding /\ \A b \in T : b.v = v
<1>1. ListensTo[v] \subseteq [node : TriggerNodes, key : TriggerKeys]
  BY RegistryAssumption DEF Versions
<1>2. ASSUME NEW t \in ListensTo[v]
      PROVE  [by |-> a, v |-> v, node |-> t.node, key |-> t.key, on |-> TRUE] \in Binding
  BY <1>1 DEF Binding
<1> QED
  BY <1>2

\* A request that ends with a write over the bindings.
LEMMA WroteBindings ==
  ASSUME RunsInv, NEW a \in Admins,
         UNCHANGED <<automation, latest, firer, ops, dead, activated, ran, late>>,
         admin' = [admin EXCEPT ![a] = AtRest],
         bindings' \subseteq Binding, \A b \in bindings' : b.v \in activated
  PROVE  RunsInv'
<1>1. admin' \in [Admins -> [at : {"idle", "number", "version", "activate", "delete",
                                  "index", "stop", "off"}, v : 0..MaxVersions]]
  BY RegistryAssumption DEF RunsInv, RegistryTypeOK, AtRest
<1>2. RegistryTypeOK'
  BY <1>1 DEF RunsInv, RegistryTypeOK
<1>3. \A d \in Admins : admin'[d] = admin[d] \/ admin'[d].at = "idle"
  BY DEF RunsInv, RegistryTypeOK, AtRest
<1>4. Carries' /\ Origins' /\ Brakes'
  BY <1>3 DEF RunsInv, Carries, Origins, Brakes
<1> QED
  BY <1>2, <1>4 DEF RunsInv

\* The requests that manage the automation.
LEMMA AdminSteps ==
  ASSUME RunsInv, NEW a \in Admins, AdminStep(a)
  PROVE  RunsInv'
<1> USE RegistryAssumption DEF RunsInv, RegistryTypeOK, Carries, Origins, Brakes, Versions
<1>1. CASE NewVersionReads(a)
  BY <1>1 DEF NewVersionReads, Begins
<1>11. CASE NewVersionNumbers(a)
  BY <1>11 DEF NewVersionNumbers
<1>2. CASE NewVersionCreates(a)
  <2>1. latest' \in Versions
    BY <1>2 DEF NewVersionCreates
  <2> QED
    BY <1>2, <2>1 DEF NewVersionCreates, AtRest
<1>3. CASE ActivateReads(a)
  BY <1>3 DEF ActivateReads, Begins
<1>4. CASE ActivateWrites(a)
  BY <1>4 DEF ActivateWrites
<1>5. CASE Unindex(a)
  BY <1>5 DEF Unindex
<1>6. CASE Index(a)
  <2>1. admin[a].v \in Versions /\ admin[a].v \in activated
    BY <1>6 DEF Index
  <2>2. bindings' \subseteq Binding /\ \A b \in bindings' : b.v \in activated
    BY <1>6, <2>1, Indexed DEF Index, indexed
  <2>3. UNCHANGED <<automation, latest, firer, ops, dead, activated, ran, late>>
        /\ admin' = [admin EXCEPT ![a] = AtRest]
    BY <1>6 DEF Index
  <2> QED
    BY <2>2, <2>3, WroteBindings
<1>7. CASE StopReads(a)
  BY <1>7 DEF StopReads, Begins
<1>8. CASE StopWrites(a)
  <2>1. /\ automation' \in [status : {"DRAFT", "ACTIVE", "INACTIVE", "ARCHIVED"},
                            active : 0..MaxVersions]
        /\ automation'.active = automation.active
    BY <1>8 DEF StopWrites
  <2>2. /\ admin' = [admin EXCEPT ![a].at = "off"]
        /\ late' = [f \in Firers |-> 0]
        /\ UNCHANGED <<latest, bindings, firer, ops, dead, activated, ran>>
    BY <1>8 DEF StopWrites
  <2> QED
    BY <2>1, <2>2
<1>9. CASE SwitchOff(a)
  <2>1. bindings' \subseteq Binding /\ \A b \in bindings' : b.v \in activated
    BY <1>9, SwitchedOff DEF SwitchOff
  <2>2. UNCHANGED <<automation, latest, firer, ops, dead, activated, ran, late>>
        /\ admin' = [admin EXCEPT ![a] = AtRest]
    BY <1>9 DEF SwitchOff
  <2> QED
    BY <2>1, <2>2, WroteBindings
<1>10. CASE AdminDies(a)
  BY <1>10 DEF AdminDies, AtRest
<1> QED
  BY <1>1, <1>2, <1>3, <1>4, <1>5, <1>6, <1>7, <1>8, <1>9, <1>10, <1>11 DEF AdminStep

\* The events, webhooks and cron calls that fire it.
LEMMA FirerSteps ==
  ASSUME RunsInv, NEW f \in Firers, FirerStep(f)
  PROVE  RunsInv'
<1> USE RegistryAssumption DEF RunsInv, RegistryTypeOK, Carries, Origins, Brakes, Versions, Binding
<1>1. ASSUME NEW k \in TriggerKeys, FireReads(f, k)
      PROVE  RunsInv'
  BY <1>1 DEF FireReads
<1>2. ASSUME NEW b \in firer[f].batch, FireBinding(f, b)
      PROVE  RunsInv'
  BY <1>2 DEF FireBinding, StillActive
<1>3. CASE FireCreates(f)
  BY <1>3 DEF FireCreates
<1>4. CASE FireEnds(f)
  BY <1>4 DEF FireEnds, Still
<1>5. CASE HookReads(f)
  BY <1>5 DEF HookReads
<1>6. CASE ByHandReads(f)
  BY <1>6 DEF ByHandReads
<1>7. CASE RetryReads(f)
  BY <1>7 DEF RetryReads
<1>8. CASE ByHandCreates(f)
  BY <1>8 DEF ByHandCreates, Still
<1> QED
  BY <1>1, <1>2, <1>3, <1>4, <1>5, <1>6, <1>7, <1>8 DEF FirerStep

LEMMA RunsInvStep == RunsInv /\ [RegistryNext]_registryVars => RunsInv'
<1> SUFFICES ASSUME RunsInv, [RegistryNext]_registryVars
             PROVE  RunsInv'
  OBVIOUS
<1>1. CASE UNCHANGED registryVars
  BY <1>1 DEF registryVars, RunsInv, RegistryTypeOK, Carries, Origins, Brakes
<1> QED
  BY <1>1, AdminSteps, FirerSteps DEF RegistryNext

LEMMA RunsInvInit == RegistryInit => RunsInv
  BY RegistryAssumption
  DEF RegistryInit, RunsInv, RegistryTypeOK, Carries, Origins, Brakes, Versions, AtRest, Still

\* The registry's variables keep their types.
THEOREM RegistryTypeCorrect == RegistrySpec => []RegistryTypeOK
  BY RunsInvInit, RunsInvStep, PTL DEF RegistrySpec, RunsInv

\* fireBinding, fireAutomationWebhook and reindexAutomationTriggerBindings:
\* however activations, stops, deaths and firings interleave, a run is only
\* created for a version somebody activated.
THEOREM RunsAreOfActivated == RegistrySpec => []OnlyActivatedRuns
<1>1. RunsInv => OnlyActivatedRuns
  BY DEF RunsInv, Origins, OnlyActivatedRuns
<1> QED
  BY <1>1, RunsInvInit, RunsInvStep, PTL DEF RegistrySpec

\* deactivateAutomation and archiveAutomation: each call under way creates at
\* most one run after the stop, however many bindings it has still to serve.
THEOREM StopIsPrompt == RegistrySpec => []OneRunAfterStop
<1>1. RunsInv => OneRunAfterStop
  BY DEF RunsInv, Brakes, OneRunAfterStop
<1> QED
  BY <1>1, RunsInvInit, RunsInvStep, PTL DEF RegistrySpec
=============================================================================
