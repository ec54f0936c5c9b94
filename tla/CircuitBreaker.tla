-------------------------- MODULE CircuitBreaker --------------------------
(***************************************************************************)
(* The persisted circuit breaker of one job type                            *)
(* (src/lib/automation/retry/circuit-breaker.ts) and the workers that ask   *)
(* it before an attempt (isCircuitOpen) and report the outcome after it     *)
(* (recordCircuitSuccess, recordCircuitFailure).  The functions read the    *)
(* row and write it in two separate calls; another worker may act between.  *)
(*                                                                         *)
(* resetAt is kept as "reset": "none" while null, "ahead" while in the      *)
(* future, "due" from then on.  failureCount is compared with the threshold *)
(* only, so it is counted up to it.                                        *)
(*                                                                         *)
(* What the row should know of the reports is kept apart, in three          *)
(* variables no action looks at: streak, crossing and overcounted.          *)
(***************************************************************************)
EXTENDS Integers

CONSTANTS
  Workers,
  Threshold   \* failureThreshold

ASSUME ThresholdAssumption == Threshold \in Nat \ {0}

VARIABLES
  state,      \* AutomationCircuitBreaker.state, CLOSED also for no row
  failures,   \* failureCount, up to Threshold
  reset,      \* resetAt against the clock
  pc,         \* each worker: "idle", "test", "trying", "failing"
  read,       \* read[w]: the failureCount w read before it reports a failure
  healthy,    \* the dependency has recovered for good
  streak,     \* failures reported since the last success, up to Threshold
  crossing,   \* workers holding a count (not zero) from before a success
  overcounted \* such a count was written back since the last success

evidence == <<streak, crossing, overcounted>>

breakerVars == <<state, failures, reset, pc, read, healthy, evidence>>

Counts == 0 .. Threshold

UpToThreshold(n) == IF n < Threshold THEN n ELSE Threshold

BreakerTypeOK ==
  /\ state \in {"CLOSED", "OPEN", "HALF_OPEN"}
  /\ failures \in Counts
  /\ reset \in {"none", "ahead", "due"}
  /\ pc \in [Workers -> {"idle", "test", "trying", "failing"}]
  /\ read \in [Workers -> Counts]
  /\ healthy \in BOOLEAN
  /\ streak \in Counts
  /\ crossing \subseteq Workers
  /\ overcounted \in BOOLEAN

BreakerInit ==
  /\ state = "CLOSED" /\ failures = 0 /\ reset = "none"
  /\ pc = [w \in Workers |-> "idle"]
  /\ read = [w \in Workers |-> 0]
  /\ healthy = FALSE
  /\ streak = 0 /\ crossing = {} /\ overcounted = FALSE

Goto(w, step) == pc' = [pc EXCEPT ![w] = step]

----------------------------------------------------------------------------
(* isCircuitOpen *)

\* A slip: OPEN blocks without looking at resetAt.
Mut_ProbesNever == FALSE

\* An OPEN row whose resetAt has passed.
ResetReached == reset = "due"

\* The row is CLOSED or already HALF_OPEN: the attempt may start.
LetThrough(w) ==
  /\ pc[w] = "idle"
  /\ state # "OPEN"
  /\ Goto(w, "trying")
  /\ UNCHANGED <<state, failures, reset, read, healthy, evidence>>

\* The row is OPEN and resetAt has passed ...
FindDue(w) ==
  /\ pc[w] = "idle"
  /\ state = "OPEN" /\ ResetReached
  /\ Goto(w, "test")
  /\ UNCHANGED <<state, failures, reset, read, healthy, evidence>>

\* ... so HALF_OPEN is written, over whatever the row has become.
WriteHalfOpen(w) ==
  /\ pc[w] = "test"
  /\ state' = "HALF_OPEN"
  /\ Goto(w, "trying")
  /\ UNCHANGED <<failures, reset, read, healthy, evidence>>

----------------------------------------------------------------------------
(* The attempt and its report *)

\* A slip: the success clears the count and leaves the state.
Mut_SucceedCountOnly(w) ==
  /\ pc[w] = "trying"
  /\ failures' = 0
  /\ Goto(w, "idle")
  /\ UNCHANGED <<state, reset, read, healthy, evidence>>

\* A slip: the success closes the row and leaves the count.
Mut_SucceedStateOnly(w) ==
  /\ pc[w] = "trying"
  /\ state' = "CLOSED" /\ reset' = "none"
  /\ Goto(w, "idle")
  /\ streak' = 0 /\ overcounted' = FALSE
  /\ crossing' = crossing \cup {x \in Workers : pc[x] = "failing" /\ read[x] > 0}
  /\ UNCHANGED <<failures, read, healthy>>

\* recordCircuitSuccess: one upsert.
Succeed(w) ==
  /\ pc[w] = "trying"
  /\ state' = "CLOSED" /\ failures' = 0 /\ reset' = "none"
  /\ Goto(w, "idle")
  /\ streak' = 0 /\ overcounted' = FALSE
  /\ crossing' = crossing \cup {x \in Workers : pc[x] = "failing" /\ read[x] > 0}
  /\ UNCHANGED <<read, healthy>>

\* recordCircuitFailure reads the count ...
FailRead(w) ==
  /\ pc[w] = "trying"
  /\ ~healthy
  /\ read' = [read EXCEPT ![w] = failures]
  /\ Goto(w, "failing")
  /\ UNCHANGED <<state, failures, reset, healthy, evidence>>

ShouldOpen(n) == n >= Threshold

\* ... and writes it, one higher, with the OPEN state when it is enough.
FailWrite(w) ==
  LET next == read[w] + 1
  IN  /\ pc[w] = "failing"
      /\ failures' = UpToThreshold(next)
      /\ IF ShouldOpen(next)
           THEN state' = "OPEN" /\ reset' = "ahead"
           ELSE UNCHANGED <<state, reset>>
      /\ streak' = UpToThreshold(streak + 1)
      /\ overcounted' = (overcounted \/ w \in crossing)
      /\ crossing' = crossing \ {w}
      /\ read' = [read EXCEPT ![w] = 0]
      /\ Goto(w, "idle")
      /\ UNCHANGED healthy

----------------------------------------------------------------------------
(* The environment *)

ResetElapses ==
  /\ reset = "ahead"
  /\ reset' = "due"
  /\ UNCHANGED <<state, failures, pc, read, healthy, evidence>>

Recover ==
  /\ ~healthy
  /\ healthy' = TRUE
  /\ UNCHANGED <<state, failures, reset, pc, read, evidence>>

Ask(w) == LetThrough(w) \/ FindDue(w)
Report(w) == WriteHalfOpen(w) \/ Succeed(w) \/ FailRead(w) \/ FailWrite(w)

BreakerNext ==
  \/ ResetElapses \/ Recover
  \/ \E w \in Workers : Ask(w) \/ Report(w)

BreakerSpec == BreakerInit /\ [][BreakerNext]_breakerVars

\* Time passes, the cron keeps offering jobs of the type, and a worker that
\* was let through reports.
FairBreakerSpec ==
  /\ BreakerSpec
  /\ WF_breakerVars(ResetElapses)
  /\ \A w \in Workers : WF_breakerVars(Ask(w)) /\ WF_breakerVars(Report(w))

----------------------------------------------------------------------------
\* circuit-breaker.ts:7 ("apres un nombre de defaillances consecutives"): an
\* OPEN row stands on as many failures as the threshold reported since the
\* last success, or on a count read before that success and written after it,
\* the one way two workers make it open on fewer; and it always has the
\* instant of its next test.
OpensOnEvidence ==
  state = "OPEN" => (streak = Threshold \/ overcounted) /\ reset # "none"

\* ADR 0033: an open breaker defers, it never blocks a job type for ever.
NeverBlocksForEver == (state = "OPEN") ~> (state # "OPEN")

\* ADR 0033 ("un succes referme le disjoncteur"): once the dependency works
\* again the breaker closes for good, whatever reports were still under way.
ClosesAfterRecovery == healthy ~> [](state = "CLOSED")

----------------------------------------------------------------------------
(* Stated by a comment of the code, and not kept by it (README) *)

\* circuit-breaker.ts:7: the failures that open the circuit are consecutive.
\* recordCircuitFailure writes one more than the count it read, although
\* recordCircuitSuccess cleared the count in between.
OpensOnConsecutiveFailures == state = "OPEN" => streak = Threshold
=============================================================================
