-------------------------- MODULE AgentPlanProofs --------------------------
(***************************************************************************)
(* Safety of a plan for every number of steps, every dependency between     *)
(* them, every bound on attempts, runs and interventions.                   *)
(*                                                                         *)
(* TypeOK rests on Shape: a delegation holds a run of its own step exactly  *)
(* from the creation of the run to its report, and the Director delegates   *)
(* nothing outside a batch.                                                 *)
(*                                                                         *)
(* DeliveredFirst rests on Delivery, which follows a success from the run   *)
(* to the delegation that reads it and to the step.                         *)
(*                                                                         *)
(* VerdictIsTrue is about plans no user touched.  Settling says of them     *)
(* that a step is DELEGATED or RUNNING only while the Director works on it, *)
(* that a SKIPPED one goes back to one that FAILED, and that the loop gets  *)
(* one step further with every round: the steps 1 to rounds have been taken *)
(* up.  It needs a round per step (EnoughRounds); MAX_LOOP_ITERATIONS is 50 *)
(* and the code does not limit the steps of a plan.                         *)
(***************************************************************************)
EXTENDS AgentPlan, TLAPS

Places == {"idle", "resolve", "create", "bind", "execute", "running", "after", "drive", "read"} \cup TerminalRun
Unbound == {"idle", "resolve", "create"}
Marks == [at : {"none", "run", "write", "step"}, sub : Nat]
Attempts == 0 .. MaxAttempts + 1
Runs == [status : RunStatuses, attempt : Attempts]
Rows == [status : StepStatuses, sub : Nat]

Over == {"merging", "to SUCCEEDED", "to FAILED", "SUCCEEDED", "FAILED"}

Director(s) == <<s, "director">>
User(s) == <<s, "user">>

Types ==
  /\ plan \in {"ready", "delegating", "counting"} \cup Over
  /\ rounds \in 0 .. MaxIterations
  /\ step \in [Steps -> Rows]
  /\ runs \in [Steps -> Seq(Runs)]
  /\ pc \in [Executors -> Places]
  /\ on \in [Executors -> Nat \X Nat]
  /\ attempt \in [Executors -> Attempts]
  /\ drives \in [Delegations -> 0 .. MaxDrives - 1]
  /\ cancel \in [Steps -> Marks]
  /\ retrying \subseteq Steps /\ touches \in 0 .. MaxTouches /\ byUser \in BOOLEAN /\ proven \subseteq Steps

\* Run indices name runs there are.
Indexed ==
  \A s \in Steps : /\ Len(runs[s]) <= MaxRuns
                   /\ step[s].sub <= Len(runs[s]) /\ cancel[s].sub <= Len(runs[s])
                   /\ cancel[s].at \in {"run", "write"} => cancel[s].sub # 0

\* What executor x has in hand at its place.
HoldsOf(x) ==
  /\ pc[x] \in Unbound => on[x] = NoRun
  /\ pc[x] \notin Unbound => on[x][1] \in Steps /\ on[x][2] \in 1 .. Len(runs[on[x][1]])
  /\ x \in Delegations /\ pc[x] \notin Unbound => on[x][1] = x[1]
  /\ x = Cron => pc[x] \in {"idle", "execute", "running", "after"}

Holds == \A x \in Executors : HoldsOf(x)

\* Between batches the Director delegates nothing, nor a user before the reset.
Calm ==
  /\ plan # "delegating" => \A s \in Steps : pc[Director(s)] = "idle"
  /\ \A s \in retrying : pc[User(s)] = "idle"

Shape == Types /\ Indexed /\ Holds /\ Calm

Delivery ==
  /\ \A s \in Steps : pc[Director(s)] # "idle" => DependsOn[s] \subseteq proven
  /\ \A s \in Steps : step[s].status = "SUCCEEDED" => s \in proven
  /\ \A s \in Steps : \A k \in 1 .. Len(runs[s]) : runs[s][k].status = "SUCCEEDED" => s \in proven
  /\ \A x \in Delegations : pc[x] = "SUCCEEDED" => x[1] \in proven

EnoughRounds == NumSteps <= MaxIterations

\* No user is at work, and nothing was cancelled.
NoUser ==
  /\ retrying = {}
  /\ \A s \in Steps : cancel[s].at = "none" /\ pc[User(s)] = "idle" /\ step[s].status # "CANCELLED"
  /\ \A s \in Steps : \A k \in 1 .. Len(runs[s]) : runs[s][k].status # "CANCELLED"
  /\ \A x \in Delegations : pc[x] # "CANCELLED"

\* The steps the Director works on are those under way, and those it has come
\* to are taken up.
Engaged ==
  /\ \A s \in Steps : IF pc[Director(s)] = "idle" THEN step[s].status \notin {"DELEGATED", "RUNNING"}
                                                  ELSE step[s].status \in Live
  /\ \A s \in Steps : s <= rounds => step[s].status # "PENDING" \/ pc[Director(s)] # "idle"
  /\ plan \in Over => \A s \in Steps : step[s].status # "PENDING"

Failed == \E f \in Steps : step[f].status = "FAILED"

Caused ==
  \A s \in Steps : step[s].status = "SKIPPED" =>
     Failed /\ \E d \in DependsOn[s] : step[d].status \in Lost

\* The verdict, read and written, is that of the steps.
Judged ==
  /\ plan \in {"to SUCCEEDED", "SUCCEEDED"} => Verdict = "SUCCEEDED"
  /\ plan \in {"to FAILED", "FAILED"} => Verdict = "FAILED"

Settling ==
  ~byUser => NoUser /\ Engaged /\ Caused /\ Judged
----------------------------------------------------------------------------
(* Shape *)

LEMMA Who ==
  /\ Delegations \subseteq Executors /\ Cron \in Executors /\ Cron \notin Delegations
  /\ Steps \subseteq Nat /\ 0 \notin Steps
  /\ \A x \in Executors : x \in Delegations \/ x = Cron
  /\ \A x \in Delegations : x[1] \in Steps /\ (x = Director(x[1]) \/ x = User(x[1]))
  /\ \A s \in Steps : /\ Director(s) \in Delegations /\ User(s) \in Delegations
                      /\ Director(s)[1] = s /\ User(s)[1] = s
                      /\ Director(s)[2] = "director" /\ User(s)[2] = "user"
                      /\ Director(s) # User(s)
  /\ \A x \in Executors : x[2] = "director" => x \in Delegations /\ x = Director(x[1]) /\ x[1] \in Steps
<1>1. Cron \notin Delegations
  BY DEF Cron, Delegations, Steps
<1>2. Steps \subseteq Nat /\ 0 \notin Steps
  BY PlanAssumption DEF Steps
<1>3. ASSUME NEW x \in Delegations PROVE x[1] \in Steps /\ (x = Director(x[1]) \/ x = User(x[1]))
  BY DEF Delegations, Kinds, Director, User
<1>4. ASSUME NEW x \in Executors, x[2] = "director"
      PROVE  x \in Delegations /\ x = Director(x[1]) /\ x[1] \in Steps
  <2>1. Cron[2] = "cron"
    BY DEF Cron
  <2>2. x \in Delegations
    BY <1>4, <2>1 DEF Executors
  <2>3. User(x[1])[2] = "user"
    BY DEF User
  <2> QED
    BY <1>3, <1>4, <2>2, <2>3
<1> QED
  BY <1>1, <1>2, <1>3, <1>4 DEF Executors, Delegations, Kinds, Director, User

\* Run k of step i is rewritten.
Rewritten(i, k, new) == runs' = [runs EXCEPT ![i][k] = new]

LEMMA RunChanges ==
  ASSUME Types, NEW i \in Steps, NEW k \in 1 .. Len(runs[i]), NEW new \in Runs, Rewritten(i, k, new)
  PROVE  /\ runs' \in [Steps -> Seq(Runs)]
         /\ \A s \in Steps : Len(runs'[s]) = Len(runs[s])
         /\ \A s \in Steps : \A n \in 1 .. Len(runs[s]) :
              runs'[s][n] = IF s = i /\ n = k THEN new ELSE runs[s][n]
<1>1. runs[i] \in Seq(Runs) /\ [runs[i] EXCEPT ![k] = new] \in Seq(Runs)
      /\ Len([runs[i] EXCEPT ![k] = new]) = Len(runs[i])
  BY DEF Types
<1>2. \A s \in Steps : runs'[s] = IF s = i THEN [runs[i] EXCEPT ![k] = new] ELSE runs[s]
  BY DEF Types, Rewritten
<1>3. runs' \in [Steps -> Seq(Runs)]
  BY <1>1, <1>2 DEF Types, Rewritten
<1>4. \A n \in 1 .. Len(runs[i]) : [runs[i] EXCEPT ![k] = new][n] = IF n = k THEN new ELSE runs[i][n]
  BY <1>1
<1> QED
  BY <1>1, <1>2, <1>3, <1>4

\* ... in its status only.
LEMMA StatusChanges ==
  ASSUME Types, NEW r, r[1] \in Steps, r[2] \in 1 .. Len(runs[r[1]]), NEW st \in RunStatuses, SetStatus(r, st)
  PROVE  /\ runs' \in [Steps -> Seq(Runs)]
         /\ \A s \in Steps : Len(runs'[s]) = Len(runs[s])
         /\ \A s \in Steps : \A n \in 1 .. Len(runs[s]) :
              runs'[s][n].status = IF s = r[1] /\ n = r[2] THEN st ELSE runs[s][n].status
<1> DEFINE old == runs[r[1]][r[2]]
           new == [old EXCEPT !.status = st]
<1>1. old \in Runs
  BY DEF Types
<1>2. new \in Runs /\ new.status = st
  BY <1>1 DEF Runs
<1>3. Rewritten(r[1], r[2], new)
  BY DEF SetStatus, Rewritten
<1> HIDE DEF new
<1>4. /\ runs' \in [Steps -> Seq(Runs)]
      /\ \A s \in Steps : Len(runs'[s]) = Len(runs[s])
      /\ \A s \in Steps : \A n \in 1 .. Len(runs[s]) :
           runs'[s][n] = IF s = r[1] /\ n = r[2] THEN new ELSE runs[s][n]
  BY <1>2, <1>3, RunChanges
<1> QED
  BY <1>2, <1>4

\* An executor at work goes on to another place of its code.
Moves(x, place, r) == pc' = [pc EXCEPT ![x] = place] /\ on' = [on EXCEPT ![x] = r]

LEMMA MoveFits ==
  ASSUME Shape, NEW x \in Executors, NEW place \in Places, NEW r \in Nat \X Nat, Moves(x, place, r),
         pc[x] # "idle" \/ x = Cron, plan' = plan, retrying' = retrying,
         \A s \in Steps : Len(runs[s]) <= Len(runs'[s]),
         \A s \in Steps : Len(runs[s]) \in Nat /\ Len(runs'[s]) \in Nat,
         place \in Unbound => r = NoRun,
         place \notin Unbound => r[1] \in Steps /\ r[2] \in 1 .. Len(runs'[r[1]]),
         x \in Delegations /\ place \notin Unbound => r[1] = x[1],
         x = Cron => place \in {"idle", "execute", "running", "after"}
  PROVE  Holds' /\ Calm' /\ pc' \in [Executors -> Places] /\ on' \in [Executors -> Nat \X Nat]
<1>1. \A y \in Executors : /\ pc'[y] = IF y = x THEN place ELSE pc[y]
                           /\ on'[y] = IF y = x THEN r ELSE on[y]
  BY DEF Shape, Types, Moves
<1>2. ASSUME NEW y \in Executors PROVE HoldsOf(y)'
  <2>1. CASE y = x
    BY <1>1, <2>1 DEF HoldsOf
  <2>2. CASE y # x
    <3>1. HoldsOf(y) /\ pc'[y] = pc[y] /\ on'[y] = on[y]
      BY <1>1, <2>2 DEF Shape, Holds
    <3>2. on[y] \in Nat \X Nat
      BY DEF Shape, Types
    <3> QED
      BY <3>1, <3>2 DEF HoldsOf
  <2> QED
    BY <2>1, <2>2
<1>3. Calm'
  <2>1. ASSUME NEW y \in Delegations, pc[y] = "idle" PROVE pc'[y] = "idle"
    BY <1>1, <2>1, Who
  <2>2. plan' # "delegating" => \A s \in Steps : pc'[Director(s)] = "idle"
    BY <2>1, Who DEF Shape, Calm
  <2>3. \A s \in retrying' : pc'[User(s)] = "idle"
    BY <2>1, Who DEF Shape, Calm, Types
  <2> QED
    BY <2>2, <2>3 DEF Calm
<1> QED
  BY <1>2, <1>3 DEF Holds, Shape, Types, Moves

\* The same for the ties of steps and cancellations to runs.
LEMMA IndexedStays ==
  ASSUME Indexed, Types, step' = step \/ \E s \in Steps, status \in StepStatuses : step' = [step EXCEPT ![s].status = status],
         cancel' = cancel, \A s \in Steps : Len(runs'[s]) = Len(runs[s])
  PROVE  Indexed'
<1>1. ASSUME NEW s \in Steps PROVE step'[s].sub = step[s].sub
  <2>1. step[s] = [status |-> step[s].status, sub |-> step[s].sub]
    BY DEF Types, Rows
  <2>2. ASSUME NEW i \in Steps, NEW status, step' = [step EXCEPT ![i].status = status]
        PROVE  step'[s].sub = step[s].sub
    <3>1. step'[s] = step[s] \/ step'[s] = [step[s] EXCEPT !.status = status]
      BY <2>2 DEF Types
    <3> QED
      BY <2>1, <3>1
  <2> QED
    BY <2>2
<1> QED
  BY <1>1 DEF Indexed

LEMMA LoopShape == ASSUME Shape, Loop PROVE Shape'
<1>1. Types /\ Indexed /\ Holds /\ Calm
  BY DEF Shape
<1>2. CASE GetReadySteps
  <2>1. /\ \A s \in Steps : step'[s] = IF Blocked(s) THEN [step[s] EXCEPT !.status = "SKIPPED"] ELSE step[s]
        /\ step' = [s \in Steps |-> step'[s]]
        /\ \A x \in Executors : pc'[x] = IF x[2] = "director" /\ Ready(x[1]) THEN "resolve" ELSE pc[x]
        /\ pc' = [x \in Executors |-> pc'[x]]
        /\ plan = "ready" /\ plan' \in {"delegating", "counting"} /\ rounds' = rounds + 1 /\ rounds < MaxIterations
        /\ plan' # "delegating" => \A s \in Steps : ~Ready(s)
        /\ UNCHANGED <<runs, on, attempt, drives, cancel, retrying, touches, byUser, proven>>
    BY <1>2 DEF GetReadySteps
  <2>2. ASSUME NEW s \in Steps PROVE step'[s] \in Rows /\ step'[s].sub = step[s].sub
    <3>1. step[s] \in Rows /\ "SKIPPED" \in StepStatuses
      BY <1>1 DEF Types, StepStatuses
    <3> QED
      BY <2>1, <3>1 DEF Rows
  <2>3. Types'
    <3>1. step' \in [Steps -> Rows]
      BY <2>1, <2>2
    <3>2. pc' \in [Executors -> Places]
      BY <1>1, <2>1 DEF Types, Places
    <3>3. rounds' \in 0 .. MaxIterations
      BY <1>1, <2>1, PlanAssumption DEF Types
    <3> QED
      BY <1>1, <2>1, <3>1, <3>2, <3>3 DEF Types
  <2>4. Indexed'
    BY <1>1, <2>1, <2>2 DEF Indexed
  <2>5. ASSUME NEW x \in Executors PROVE HoldsOf(x)'
    <3>1. CASE x[2] = "director" /\ Ready(x[1])
      <4>1. x \in Delegations /\ x = Director(x[1]) /\ x[1] \in Steps
        BY <3>1, Who
      <4>2. pc[x] = "idle" /\ pc'[x] = "resolve" /\ on'[x] = on[x] /\ x # Cron
        BY <1>1, <2>1, <3>1, <4>1, Who DEF Calm
      <4> QED
        BY <1>1, <4>2 DEF Holds, HoldsOf, Unbound
    <3>2. CASE ~(x[2] = "director" /\ Ready(x[1]))
      BY <1>1, <2>1, <3>2 DEF Holds, HoldsOf
    <3> QED
      BY <3>1, <3>2
  <2>6. Calm'
    <3>1. ASSUME NEW s \in Steps PROVE /\ pc'[User(s)] = pc[User(s)]
                                       /\ ~Ready(s) => pc'[Director(s)] = pc[Director(s)]
      BY <2>1, Who
    <3> QED
      BY <1>1, <2>1, <3>1 DEF Calm, Types
  <2> QED
    BY <2>3, <2>4, <2>5, <2>6 DEF Shape, Holds
<1>3. CASE BatchEnds \/ CountPending \/ LoopExhausted \/ MergePlanResults \/ MarkPlanFinished
  <2>1. UNCHANGED <<rounds, step, runs, pc, on, attempt, drives, cancel, retrying, touches, byUser, proven>>
    BY <1>3 DEF BatchEnds, CountPending, LoopExhausted, MergePlanResults, MarkPlanFinished
  <2>2. plan' \in {"ready"} \cup Over /\ plan' # "delegating"
    BY <1>3 DEF BatchEnds, CountPending, LoopExhausted, MergePlanResults, MarkPlanFinished, Over
  <2>3. \A s \in Steps : pc[Director(s)] = "idle"
    BY <1>1, <1>3 DEF Calm, BatchEnds, CountPending, LoopExhausted, MergePlanResults, MarkPlanFinished, Director
  <2>4. Types' /\ Indexed'
    BY <1>1, <2>1, <2>2 DEF Types, Indexed
  <2>5. Holds'
    BY <1>1, <2>1 DEF Holds, HoldsOf
  <2>6. Calm'
    BY <1>1, <2>1, <2>3 DEF Calm
  <2> QED
    BY <2>4, <2>5, <2>6 DEF Shape
<1> QED
  BY <1>2, <1>3 DEF Loop

LEMMA UsersShape == ASSUME Shape, NEW s \in Steps, Users(s) PROVE Shape'
<1>1. Types /\ Indexed /\ Holds /\ Calm
  BY DEF Shape
<1>2. /\ step[s] \in Rows /\ cancel[s] \in Marks /\ step[s].sub \in Nat /\ cancel[s].sub \in Nat
      /\ step[s].status \in StepStatuses /\ Len(runs[s]) \in Nat
  BY <1>1 DEF Types, Rows, Marks
<1>3. ASSUME pc' = pc, on' = on, plan' = plan, retrying' \subseteq Steps,
             \A t \in retrying' : t \in retrying \/ pc[User(t)] = "idle",
             \A t \in Steps : Len(runs'[t]) = Len(runs[t])
      PROVE  Holds' /\ Calm'
  <2>1. ASSUME NEW x \in Executors PROVE HoldsOf(x)'
    BY <1>1, <1>3 DEF Holds, HoldsOf
  <2>2. Calm'
    BY <1>1, <1>3 DEF Calm
  <2> QED
    BY <2>1, <2>2 DEF Holds
<1>4. CASE CancelReads(s)
  <2> DEFINE m == [at |-> IF step[s].sub = 0 THEN "step" ELSE "run", sub |-> step[s].sub]
  <2>1. m \in Marks /\ m.sub = step[s].sub /\ (m.at \in {"run", "write"} => m.sub # 0)
    BY <1>2 DEF Marks
  <2>2. cancel' = [cancel EXCEPT ![s] = m] /\ touches' = touches + 1 /\ touches < MaxTouches /\ byUser' = TRUE
        /\ UNCHANGED <<plan, rounds, step, runs, pc, on, attempt, drives, retrying, proven>>
    BY <1>4 DEF CancelReads
  <2> HIDE DEF m
  <2>3. Types'
    BY <1>1, <2>1, <2>2, PlanAssumption DEF Types
  <2>4. Indexed'
    BY <1>1, <1>2, <2>1, <2>2 DEF Indexed, Types
  <2> QED
    BY <1>1, <1>3, <2>2, <2>3, <2>4 DEF Shape, Types
<1>5. CASE CancelReadsRun(s)
  <2> DEFINE at == IF runs[s][cancel[s].sub].status \in TerminalRun THEN "step" ELSE "write"
             m == [cancel[s] EXCEPT !.at = at]
  <2>1. m \in Marks /\ m.sub = cancel[s].sub /\ cancel[s].sub # 0
    BY <1>1, <1>2, <1>5 DEF Marks, Indexed, CancelReadsRun
  <2>2. cancel' = [cancel EXCEPT ![s] = m]
        /\ UNCHANGED <<plan, rounds, step, runs, pc, on, attempt, drives, retrying, touches, byUser, proven>>
    BY <1>5 DEF CancelReadsRun
  <2> HIDE DEF m
  <2>3. Types'
    BY <1>1, <2>1, <2>2 DEF Types
  <2>4. Indexed'
    BY <1>1, <1>2, <2>1, <2>2 DEF Indexed, Types
  <2> QED
    BY <1>1, <1>3, <2>2, <2>3, <2>4 DEF Shape, Types
<1>6. CASE CancelWritesRun(s)
  <2> DEFINE r == <<s, cancel[s].sub>>
             m == [cancel[s] EXCEPT !.at = "step"]
  <2>1. r[1] = s /\ r[2] = cancel[s].sub /\ r[2] \in 1 .. Len(runs[s])
    BY <1>1, <1>2, <1>6 DEF CancelWritesRun, Indexed
  <2>2. m \in Marks /\ m.sub = cancel[s].sub /\ m.at = "step"
    BY <1>2 DEF Marks
  <2>3. SetStatus(r, "CANCELLED") /\ cancel' = [cancel EXCEPT ![s] = m]
        /\ UNCHANGED <<plan, rounds, step, pc, on, attempt, drives, retrying, touches, byUser, proven>>
    BY <1>6 DEF CancelWritesRun
  <2> HIDE DEF r, m
  <2>4. runs' \in [Steps -> Seq(Runs)] /\ \A t \in Steps : Len(runs'[t]) = Len(runs[t])
    BY <1>1, <2>1, <2>3, StatusChanges DEF RunStatuses
  <2>5. Types'
    BY <1>1, <2>2, <2>3, <2>4 DEF Types
  <2>6. Indexed'
    BY <1>1, <1>2, <2>2, <2>3, <2>4 DEF Indexed, Types
  <2> QED
    BY <1>1, <1>3, <2>3, <2>4, <2>5, <2>6 DEF Shape, Types
<1>7. CASE CancelWritesStep(s)
  <2> DEFINE m == [at |-> "none", sub |-> 0]
             row == [step[s] EXCEPT !.status = "CANCELLED"]
  <2>1. m \in Marks /\ m.sub = 0 /\ m.at = "none"
    BY DEF Marks
  <2>2. row \in Rows /\ row.sub = step[s].sub
    BY <1>2 DEF Rows, StepStatuses
  <2>3. step' = [step EXCEPT ![s] = row] /\ cancel' = [cancel EXCEPT ![s] = m]
        /\ UNCHANGED <<plan, rounds, runs, pc, on, attempt, drives, retrying, touches, byUser, proven>>
    BY <1>7 DEF CancelWritesStep
  <2> HIDE DEF m, row
  <2>4. Types'
    BY <1>1, <2>1, <2>2, <2>3 DEF Types
  <2>5. Indexed'
    BY <1>1, <1>2, <2>1, <2>2, <2>3 DEF Indexed, Types
  <2> QED
    BY <1>1, <1>3, <2>3, <2>4, <2>5 DEF Shape, Types
<1>8. CASE RetryReads(s)
  <2>1. /\ retrying' = retrying \cup {s} /\ pc[User(s)] = "idle" /\ touches' = touches + 1 /\ touches < MaxTouches
        /\ byUser' = TRUE /\ UNCHANGED <<plan, rounds, step, runs, pc, on, attempt, drives, cancel, proven>>
    BY <1>8 DEF RetryReads, User
  <2>2. Types' /\ Indexed'
    BY <1>1, <2>1, PlanAssumption DEF Types, Indexed
  <2> QED
    BY <1>1, <1>3, <2>1, <2>2 DEF Shape, Types
<1>9. CASE RetryResets(s)
  <2> DEFINE row == [status |-> "PENDING", sub |-> 0]
  <2>1. row \in Rows /\ row.sub = 0
    BY DEF Rows, StepStatuses
  <2>2. /\ step' = [step EXCEPT ![s] = row] /\ s \in retrying /\ retrying' = retrying \ {s}
        /\ pc' = [pc EXCEPT ![User(s)] = "resolve"]
        /\ UNCHANGED <<plan, rounds, runs, on, attempt, drives, cancel, touches, byUser, proven>>
    BY <1>9 DEF RetryResets, User
  <2> HIDE DEF row
  <2>3. Types'
    BY <1>1, <2>1, <2>2 DEF Types, Places
  <2>4. Indexed'
    BY <1>1, <1>2, <2>1, <2>2 DEF Indexed, Types
  <2>5. User(s) \in Executors /\ \A x \in Executors : pc'[x] = IF x = User(s) THEN "resolve" ELSE pc[x]
    BY <1>1, <2>2, Who DEF Types
  <2>6. ASSUME NEW x \in Executors PROVE HoldsOf(x)'
    <3>1. CASE x = User(s)
      <4>1. pc[x] = "idle" /\ x # Cron
        BY <1>1, <2>2, <3>1, Who DEF Calm
      <4> QED
        BY <1>1, <2>2, <2>5, <3>1, <4>1 DEF Holds, HoldsOf, Unbound
    <3>2. CASE x # User(s)
      BY <1>1, <2>2, <2>5, <3>2 DEF Holds, HoldsOf
    <3> QED
      BY <3>1, <3>2
  <2>7. Calm'
    <3>1. ASSUME NEW t \in Steps PROVE Director(t) # User(s) /\ (t # s => User(t) # User(s))
      BY DEF Director, User
    <3>2. \A t \in Steps : Director(t) \in Executors /\ User(t) \in Executors
      BY Who
    <3>3. \A t \in Steps : pc'[Director(t)] = pc[Director(t)] /\ (t # s => pc'[User(t)] = pc[User(t)])
      BY <2>5, <3>1, <3>2
    <3>4. retrying \subseteq Steps /\ plan' = plan /\ retrying' = retrying \ {s}
      BY <1>1, <2>2 DEF Types
    <3> QED
      BY <1>1, <3>3, <3>4 DEF Calm
  <2> QED
    BY <2>3, <2>4, <2>6, <2>7 DEF Shape, Holds
<1> QED
  BY <1>4, <1>5, <1>6, <1>7, <1>8, <1>9 DEF Users

LEMMA DelegateShape == ASSUME Shape, NEW x \in Delegations, Delegate(x) PROVE Shape'
<1> DEFINE s == x[1]
<1>1. Types /\ Indexed /\ Holds /\ Calm /\ x \in Executors /\ s \in Steps /\ x # Cron
  BY Who DEF Shape
<1>2. /\ step[s] \in Rows /\ pc[x] \in Places /\ on[x] \in Nat \X Nat /\ HoldsOf(x)
      /\ \A t \in Steps : Len(runs[t]) \in Nat /\ runs[t] \in Seq(Runs)
      /\ NoRun \in Nat \X Nat /\ NoRun = <<0, 0>>
  BY <1>1 DEF Types, Holds, NoRun
<1>3. pc[x] # "idle" /\ plan' = plan /\ retrying' = retrying
  BY DEF Delegate, Refused, Resolved, CreateRun, Bind, DriveReads, ReadRun, Report, TerminalRun
<1> HIDE DEF s
<1>4. ASSUME NEW place \in Places, NEW r \in Nat \X Nat, Moves(x, place, r),
             \A t \in Steps : Len(runs[t]) <= Len(runs'[t]) /\ Len(runs'[t]) \in Nat,
             IF place \in Unbound THEN r = NoRun ELSE r[1] = s /\ r[2] \in 1 .. Len(runs'[s])
      PROVE  Holds' /\ Calm' /\ pc' \in [Executors -> Places] /\ on' \in [Executors -> Nat \X Nat]
  BY <1>1, <1>2, <1>3, <1>4, MoveFits DEF s
<1>5. CASE Refused(x) \/ Resolved(x) \/ Report(x)
  <2>1. PICK status \in StepStatuses : step' = [step EXCEPT ![s].status = status]
    BY <1>5 DEF Refused, Resolved, Report, TerminalRun, StepStatuses, s
  <2>2. /\ UNCHANGED <<plan, rounds, runs, cancel, retrying, touches, byUser, proven>>
        /\ attempt' = attempt \/ attempt' = [attempt EXCEPT ![x] = 0]
        /\ drives' = drives \/ drives' = [drives EXCEPT ![x] = 0]
    BY <1>5 DEF Refused, Resolved, Report
  <2>8. attempt' \in [Executors -> Attempts] /\ drives' \in [Delegations -> 0 .. MaxDrives - 1]
    <3>1. 0 \in Attempts /\ 0 \in 0 .. MaxDrives - 1
      BY PlanAssumption DEF Attempts
    <3>2. attempt' \in [Executors -> Attempts]
      BY <1>1, <2>2, <3>1 DEF Types
    <3>3. drives' \in [Delegations -> 0 .. MaxDrives - 1]
      BY <1>1, <2>2, <3>1 DEF Types
    <3> QED
      BY <3>2, <3>3
  <2>3. Indexed'
    BY <1>1, <2>1, <2>2, IndexedStays
  <2>4. step' \in [Steps -> Rows]
    <3>1. [step[s] EXCEPT !.status = status] \in Rows
      BY <1>2 DEF Rows
    <3> QED
      BY <1>1, <2>1, <3>1 DEF Types
  <2>5. PICK place \in {"idle", "create"} : /\ pc' = [pc EXCEPT ![x] = place]
                                            /\ on' = [on EXCEPT ![x] = NoRun]
    <3>1. CASE Refused(x) \/ Report(x)
      BY <3>1 DEF Refused, Report
    <3>2. CASE Resolved(x)
      <4>1. on[x] = NoRun /\ on' = on /\ pc' = [pc EXCEPT ![x] = "create"]
        BY <1>2, <3>2 DEF Resolved, HoldsOf, Unbound
      <4> QED
        BY <1>1, <4>1 DEF Types
    <3> QED
      BY <1>5, <3>1, <3>2
  <2>6. place \in Places /\ place \in Unbound
    BY DEF Places, Unbound
  <2>7. Holds' /\ Calm' /\ pc' \in [Executors -> Places] /\ on' \in [Executors -> Nat \X Nat]
    <3>1. Moves(x, place, NoRun)
      BY <2>5 DEF Moves
    <3> QED
      BY <1>2, <1>4, <2>2, <2>6, <3>1
  <2> QED
    BY <1>1, <2>2, <2>3, <2>4, <2>7, <2>8 DEF Shape, Types
<1>6. CASE CreateRun(x)
  <2> DEFINE new == [status |-> "QUEUED", attempt |-> 0]
             r == <<s, Len(runs[s]) + 1>>
  <2>1. new \in Runs
    BY PlanAssumption DEF Runs, RunStatuses, Attempts
  <2>2. /\ runs' = [runs EXCEPT ![s] = Append(runs[s], new)] /\ Len(runs[s]) < MaxRuns
        /\ on' = [on EXCEPT ![x] = r] /\ pc' = [pc EXCEPT ![x] = "bind"]
        /\ UNCHANGED <<plan, rounds, step, attempt, drives, cancel, retrying, touches, byUser, proven>>
    BY <1>6 DEF CreateRun, s
  <2>3. r \in Nat \X Nat /\ r[1] = s /\ r[2] = Len(runs[s]) + 1
    BY <1>1, <1>2, Who
  <2> HIDE DEF new, r
  <2>4. Append(runs[s], new) \in Seq(Runs) /\ Len(Append(runs[s], new)) = Len(runs[s]) + 1
    BY <1>1, <1>2, <2>1
  <2>5. /\ runs' \in [Steps -> Seq(Runs)]
        /\ \A t \in Steps : Len(runs'[t]) = IF t = s THEN Len(runs[t]) + 1 ELSE Len(runs[t])
    BY <1>1, <2>2, <2>4 DEF Types
  <2>6. Holds' /\ Calm' /\ pc' \in [Executors -> Places] /\ on' \in [Executors -> Nat \X Nat]
    <3>1. "bind" \in Places /\ "bind" \notin Unbound
      BY DEF Places, Unbound
    <3>2. r[2] \in 1 .. Len(runs'[s])
      BY <1>1, <1>2, <2>3, <2>5
    <3>3. Moves(x, "bind", r) /\ \A t \in Steps : Len(runs[t]) <= Len(runs'[t]) /\ Len(runs'[t]) \in Nat
      BY <1>2, <2>2, <2>5 DEF Moves
    <3> QED
      BY <1>4, <2>3, <3>1, <3>2, <3>3
  <2>7. Indexed'
    <3>1. \A t \in Steps : step[t].sub \in Nat /\ cancel[t].sub \in Nat
      BY <1>1 DEF Types, Rows, Marks
    <3> QED
      BY <1>1, <1>2, <2>2, <2>5, <3>1, PlanAssumption DEF Indexed
  <2> QED
    BY <1>1, <2>2, <2>5, <2>6, <2>7 DEF Shape, Types
<1>7. CASE Bind(x)
  <2> DEFINE row == [status |-> "RUNNING", sub |-> on[x][2]]
  <2>1. on[x][1] = s /\ on[x][2] \in 1 .. Len(runs[s])
    BY <1>1, <1>2, <1>7 DEF Bind, HoldsOf, Unbound, s
  <2>2. row \in Rows /\ row.sub = on[x][2]
    BY <2>1 DEF Rows, StepStatuses
  <2>3. /\ step' = [step EXCEPT ![s] = row] /\ pc' = [pc EXCEPT ![x] = "execute"]
        /\ UNCHANGED <<plan, rounds, runs, on, attempt, drives, cancel, retrying, touches, byUser, proven>>
    BY <1>7 DEF Bind, s
  <2> HIDE DEF row
  <2>4. Indexed'
    BY <1>1, <1>2, <2>1, <2>2, <2>3 DEF Indexed, Types
  <2>5. Holds' /\ Calm' /\ pc' \in [Executors -> Places] /\ on' \in [Executors -> Nat \X Nat]
    <3>1. "execute" \in Places /\ "execute" \notin Unbound
      BY DEF Places, Unbound
    <3>2. Moves(x, "execute", on[x])
      BY <1>1, <2>3 DEF Types, Moves
    <3> QED
      BY <1>2, <1>4, <2>1, <2>3, <3>1, <3>2
  <2> QED
    BY <1>1, <2>2, <2>3, <2>4, <2>5 DEF Shape, Types
<1>8. CASE DriveReads(x) \/ ReadRun(x)
  <2>1. on[x][1] = s /\ on[x][2] \in 1 .. Len(runs[s])
    BY <1>1, <1>2, <1>8 DEF DriveReads, ReadRun, HoldsOf, Unbound, TerminalRun, s
  <2>2. PICK place \in TerminalRun \cup {"execute", "read"} : pc' = [pc EXCEPT ![x] = place]
    BY <1>8 DEF DriveReads, ReadRun, TerminalRun
  <2>3. UNCHANGED <<plan, rounds, step, runs, on, attempt, cancel, retrying, touches, byUser, proven>>
    BY <1>8 DEF DriveReads, ReadRun
  <2>5. drives' \in [Delegations -> 0 .. MaxDrives - 1]
    <3>1. drives[x] \in 0 .. MaxDrives - 1 /\ 0 \in 0 .. MaxDrives - 1
          /\ (drives[x] + 1 < MaxDrives => drives[x] + 1 \in 0 .. MaxDrives - 1)
      BY <1>1, PlanAssumption DEF Types
    <3>2. CASE DriveReads(x)
      <4> DEFINE again == RunOf(on[x]).status \notin TerminalRun /\ drives[x] + 1 < MaxDrives
                 n == IF again THEN drives[x] + 1 ELSE 0
      <4>1. drives' = [drives EXCEPT ![x] = n] /\ n \in 0 .. MaxDrives - 1
        BY <3>1, <3>2 DEF DriveReads
      <4> HIDE DEF n
      <4> QED
        BY <1>1, <4>1 DEF Types
    <3>3. CASE ReadRun(x)
      BY <1>1, <3>3 DEF ReadRun, Types
    <3> QED
      BY <1>8, <3>2, <3>3
  <2>4. Holds' /\ Calm' /\ pc' \in [Executors -> Places] /\ on' \in [Executors -> Nat \X Nat]
    <3>1. place \in Places /\ place \notin Unbound
      BY <2>2 DEF Places, Unbound, TerminalRun
    <3>2. Moves(x, place, on[x])
      BY <1>1, <2>2, <2>3 DEF Types, Moves
    <3> QED
      BY <1>2, <1>4, <2>1, <2>3, <3>1, <3>2
  <2> QED
    BY <1>1, <2>3, <2>4, <2>5 DEF Shape, Types, Indexed
<1> QED
  BY <1>5, <1>6, <1>7, <1>8 DEF Delegate

LEMMA WorkShape == ASSUME Shape, NEW x \in Executors, Work(x) PROVE Shape'
<1> DEFINE i == on[x][1]
           k == on[x][2]
<1>1. Types /\ Indexed /\ Holds /\ Calm
  BY DEF Shape
<1>2. /\ pc[x] \in {"execute", "running", "after"}
      /\ UNCHANGED <<plan, rounds, step, drives, cancel, retrying, touches, byUser>>
      /\ proven' = proven \/ proven' = proven \cup {i}
  BY DEF Work, Execute, Answers, AfterSuccess, Fails
<1>3. /\ pc[x] \notin Unbound /\ pc[x] # "idle" /\ HoldsOf(x)
      /\ i \in Steps /\ k \in 1 .. Len(runs[i]) /\ (x \in Delegations => i = x[1])
      /\ on[x] \in Nat \X Nat /\ on = [on EXCEPT ![x] = on[x]] /\ NoRun \in Nat \X Nat
      /\ \A t \in Steps : Len(runs[t]) \in Nat
  BY <1>1, <1>2 DEF Holds, HoldsOf, Unbound, Types, NoRun
<1> HIDE DEF i, k
<1>4. ASSUME NEW place \in {"idle", "running", "after", "drive"}, NEW r \in Nat \X Nat, NEW n \in Attempts,
             Moves(x, place, r),
             IF place = "idle" THEN r = NoRun ELSE r = on[x],
             x = Cron => place # "drive",
             attempt' = attempt \/ attempt' = [attempt EXCEPT ![x] = n],
             runs' \in [Steps -> Seq(Runs)], \A t \in Steps : Len(runs'[t]) = Len(runs[t])
      PROVE  Shape'
  <2>1. place \in Places /\ (place \in Unbound <=> place = "idle")
    BY DEF Places, Unbound
  <2>2. /\ place \in Unbound => r = NoRun
        /\ place \notin Unbound => r[1] \in Steps /\ r[2] \in 1 .. Len(runs'[r[1]])
        /\ x \in Delegations /\ place \notin Unbound => r[1] = x[1]
        /\ x = Cron => place \in {"idle", "execute", "running", "after"}
        /\ \A t \in Steps : Len(runs[t]) <= Len(runs'[t]) /\ Len(runs[t]) \in Nat /\ Len(runs'[t]) \in Nat
        /\ plan' = plan /\ retrying' = retrying
    BY <1>2, <1>3, <1>4, <2>1 DEF i, k
  <2>4. Holds' /\ Calm' /\ pc' \in [Executors -> Places] /\ on' \in [Executors -> Nat \X Nat]
    BY <1>3, <1>4, <2>1, <2>2, MoveFits
  <2>3. Indexed'
    BY <1>1, <1>2, <1>4 DEF Indexed
  <2>5. attempt' \in [Executors -> Attempts]
    BY <1>1, <1>4 DEF Types
  <2>6. proven' \subseteq Steps
    BY <1>1, <1>2, <1>3 DEF Types
  <2>7. Types'
    BY <1>1, <1>2, <1>4, <2>4, <2>5, <2>6 DEF Types
  <2> QED
    BY <2>3, <2>4, <2>7 DEF Shape
<1>5. 0 \in Attempts
  BY PlanAssumption DEF Attempts
<1>6. ASSUME Return(x), runs' \in [Steps -> Seq(Runs)], \A t \in Steps : Len(runs'[t]) = Len(runs[t])
      PROVE  Shape'
  <2>1. CASE x = Cron
    <3>1. Moves(x, "idle", NoRun) /\ attempt' = [attempt EXCEPT ![x] = 0]
      BY <1>6, <2>1 DEF Return, Moves
    <3> QED
      BY <1>3, <1>4, <1>5, <1>6, <3>1
  <2>2. CASE x # Cron
    <3>1. Moves(x, "drive", on[x]) /\ attempt' = [attempt EXCEPT ![x] = 0]
      BY <1>3, <1>6, <2>2 DEF Return, Moves
    <3> QED
      BY <1>3, <1>4, <1>5, <1>6, <2>2, <3>1
  <2> QED
    BY <2>1, <2>2
<1>7. CASE Execute(x)
  <2> DEFINE n == IF RunOf(on[x]).attempt > MaxAttempts THEN RunOf(on[x]).attempt
                                                        ELSE RunOf(on[x]).attempt + 1
             new == [status |-> "RUNNING", attempt |-> n]
  <2>1. RunOf(on[x]) \in Runs
    BY <1>1, <1>3 DEF RunOf, Types, i, k
  <2>2. n \in Attempts /\ new \in Runs
    BY <2>1, PlanAssumption DEF Runs, RunStatuses, Attempts
  <2>3. /\ Rewritten(i, k, new) /\ attempt' = [attempt EXCEPT ![x] = n]
        /\ Moves(x, "running", on[x])
    BY <1>3, <1>7 DEF Execute, Rewritten, Moves, i, k
  <2> HIDE DEF n, new
  <2>4. runs' \in [Steps -> Seq(Runs)] /\ \A t \in Steps : Len(runs'[t]) = Len(runs[t])
    BY <1>1, <1>3, <2>2, <2>3, RunChanges
  <2> QED
    BY <1>3, <1>4, <2>2, <2>3, <2>4
<1>8. ASSUME NEW st \in RunStatuses, SetStatus(on[x], st)
      PROVE  runs' \in [Steps -> Seq(Runs)] /\ \A t \in Steps : Len(runs'[t]) = Len(runs[t])
  BY <1>1, <1>3, <1>8, StatusChanges DEF i, k
<1>9. CASE Answers(x)
  <2>1. SetStatus(on[x], "SUCCEEDED") /\ Moves(x, "after", on[x]) /\ attempt' = attempt
    BY <1>3, <1>9 DEF Answers, Moves
  <2>2. "SUCCEEDED" \in RunStatuses
    BY DEF RunStatuses
  <2> QED
    BY <1>3, <1>4, <1>5, <1>8, <2>1, <2>2
<1>10. CASE AfterSuccess(x)
  BY <1>1, <1>6, <1>10 DEF AfterSuccess, Types
<1>11. CASE Fails(x)
  <2>1. PICK st \in {"QUEUED", "FAILED"} : SetStatus(on[x], st)
    BY <1>11 DEF Fails, AfterFailure
  <2>2. st \in RunStatuses /\ Return(x)
    BY <1>11 DEF RunStatuses, Fails
  <2> QED
    BY <1>6, <1>8, <2>1, <2>2
<1> QED
  BY <1>7, <1>9, <1>10, <1>11 DEF Work

LEMMA CronShape == ASSUME Shape, CronPicks PROVE Shape'
<1>1. Types /\ Indexed /\ Holds /\ Calm
  BY DEF Shape
<1>2. PICK s \in Steps : \E n \in 1 .. Len(runs[s]) : on' = [on EXCEPT ![Cron] = <<s, n>>]
  BY DEF CronPicks
<1>3. PICK k \in 1 .. Len(runs[s]) : on' = [on EXCEPT ![Cron] = <<s, k>>]
  BY <1>2
<1>4. /\ pc' = [pc EXCEPT ![Cron] = "execute"] /\ touches < MaxTouches /\ touches' = touches + 1
      /\ UNCHANGED <<plan, rounds, step, runs, attempt, drives, cancel, retrying, byUser, proven>>
  BY DEF CronPicks
<1> DEFINE r == <<s, k>>
<1>5. r \in Nat \X Nat /\ r[1] = s /\ r[2] = k
  BY Who
<1>6. "execute" \in Places /\ "execute" \notin Unbound
  BY DEF Places, Unbound
<1>7. \A t \in Steps : Len(runs[t]) \in Nat
  BY <1>1 DEF Types
<1> HIDE DEF r
<1>8. Holds' /\ Calm' /\ pc' \in [Executors -> Places] /\ on' \in [Executors -> Nat \X Nat]
  <2>1. Moves(Cron, "execute", r)
    BY <1>3, <1>4 DEF r, Moves
  <2> QED
    BY <1>4, <1>5, <1>6, <1>7, <2>1, Who, MoveFits
<1> QED
  BY <1>1, <1>4, <1>8, PlanAssumption DEF Shape, Types, Indexed

LEMMA ShapeStep == ASSUME Shape, [Next]_vars PROVE Shape'
<1>1. CASE Next
  BY <1>1, LoopShape, CronShape, WorkShape, DelegateShape, UsersShape DEF Next
<1>2. CASE UNCHANGED vars
  <2>1. Types' /\ Indexed' /\ Calm'
    BY <1>2 DEF vars, Shape, Types, Indexed, Calm
  <2>2. Holds'
    BY <1>2 DEF vars, Shape, Holds, HoldsOf
  <2> QED
    BY <2>1, <2>2 DEF Shape
<1> QED
  BY <1>1, <1>2

LEMMA ShapeInit == Init => Shape
<1> SUFFICES ASSUME Init PROVE Shape
  OBVIOUS
<1>1. Types
  <2>1. [status |-> "PENDING", sub |-> 0] \in Rows /\ [at |-> "none", sub |-> 0] \in Marks
    BY DEF Rows, StepStatuses, Marks
  <2>2. <<>> \in Seq(Runs) /\ NoRun \in Nat \X Nat /\ 0 \in Attempts
    BY PlanAssumption DEF NoRun, Attempts
  <2>4. 0 \in 0 .. MaxDrives - 1
    BY PlanAssumption
  <2>3. "idle" \in Places /\ 0 \in 0 .. MaxIterations /\ 0 \in 0 .. MaxTouches
    BY PlanAssumption DEF Places
  <2> QED
    BY <2>1, <2>2, <2>3, <2>4 DEF Init, Types
<1>2. Indexed /\ Calm
  BY Who, PlanAssumption DEF Init, Indexed, Calm
<1>3. Holds
  BY DEF Init, Holds, HoldsOf, Unbound
<1> QED
  BY <1>1, <1>2, <1>3 DEF Shape

\* TypeOK, for every plan: no index names a run that is not there, and an
\* executor has a run in hand exactly where its code has one.
THEOREM TypeCorrect == Spec => []TypeOK
<1>1. Shape => TypeOK
  <2> SUFFICES ASSUME Shape PROVE TypeOK
    OBVIOUS
  <2>1. \A s \in Steps : /\ step[s].status \in StepStatuses /\ step[s].sub \in 0 .. Len(runs[s])
                         /\ cancel[s].at \in {"none", "run", "write", "step"} /\ cancel[s].sub \in 0 .. Len(runs[s])
                         /\ Len(runs[s]) <= MaxRuns
    BY DEF Shape, Types, Indexed, Rows, Marks
  <2>2. \A s \in Steps : \A k \in 1 .. Len(runs[s]) : /\ runs[s][k].status \in RunStatuses
                                                      /\ runs[s][k].attempt \in 0 .. MaxAttempts + 1
    <3>1. \A s \in Steps : \A k \in 1 .. Len(runs[s]) : runs[s][k] \in Runs
      BY DEF Shape, Types
    <3> QED
      BY <3>1 DEF Runs, Attempts
  <2>3. ASSUME NEW x \in Executors
        PROVE  /\ pc[x] \in Places /\ attempt[x] \in 0 .. MaxAttempts + 1
               /\ on[x] # NoRun <=> pc[x] \notin Unbound
               /\ on[x] # NoRun => on[x][1] \in Steps /\ on[x][2] \in 1 .. Len(runs[on[x][1]])
    <3>1. NoRun[1] \notin Steps
      BY Who DEF NoRun
    <3> QED
      BY <3>1 DEF Shape, Types, Holds, HoldsOf, Attempts
  <2> QED
    BY <2>1, <2>2, <2>3 DEF Shape, Types, TypeOK, Places, Unbound, Over
<1> QED
  BY <1>1, ShapeInit, ShapeStep, PTL DEF Spec

----------------------------------------------------------------------------
(* What a step of a delegation, or of an executor at work on a run, may do   *)

OnlyMove(x) == \A y \in Executors \ {x} : pc'[y] = pc[y]

LEMMA DelegateEffect ==
  ASSUME Shape, NEW x \in Delegations, Delegate(x)
  PROVE  /\ pc[x] # "idle" /\ OnlyMove(x) /\ x[1] \in Steps
         /\ \A t \in Steps \ {x[1]} : step'[t] = step[t]
         /\ \/ pc'[x] = "idle" /\ step'[x[1]].status = "FAILED"
            \/ pc'[x] = "create" /\ step'[x[1]].status = "DELEGATED"
            \/ pc'[x] = "bind" /\ step'[x[1]] = step[x[1]]
            \/ pc'[x] = "execute" /\ step'[x[1]].status = "RUNNING"
            \/ pc'[x] \in {"execute", "read", "FAILED"} /\ step'[x[1]] = step[x[1]]
            \/ /\ pc'[x] \in TerminalRun /\ step'[x[1]] = step[x[1]]
               /\ \E k \in 1 .. Len(runs[x[1]]) : runs[x[1]][k].status = pc'[x]
            \/ pc'[x] = "idle" /\ pc[x] \in TerminalRun /\ step'[x[1]].status = pc[x]
         /\ \A t \in Steps : \A k \in 1 .. Len(runs'[t]) :
              \/ k \in 1 .. Len(runs[t]) /\ runs'[t][k].status = runs[t][k].status
              \/ runs'[t][k].status = "QUEUED"
         /\ UNCHANGED <<plan, rounds, cancel, retrying, byUser, proven>>
<1> DEFINE s == x[1]
<1>1. /\ x \in Executors /\ s \in Steps /\ step[s] \in Rows /\ HoldsOf(x)
      /\ pc = [y \in Executors |-> pc[y]] /\ step = [t \in Steps |-> step[t]]
      /\ runs \in [Steps -> Seq(Runs)]
  BY Who DEF Shape, Types, Holds
<1> HIDE DEF s
<1>2. ASSUME NEW status, step' = [step EXCEPT ![s].status = status]
      PROVE  step'[s].status = status /\ \A t \in Steps \ {s} : step'[t] = step[t]
  BY <1>1, <1>2 DEF Rows
<1>3. ASSUME NEW place, pc' = [pc EXCEPT ![x] = place]
      PROVE  pc'[x] = place /\ OnlyMove(x)
  BY <1>1, <1>3 DEF OnlyMove
<1>4. runs' = runs => \A t \in Steps : \A k \in 1 .. Len(runs'[t]) :
                        k \in 1 .. Len(runs[t]) /\ runs'[t][k].status = runs[t][k].status
  OBVIOUS
<1>5. CASE Refused(x)
  <2>1. /\ step' = [step EXCEPT ![s].status = "FAILED"] /\ pc' = [pc EXCEPT ![x] = "idle"] /\ pc[x] # "idle"
        /\ UNCHANGED <<plan, rounds, runs, cancel, retrying, byUser, proven>>
    BY <1>5 DEF Refused, s
  <2> QED
    BY <1>1, <1>2, <1>3, <1>4, <2>1 DEF s
<1>6. CASE Resolved(x)
  <2>1. /\ step' = [step EXCEPT ![s].status = "DELEGATED"] /\ pc' = [pc EXCEPT ![x] = "create"] /\ pc[x] # "idle"
        /\ UNCHANGED <<plan, rounds, runs, cancel, retrying, byUser, proven>>
    BY <1>6 DEF Resolved, s
  <2> QED
    BY <1>1, <1>2, <1>3, <1>4, <2>1 DEF s
<1>7. CASE CreateRun(x)
  <2> DEFINE new == [status |-> "QUEUED", attempt |-> 0]
  <2>1. /\ runs' = [runs EXCEPT ![s] = Append(runs[s], new)]
        /\ pc' = [pc EXCEPT ![x] = "bind"] /\ pc[x] # "idle"
        /\ UNCHANGED <<plan, rounds, step, cancel, retrying, byUser, proven>>
    BY <1>7 DEF CreateRun, s
  <2>2. new.status = "QUEUED" /\ new \in Runs
    BY PlanAssumption DEF Runs, RunStatuses, Attempts
  <2> HIDE DEF new
  <2>3. \A t \in Steps : \A k \in 1 .. Len(runs'[t]) :
          \/ k \in 1 .. Len(runs[t]) /\ runs'[t][k] = runs[t][k]
          \/ runs'[t][k] = new
    <3>1. Len(Append(runs[s], new)) = Len(runs[s]) + 1
          /\ \A k \in 1 .. Len(runs[s]) + 1 :
               Append(runs[s], new)[k] = IF k \in 1 .. Len(runs[s]) THEN runs[s][k] ELSE new
      BY <1>1, <2>2
    <3> QED
      BY <1>1, <2>1, <3>1
  <2> QED
    BY <1>1, <1>3, <2>1, <2>2, <2>3 DEF s
<1>8. CASE Bind(x)
  <2>1. /\ step' = [step EXCEPT ![s] = [status |-> "RUNNING", sub |-> on[x][2]]]
        /\ pc' = [pc EXCEPT ![x] = "execute"] /\ pc[x] # "idle"
        /\ UNCHANGED <<plan, rounds, runs, cancel, retrying, byUser, proven>>
    BY <1>8 DEF Bind, s
  <2>2. step'[s].status = "RUNNING" /\ \A t \in Steps \ {s} : step'[t] = step[t]
    BY <1>1, <2>1
  <2> QED
    BY <1>1, <1>3, <1>4, <2>1, <2>2 DEF s
<1>9. CASE DriveReads(x)
  <2>1. PICK place \in {"execute", "read"} : /\ pc' = [pc EXCEPT ![x] = place]
                                             /\ UNCHANGED <<plan, rounds, step, runs, cancel, retrying, byUser, proven>>
    BY <1>9 DEF DriveReads
  <2>2. pc'[x] = place /\ OnlyMove(x) /\ pc[x] # "idle"
    BY <1>3, <1>9, <2>1 DEF DriveReads
  <2> QED
    BY <1>1, <1>4, <2>1, <2>2 DEF s
<1>11. CASE ReadRun(x)
  <2> DEFINE status == RunOf(on[x]).status
             place == IF status \in TerminalRun THEN status ELSE "FAILED"
  <2>1. /\ pc' = [pc EXCEPT ![x] = place] /\ pc[x] = "read"
        /\ UNCHANGED <<plan, rounds, step, runs, cancel, retrying, byUser, proven>>
    BY <1>11 DEF ReadRun
  <2>2. on[x][1] = s /\ on[x][2] \in 1 .. Len(runs[s])
    BY <1>1, <2>1 DEF HoldsOf, Unbound, s
  <2>3. runs[s][on[x][2]].status = status
    BY <2>2 DEF RunOf
  <2>4. place = "FAILED" \/ (place \in TerminalRun /\ place = status)
    OBVIOUS
  <2> HIDE DEF status, place
  <2>5. pc'[x] = place /\ OnlyMove(x)
    BY <1>3, <2>1
  <2> QED
    BY <1>1, <1>4, <2>1, <2>2, <2>3, <2>4, <2>5 DEF s
<1>10. CASE Report(x)
  <2>1. /\ step' = [step EXCEPT ![s].status = pc[x]] /\ pc' = [pc EXCEPT ![x] = "idle"] /\ pc[x] \in TerminalRun
        /\ UNCHANGED <<plan, rounds, runs, cancel, retrying, byUser, proven>>
    BY <1>10 DEF Report, s
  <2>2. pc[x] # "idle"
    BY <2>1 DEF TerminalRun
  <2> QED
    BY <1>1, <1>2, <1>3, <1>4, <2>1, <2>2 DEF s
<1> QED
  BY <1>5, <1>6, <1>7, <1>8, <1>9, <1>10, <1>11 DEF Delegate

LEMMA WorkEffect ==
  ASSUME Shape, NEW x \in Executors, Work(x)
  PROVE  /\ OnlyMove(x) /\ pc[x] # "idle" /\ pc'[x] \notin TerminalRun
         /\ x \in Delegations => pc'[x] # "idle"
         /\ \A t \in Steps : \A k \in 1 .. Len(runs'[t]) :
              \/ k \in 1 .. Len(runs[t]) /\ runs'[t][k].status = runs[t][k].status
              \/ runs'[t][k].status \in {"QUEUED", "RUNNING", "FAILED"}
              \/ runs'[t][k].status = "SUCCEEDED" /\ t \in proven'
         /\ proven \subseteq proven'
         /\ UNCHANGED <<plan, rounds, step, cancel, retrying, byUser>>
<1> DEFINE i == on[x][1]
           k == on[x][2]
<1>1. /\ pc[x] \in {"execute", "running", "after"}
      /\ UNCHANGED <<plan, rounds, step, cancel, retrying, byUser>>
  BY DEF Work, Execute, Answers, AfterSuccess, Fails
<1>2. i \in Steps /\ k \in 1 .. Len(runs[i]) /\ Types
  BY <1>1 DEF Shape, Holds, HoldsOf, Unbound
<1> HIDE DEF i, k
<1>3. /\ OnlyMove(x) /\ pc'[x] \in {"idle", "running", "after", "drive"}
      /\ x \in Delegations => pc'[x] # "idle"
  <2>1. ASSUME NEW place, pc' = [pc EXCEPT ![x] = place] PROVE pc'[x] = place /\ OnlyMove(x)
    BY <1>2, <2>1 DEF Types, OnlyMove
  <2>2. CASE Execute(x) \/ Answers(x)
    BY <2>1, <2>2 DEF Execute, Answers
  <2>3. CASE AfterSuccess(x) \/ Fails(x)
    <3> DEFINE place == IF x = Cron THEN "idle" ELSE "drive"
    <3>1. pc' = [pc EXCEPT ![x] = place]
      BY <2>3 DEF AfterSuccess, Fails, Return
    <3>2. place \in {"idle", "drive"} /\ (x \in Delegations => place # "idle")
      BY Who
    <3> HIDE DEF place
    <3> QED
      BY <2>1, <3>1, <3>2
  <2> QED
    BY <2>2, <2>3 DEF Work
<1>4. /\ \A t \in Steps : \A n \in 1 .. Len(runs'[t]) :
           \/ n \in 1 .. Len(runs[t]) /\ runs'[t][n].status = runs[t][n].status
           \/ runs'[t][n].status \in {"QUEUED", "RUNNING", "FAILED"}
           \/ runs'[t][n].status = "SUCCEEDED" /\ t \in proven'
      /\ proven \subseteq proven'
  <2>1. CASE Execute(x)
    <3>1. PICK n \in Attempts : Rewritten(i, k, [status |-> "RUNNING", attempt |-> n])
      <4> DEFINE n == IF RunOf(on[x]).attempt > MaxAttempts THEN RunOf(on[x]).attempt
                                                            ELSE RunOf(on[x]).attempt + 1
      <4>1. RunOf(on[x]) \in Runs
        BY <1>2 DEF RunOf, Types, i, k
      <4>2. n \in Attempts
        BY <4>1, PlanAssumption DEF Runs, Attempts
      <4> QED
        BY <2>1, <4>2 DEF Execute, Rewritten, i, k
    <3> DEFINE new == [status |-> "RUNNING", attempt |-> n]
    <3>2. new \in Runs /\ new.status = "RUNNING" /\ Rewritten(i, k, new)
      BY <3>1 DEF Runs, RunStatuses
    <3> HIDE DEF new
    <3>3. \A t \in Steps : /\ Len(runs'[t]) = Len(runs[t])
                           /\ \A m \in 1 .. Len(runs[t]) : runs'[t][m] = IF t = i /\ m = k THEN new ELSE runs[t][m]
      BY <1>2, <3>2, RunChanges
    <3> QED
      BY <2>1, <3>2, <3>3 DEF Execute
  <2>2. ASSUME NEW st \in {"QUEUED", "FAILED", "SUCCEEDED"}, SetStatus(on[x], st)
        PROVE  \A t \in Steps : \A n \in 1 .. Len(runs'[t]) :
                 n \in 1 .. Len(runs[t]) /\ runs'[t][n].status = IF t = i /\ n = k THEN st ELSE runs[t][n].status
    BY <1>2, <2>2, StatusChanges DEF RunStatuses, i, k
  <2>3. CASE Answers(x)
    <3>1. SetStatus(on[x], "SUCCEEDED") /\ proven' = proven \cup {i}
      BY <2>3 DEF Answers, i
    <3> QED
      BY <2>2, <3>1
  <2>4. CASE AfterSuccess(x)
    BY <2>4 DEF AfterSuccess
  <2>5. CASE Fails(x)
    <3>1. PICK st \in {"QUEUED", "FAILED"} : SetStatus(on[x], st)
      BY <2>5 DEF Fails, AfterFailure
    <3>2. proven' = proven
      BY <2>5 DEF Fails
    <3> QED
      BY <2>2, <3>1, <3>2
  <2> QED
    BY <2>1, <2>3, <2>4, <2>5 DEF Work
<1> QED
  BY <1>1, <1>3, <1>4 DEF TerminalRun

----------------------------------------------------------------------------
(* DeliveredFirst *)

\* No run is shown as SUCCEEDED but for an agent that delivered the step.
RunsDelivered == \A s \in Steps : \A k \in 1 .. Len(runs[s]) : runs[s][k].status = "SUCCEEDED" => s \in proven

LEMMA CancelEffect ==
  ASSUME Shape, NEW s \in Steps, CancelWritesRun(s)
  PROVE  \A t \in Steps : \A n \in 1 .. Len(runs'[t]) :
           n \in 1 .. Len(runs[t]) /\ (runs'[t][n].status = runs[t][n].status \/ runs'[t][n].status = "CANCELLED")
<1>1. SetStatus(<<s, cancel[s].sub>>, "CANCELLED") /\ cancel[s].at = "write"
  BY DEF CancelWritesRun
<1>2. cancel[s].sub \in 1 .. Len(runs[s]) /\ Types
  BY <1>1 DEF Shape, Types, Marks, Indexed
<1> DEFINE r == <<s, cancel[s].sub>>
<1>3. r[1] = s /\ r[2] = cancel[s].sub /\ SetStatus(r, "CANCELLED") /\ "CANCELLED" \in RunStatuses
  BY <1>1 DEF RunStatuses
<1> HIDE DEF r
<1>4. /\ \A t \in Steps : Len(runs'[t]) = Len(runs[t])
      /\ \A t \in Steps : \A n \in 1 .. Len(runs[t]) :
           runs'[t][n].status = IF t = r[1] /\ n = r[2] THEN "CANCELLED" ELSE runs[t][n].status
  BY <1>2, <1>3, StatusChanges
<1> QED
  BY <1>4

LEMMA RunsDeliveredStep ==
  ASSUME Shape, RunsDelivered, [Next]_vars PROVE RunsDelivered' /\ proven \subseteq proven'
<1> USE DEF RunsDelivered
<1>1. CASE runs' = runs /\ proven' = proven
  BY <1>1
<1>2. ASSUME NEW x \in Executors, Work(x) PROVE RunsDelivered' /\ proven \subseteq proven'
  BY <1>2, WorkEffect
<1>3. ASSUME NEW x \in Delegations, Delegate(x) PROVE RunsDelivered' /\ proven \subseteq proven'
  BY <1>3, DelegateEffect
<1>4. ASSUME NEW s \in Steps, CancelWritesRun(s) PROVE RunsDelivered' /\ proven \subseteq proven'
  <2>1. proven' = proven
    BY <1>4 DEF CancelWritesRun
  <2> QED
    BY <1>4, <2>1, CancelEffect
<1>5. ASSUME NEW s \in Steps, Users(s) PROVE CancelWritesRun(s) \/ (runs' = runs /\ proven' = proven)
  BY <1>5 DEF Users, CancelReads, CancelReadsRun, CancelWritesStep, RetryReads, RetryResets
<1>6. ASSUME Loop \/ CronPicks \/ UNCHANGED vars PROVE runs' = runs /\ proven' = proven
  BY <1>6 DEF Loop, GetReadySteps, BatchEnds, CountPending, LoopExhausted, MergePlanResults, MarkPlanFinished, CronPicks, vars
<1> QED
  BY <1>1, <1>2, <1>3, <1>4, <1>5, <1>6 DEF Next

LEMMA DeliveryStep == ASSUME Shape, Delivery, [Next]_vars PROVE Delivery'
<1>1. RunsDelivered' /\ proven \subseteq proven'
  BY RunsDeliveredStep DEF Delivery, RunsDelivered
<1>2. ASSUME NEW x \in Delegations, Delegate(x) PROVE Delivery'
  <2>1. x[1] \in Steps /\ OnlyMove(x) /\ pc[x] # "idle"
    BY <1>2, DelegateEffect
  <2>2. ASSUME NEW s \in Steps, pc'[Director(s)] # "idle" PROVE DependsOn[s] \subseteq proven'
    <3>1. pc[Director(s)] # "idle"
      BY <2>1, <2>2, Who DEF OnlyMove
    <3> QED
      BY <1>1, <3>1 DEF Delivery
  <2>3. ASSUME NEW s \in Steps, step'[s].status = "SUCCEEDED" PROVE s \in proven'
    <3>1. CASE s # x[1]
      BY <1>1, <1>2, <2>3, <3>1, DelegateEffect DEF Delivery
    <3>2. CASE s = x[1]
      BY <1>1, <1>2, <2>3, <3>2, DelegateEffect DEF Delivery
    <3> QED
      BY <3>1, <3>2
  <2>4. ASSUME NEW y \in Delegations, pc'[y] = "SUCCEEDED" PROVE y[1] \in proven'
    <3>1. CASE y # x
      BY <1>1, <2>1, <2>4, <3>1, Who DEF Delivery, OnlyMove
    <3>2. CASE y = x
      BY <1>1, <1>2, <2>4, <3>2, DelegateEffect DEF Delivery
    <3> QED
      BY <3>1, <3>2
  <2> QED
    BY <1>1, <2>2, <2>3, <2>4 DEF Delivery, RunsDelivered
<1>3. ASSUME step' = step \/ \E s \in Steps : /\ step'[s].status # "SUCCEEDED"
                                              /\ \A t \in Steps \ {s} : step'[t] = step[t],
             \A y \in Delegations : /\ pc'[y] = "SUCCEEDED" => pc[y] = "SUCCEEDED"
                                    /\ y[2] = "director" /\ pc'[y] # "idle" => pc[y] # "idle"
      PROVE  Delivery'
  <2>1. \A s \in Steps : step'[s].status = "SUCCEEDED" => step[s].status = "SUCCEEDED"
    BY <1>3
  <2> QED
    BY <1>1, <1>3, <2>1, Who DEF Delivery, RunsDelivered
<1>4. ASSUME NEW x \in Executors, Work(x) PROVE Delivery'
  <2>1. step' = step /\ OnlyMove(x) /\ pc[x] # "idle" /\ pc'[x] # "SUCCEEDED"
    BY <1>4, WorkEffect DEF TerminalRun
  <2> QED
    BY <1>3, <2>1, Who DEF OnlyMove
<1>5. CASE CronPicks
  <2>1. step' = step /\ \A y \in Delegations : pc'[y] = pc[y]
    BY <1>5, Who DEF CronPicks, Shape, Types
  <2> QED
    BY <1>3, <2>1
<1>6. ASSUME NEW s \in Steps, Users(s) PROVE Delivery'
  <2>1. CASE CancelReads(s) \/ CancelReadsRun(s) \/ CancelWritesRun(s) \/ RetryReads(s)
    BY <1>3, <2>1 DEF CancelReads, CancelReadsRun, CancelWritesRun, RetryReads
  <2>2. CASE CancelWritesStep(s)
    <3>1. step' = [step EXCEPT ![s].status = "CANCELLED"] /\ pc' = pc
      BY <2>2 DEF CancelWritesStep
    <3>2. step'[s].status = "CANCELLED" /\ \A t \in Steps \ {s} : step'[t] = step[t]
      BY <3>1 DEF Shape, Types, Rows
    <3> QED
      BY <1>3, <3>1, <3>2
  <2>3. CASE RetryResets(s)
    <3>1. step' = [step EXCEPT ![s] = [status |-> "PENDING", sub |-> 0]] /\ pc' = [pc EXCEPT ![User(s)] = "resolve"]
      BY <2>3 DEF RetryResets, User
    <3>2. step'[s].status = "PENDING" /\ \A t \in Steps \ {s} : step'[t] = step[t]
      BY <3>1 DEF Shape, Types
    <3>3. \A y \in Delegations : pc'[y] = IF y = User(s) THEN "resolve" ELSE pc[y]
      BY <3>1, Who DEF Shape, Types
    <3> QED
      BY <1>3, <3>2, <3>3, Who
  <2> QED
    BY <1>6, <2>1, <2>2, <2>3 DEF Users
<1>7. CASE GetReadySteps
  <2>1. /\ \A s \in Steps : step'[s] = IF Blocked(s) THEN [step[s] EXCEPT !.status = "SKIPPED"] ELSE step[s]
        /\ \A x \in Executors : pc'[x] = IF x[2] = "director" /\ Ready(x[1]) THEN "resolve" ELSE pc[x]
    BY <1>7 DEF GetReadySteps
  <2>2. ASSUME NEW s \in Steps, pc'[Director(s)] # "idle" PROVE DependsOn[s] \subseteq proven'
    <3>1. CASE Ready(s)
      <4>1. DependsOn[s] \subseteq Steps
        BY PlanAssumption
      <4> QED
        BY <1>1, <3>1, <4>1 DEF Ready, Delivery
    <3>2. CASE ~Ready(s)
      BY <1>1, <2>1, <2>2, <3>2, Who DEF Delivery
    <3> QED
      BY <3>1, <3>2
  <2>3. ASSUME NEW s \in Steps, step'[s].status = "SUCCEEDED" PROVE s \in proven'
    <3>1. step[s] \in Rows
      BY DEF Shape, Types
    <3>2. step[s].status = "SUCCEEDED"
      BY <2>1, <2>3, <3>1 DEF Rows
    <3> QED
      BY <1>1, <3>2 DEF Delivery
  <2>4. ASSUME NEW y \in Delegations, pc'[y] = "SUCCEEDED" PROVE y[1] \in proven'
    BY <1>1, <2>1, <2>4, Who DEF Delivery
  <2> QED
    BY <1>1, <2>2, <2>3, <2>4 DEF Delivery, RunsDelivered
<1>8. CASE BatchEnds \/ CountPending \/ LoopExhausted \/ MergePlanResults \/ MarkPlanFinished \/ UNCHANGED vars
  BY <1>3, <1>8 DEF BatchEnds, CountPending, LoopExhausted, MergePlanResults, MarkPlanFinished, vars
<1> QED
  BY <1>2, <1>4, <1>5, <1>6, <1>7, <1>8 DEF Next, Loop

\* delegateStep and getReadySteps: whatever users cancel or retry and whoever
\* executes the runs, the Director takes a step up only once an agent has
\* delivered each step before it, and shows no success that no agent gave.
THEOREM NothingBeforeItsTurn == Spec => []DeliveredFirst
<1>1. Init => Delivery
  BY Who DEF Init, Delivery
<1>2. Delivery => DeliveredFirst
  BY DEF Delivery, DeliveredFirst, Director
<1> QED
  BY <1>1, <1>2, ShapeInit, ShapeStep, DeliveryStep, PTL DEF Spec

----------------------------------------------------------------------------
(* VerdictIsTrue *)

\* What holds of a plan no user has touched.
Untouched ==
  NoUser /\ Engaged /\ Caused /\ Judged

\* A step that changes no step of the plan, nor where the Director stands.
LEMMA StepsStay ==
  ASSUME Untouched, step' = step, rounds' = rounds, cancel' = cancel, retrying' = retrying,
         plan' = plan \/ (plan \in {"ready", "delegating", "counting"} /\ plan' = "ready"),
         \A x \in Delegations : /\ pc'[x] # "CANCELLED"
                                /\ pc'[x] = "idle" <=> pc[x] = "idle",
         \A s \in Steps : \A k \in 1 .. Len(runs'[s]) : runs'[s][k].status # "CANCELLED"
  PROVE  Untouched'
<1>1. NoUser'
  BY Who DEF Untouched, NoUser
<1>2. Engaged'
  <2>1. \A s \in Steps : pc'[Director(s)] = "idle" <=> pc[Director(s)] = "idle"
    BY Who
  <2>2. plan' \in Over => plan \in Over
    BY DEF Over
  <2> QED
    BY <2>1, <2>2 DEF Untouched, Engaged
<1>3. Caused'
  BY DEF Untouched, Caused, Failed
<1>4. Judged'
  BY DEF Untouched, Judged, Verdict
<1> QED
  BY <1>1, <1>2, <1>3, <1>4 DEF Untouched

LEMMA RoundSettles == ASSUME Shape, Untouched, GetReadySteps PROVE Untouched'
<1>1. /\ \A s \in Steps : step'[s] = IF Blocked(s) THEN [step[s] EXCEPT !.status = "SKIPPED"] ELSE step[s]
      /\ \A x \in Executors : pc'[x] = IF x[2] = "director" /\ Ready(x[1]) THEN "resolve" ELSE pc[x]
      /\ plan = "ready" /\ plan' \in {"delegating", "counting"} /\ rounds' = rounds + 1
      /\ UNCHANGED <<runs, cancel, retrying>>
  BY DEF GetReadySteps
<1>2. ASSUME NEW s \in Steps
      PROVE  /\ step'[s].status = IF Blocked(s) THEN "SKIPPED" ELSE step[s].status
             /\ pc'[Director(s)] = IF Ready(s) THEN "resolve" ELSE "idle"
             /\ pc'[User(s)] = pc[User(s)] /\ pc[Director(s)] = "idle"
             /\ step[s].status \in StepStatuses \ {"DELEGATED", "RUNNING", "CANCELLED"}
             /\ s <= rounds => step[s].status # "PENDING"
  <2>1. step[s] \in Rows /\ pc[Director(s)] = "idle"
    BY <1>1 DEF Shape, Types, Calm
  <2>2. step'[s].status = IF Blocked(s) THEN "SKIPPED" ELSE step[s].status
    BY <1>1, <2>1 DEF Rows
  <2>3. pc'[Director(s)] = IF Ready(s) THEN "resolve" ELSE "idle"
    BY <1>1, <2>1, Who
  <2>4. pc'[User(s)] = pc[User(s)]
    BY <1>1, Who
  <2> QED
    BY <2>1, <2>2, <2>3, <2>4 DEF Untouched, NoUser, Engaged, Rows
<1>3. NoUser'
  <2>1. ASSUME NEW x \in Delegations PROVE pc'[x] # "CANCELLED"
    BY <1>1, Who DEF Untouched, NoUser
  <2> QED
    BY <1>1, <1>2, <2>1 DEF Untouched, NoUser
<1>4. Engaged'
  <2>1. ASSUME NEW s \in Steps
        PROVE  IF pc'[Director(s)] = "idle" THEN step'[s].status \notin {"DELEGATED", "RUNNING"}
                                            ELSE step'[s].status \in Live
    <3>1. CASE Ready(s)
      BY <1>2, <3>1 DEF Ready, Blocked, Lost, Live, PlanAssumption
    <3>2. CASE ~Ready(s)
      BY <1>2, <3>2
    <3> QED
      BY <3>1, <3>2
  <2>2. ASSUME NEW s \in Steps, s <= rounds + 1 PROVE step'[s].status # "PENDING" \/ pc'[Director(s)] # "idle"
    <3>1. CASE s <= rounds
      BY <1>2, <3>1
    <3>2. CASE s = rounds + 1 /\ step[s].status = "PENDING"
      <4>1. ASSUME NEW d \in DependsOn[s] PROVE step[d].status \in Lost \cup {"SUCCEEDED"}
        <5>1. d \in Steps /\ d <= rounds
          BY <3>2, PlanAssumption DEF Shape, Types, Steps
        <5> QED
          BY <1>2, <5>1 DEF StepStatuses, Lost
      <4>2. Ready(s) \/ Blocked(s)
        BY <3>2, <4>1 DEF Ready, Blocked
      <4> QED
        BY <1>2, <4>2
    <3>3. CASE step[s].status # "PENDING"
      BY <1>2, <3>3
    <3>4. s <= rounds \/ s = rounds + 1
      BY <2>2, Who DEF Shape, Types
    <3> QED
      BY <3>1, <3>2, <3>3, <3>4
  <2> QED
    BY <1>1, <2>1, <2>2 DEF Engaged, Over
<1>5. Caused'
  <2>1. \A d \in Steps : step[d].status \in Lost => step'[d].status \in Lost
    BY <1>2 DEF Blocked, Lost
  <2>2. Failed => Failed'
    BY <1>2 DEF Blocked, Failed
  <2>3. ASSUME NEW s \in Steps, step'[s].status = "SKIPPED"
        PROVE  Failed' /\ \E d \in DependsOn[s] : step'[d].status \in Lost
    <3>1. DependsOn[s] \subseteq Steps
      BY PlanAssumption
    <3>2. PICK d \in DependsOn[s] : step[d].status \in Lost
      BY <1>2, <2>3 DEF Blocked, Untouched, Caused
    <3>3. Failed
      BY <1>2, <2>3, <3>1, <3>2 DEF Lost, Untouched, Caused, Failed
    <3> QED
      BY <2>1, <2>2, <3>1, <3>2, <3>3
  <2> QED
    BY <2>3 DEF Caused
<1> QED
  BY <1>1, <1>3, <1>4, <1>5 DEF Untouched, Judged

LEMMA DelegationSettles ==
  ASSUME Shape, Untouched, NEW x \in Delegations, Delegate(x) PROVE Untouched'
<1> DEFINE s == x[1]
<1>1. /\ s \in Steps /\ pc[x] # "idle" /\ x = Director(s) /\ plan = "delegating"
      /\ \A t \in Steps \ {s} : step'[t] = step[t] /\ pc'[Director(t)] = pc[Director(t)]
      /\ \A t \in Steps : pc'[User(t)] = "idle"
      /\ UNCHANGED <<plan, rounds, cancel, retrying>>
  <2>1. /\ pc[x] # "idle" /\ OnlyMove(x) /\ s \in Steps
        /\ \A t \in Steps \ {s} : step'[t] = step[t]
        /\ UNCHANGED <<plan, rounds, cancel, retrying>>
    BY DelegateEffect
  <2>2. x = Director(s)
    <3>1. x = Director(s) \/ x = User(s)
      BY Who
    <3>2. pc[User(s)] = "idle"
      BY <2>1 DEF Untouched, NoUser
    <3> QED
      BY <2>1, <3>1, <3>2
  <2>3. plan = "delegating"
    BY <2>1, <2>2 DEF Shape, Calm
  <2>4. \A t \in Steps \ {s} : Director(t) # x
    BY <2>1, <2>2, Who
  <2> QED
    BY <2>1, <2>2, <2>3, <2>4, Who DEF OnlyMove, Untouched, NoUser
<1>2. step[s].status \in Live /\ pc[x] # "CANCELLED"
  BY <1>1 DEF Untouched, Engaged, NoUser
<1>3. /\ IF pc'[x] = "idle" THEN step'[s].status \in {"SUCCEEDED", "FAILED"} ELSE step'[s].status \in Live
      /\ pc'[x] # "CANCELLED"
  <2>1. ASSUME NEW k \in 1 .. Len(runs[s]) PROVE runs[s][k].status # "CANCELLED"
    BY <1>1 DEF Untouched, NoUser
  <2> QED
    BY <1>2, <2>1, DelegateEffect DEF Live, TerminalRun
<1>4. \A t \in Steps : \A k \in 1 .. Len(runs'[t]) : runs'[t][k].status # "CANCELLED"
  BY DelegateEffect DEF Untouched, NoUser
<1> HIDE DEF s
<1>5. NoUser'
  <2>1. ASSUME NEW y \in Delegations PROVE pc'[y] # "CANCELLED"
    <3>1. y[1] \in Steps /\ (y = Director(y[1]) \/ y = User(y[1]))
      BY Who
    <3>2. pc[y] # "CANCELLED"
      BY DEF Untouched, NoUser
    <3> QED
      BY <1>1, <1>3, <3>1, <3>2
  <2>2. \A t \in Steps : step'[t].status # "CANCELLED"
    BY <1>1, <1>3 DEF Untouched, NoUser, Live
  <2> QED
    BY <1>1, <1>4, <2>1, <2>2 DEF Untouched, NoUser
<1>6. Engaged'
  <2>1. ASSUME NEW t \in Steps
        PROVE  /\ IF pc'[Director(t)] = "idle" THEN step'[t].status \notin {"DELEGATED", "RUNNING"}
                                               ELSE step'[t].status \in Live
               /\ t <= rounds' => step'[t].status # "PENDING" \/ pc'[Director(t)] # "idle"
    <3>1. CASE t = s
      BY <1>1, <1>3, <3>1
    <3>2. CASE t # s
      BY <1>1, <3>2 DEF Untouched, Engaged
    <3> QED
      BY <3>1, <3>2
  <2> QED
    BY <1>1, <2>1 DEF Engaged, Over
<1>7. Caused'
  <2>1. \A t \in Steps : step[t].status \in Lost => step'[t] = step[t]
    BY <1>1, <1>2 DEF Lost, Live
  <2>2. \A t \in Steps : step'[t].status = "SKIPPED" => step[t].status = "SKIPPED"
    BY <1>1, <1>3 DEF Live
  <2>3. Failed => Failed'
    BY <2>1 DEF Failed, Lost
  <2>4. ASSUME NEW t \in Steps, step'[t].status = "SKIPPED"
        PROVE  Failed' /\ \E d \in DependsOn[t] : step'[d].status \in Lost
    <3>1. DependsOn[t] \subseteq Steps
      BY PlanAssumption
    <3>2. Failed /\ \E d \in DependsOn[t] : step[d].status \in Lost
      BY <2>2, <2>4 DEF Untouched, Caused
    <3> QED
      BY <2>1, <2>3, <3>1, <3>2
  <2> QED
    BY <2>4 DEF Caused
<1> QED
  BY <1>1, <1>5, <1>6, <1>7 DEF Untouched, Judged

LEMMA SettlingStep == ASSUME EnoughRounds, Shape, Settling, [Next]_vars PROVE Settling'
<1>1. byUser' = byUser \/ byUser'
  <2>1. ASSUME Loop \/ CronPicks \/ UNCHANGED vars PROVE byUser' = byUser
    BY <2>1 DEF Loop, GetReadySteps, BatchEnds, CountPending, LoopExhausted, MergePlanResults, MarkPlanFinished, CronPicks, vars
  <2>2. ASSUME NEW x \in Executors, Work(x) PROVE byUser' = byUser
    BY <2>2, WorkEffect
  <2>3. ASSUME NEW x \in Delegations, Delegate(x) PROVE byUser' = byUser
    BY <2>3, DelegateEffect
  <2>4. ASSUME NEW s \in Steps, Users(s) PROVE byUser' = byUser \/ byUser'
    BY <2>4 DEF Users, CancelReads, CancelReadsRun, CancelWritesRun, CancelWritesStep, RetryReads, RetryResets
  <2> QED
    BY <2>1, <2>2, <2>3, <2>4 DEF Next
<1> SUFFICES ASSUME ~byUser', ~byUser, Untouched PROVE Untouched'
  BY <1>1 DEF Settling, Untouched
<1>2. /\ \A s \in Steps : \A k \in 1 .. Len(runs[s]) : runs[s][k].status # "CANCELLED"
      /\ \A x \in Delegations : pc[x] # "CANCELLED"
  BY DEF Untouched, NoUser
<1>3. ASSUME NEW x \in Executors, Work(x) PROVE Untouched'
  <2>1. \A s \in Steps : \A k \in 1 .. Len(runs'[s]) : runs'[s][k].status # "CANCELLED"
    BY <1>2, <1>3, WorkEffect
  <2>2. ASSUME NEW y \in Delegations PROVE pc'[y] # "CANCELLED" /\ (pc'[y] = "idle" <=> pc[y] = "idle")
    BY <1>2, <1>3, WorkEffect, Who DEF OnlyMove, TerminalRun
  <2>3. UNCHANGED <<plan, rounds, step, cancel, retrying>>
    BY <1>3, WorkEffect
  <2> QED
    BY <2>1, <2>2, <2>3, StepsStay
<1>4. ASSUME NEW s \in Steps, Users(s) PROVE Untouched'
  <2>1. cancel[s].at = "none" /\ s \notin retrying
    BY DEF Untouched, NoUser
  <2>2. FALSE
    BY <1>4, <2>1 DEF Users, CancelReads, CancelReadsRun, CancelWritesRun, CancelWritesStep, RetryReads, RetryResets
  <2> QED
    BY <2>2
<1>5. CASE CronPicks
  <2>1. \A x \in Delegations : pc'[x] = pc[x]
    BY <1>5, Who DEF CronPicks, Shape, Types
  <2>2. UNCHANGED <<plan, rounds, step, runs, cancel, retrying>>
    BY <1>5 DEF CronPicks
  <2> QED
    BY <1>2, <2>1, <2>2, StepsStay
<1>6. CASE BatchEnds \/ UNCHANGED vars
  <2>1. /\ UNCHANGED <<rounds, step, runs, pc, cancel, retrying>>
        /\ plan' = plan \/ (plan = "delegating" /\ plan' = "ready")
    BY <1>6 DEF BatchEnds, vars
  <2> QED
    BY <1>2, <2>1, StepsStay
<1>7. CASE CountPending \/ LoopExhausted \/ MergePlanResults \/ MarkPlanFinished
  <2>1. UNCHANGED <<rounds, step, runs, pc, cancel, retrying>>
    BY <1>7 DEF CountPending, LoopExhausted, MergePlanResults, MarkPlanFinished
  <2>2. plan' \in Over => \A s \in Steps : step[s].status # "PENDING"
    <3>1. CASE CountPending
      BY <3>1 DEF CountPending, Over
    <3>2. CASE LoopExhausted
      <4>1. ASSUME NEW s \in Steps PROVE s <= rounds /\ pc[Director(s)] = "idle"
        BY <3>2, PlanAssumption DEF LoopExhausted, EnoughRounds, Steps, Shape, Calm
      <4> QED
        BY <4>1 DEF Untouched, Engaged
    <3>3. CASE MergePlanResults \/ MarkPlanFinished
      BY <3>3 DEF MergePlanResults, MarkPlanFinished, Untouched, Engaged, Over
    <3> QED
      BY <1>7, <3>1, <3>2, <3>3
  <2>3. NoUser' /\ Caused'
    BY <2>1 DEF Untouched, NoUser, Caused, Failed
  <2>4. Engaged'
    BY <2>1, <2>2 DEF Untouched, Engaged
  <2>5. Judged'
    <3>1. Verdict' = Verdict /\ Verdict \in {"SUCCEEDED", "FAILED"}
      BY <2>1 DEF Verdict
    <3> QED
      BY <1>7, <3>1 DEF CountPending, LoopExhausted, MergePlanResults, MarkPlanFinished, Untouched, Judged
  <2> QED
    BY <2>3, <2>4, <2>5 DEF Untouched
<1> QED
  BY <1>3, <1>4, <1>5, <1>6, <1>7, RoundSettles, DelegationSettles DEF Next, Loop

\* getReadySteps and the end of the Director's loop: a plan nobody touched is
\* settled, step by step, when it ends, and its verdict is that of its steps,
\* for plans of at most as many steps as the loop has iterations.
THEOREM PlanVerdict == EnoughRounds => (Spec => []VerdictIsTrue)
<1> SUFFICES ASSUME EnoughRounds PROVE Spec => []VerdictIsTrue
  OBVIOUS
<1>1. Init => Settling
  <2> SUFFICES ASSUME Init PROVE Untouched
    BY DEF Settling, Untouched
  <2>1. NoUser
    BY Who DEF Init, NoUser
  <2>2. Engaged
    BY Who DEF Init, Engaged, Over
  <2>3. Caused
    BY DEF Init, Caused
  <2> QED
    BY <2>1, <2>2, <2>3 DEF Untouched, Judged, Init
<1>2. Shape /\ Settling /\ [Next]_vars => Settling'
  BY SettlingStep
<1>3. Shape /\ Settling => VerdictIsTrue
  <2> SUFFICES ASSUME Shape, Untouched, plan \in {"SUCCEEDED", "FAILED"}
               PROVE  /\ \A s \in Steps : step[s].status \notin Live
                      /\ \A s \in Steps : step[s].status = "SKIPPED" => \E d \in DependsOn[s] : step[d].status \in Lost
                      /\ plan = "SUCCEEDED" <=> \A s \in Steps : step[s].status = "SUCCEEDED"
    BY DEF Settling, Untouched, VerdictIsTrue
  <2>1. ASSUME NEW s \in Steps PROVE step[s].status \in {"SUCCEEDED", "FAILED", "SKIPPED"}
    <3>1. step[s].status \in StepStatuses /\ pc[Director(s)] = "idle"
      BY DEF Shape, Types, Rows, Calm
    <3> QED
      BY <3>1 DEF StepStatuses, Untouched, NoUser, Engaged, Over
  <2>2. \A s \in Steps : step[s].status = "SKIPPED" => Failed /\ \E d \in DependsOn[s] : step[d].status \in Lost
    BY DEF Untouched, Caused
  <2>3. plan = "SUCCEEDED" <=> ~Failed
    <3>1. Failed <=> Verdict = "FAILED"
      <4>1. ASSUME NEW s \in Steps
            PROVE  (step[s].status \in {"FAILED"} \cup Live) <=> (step[s].status = "FAILED")
        BY <2>1 DEF Live
      <4> QED
        BY <4>1 DEF Verdict, Failed
    <3>2. Verdict \in {"SUCCEEDED", "FAILED"}
      BY DEF Verdict
    <3> QED
      BY <3>1, <3>2 DEF Untouched, Judged
  <2>4. ~Failed <=> \A s \in Steps : step[s].status = "SUCCEEDED"
    BY <2>1, <2>2 DEF Failed
  <2> QED
    BY <2>1, <2>2, <2>3, <2>4 DEF Live
<1> QED
  BY <1>1, <1>2, <1>3, ShapeInit, ShapeStep, PTL DEF Spec
=============================================================================
