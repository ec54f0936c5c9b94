------------------------- MODULE WorkflowRunProofs -------------------------
(***************************************************************************)
(* What executeWorkflowRun keeps, for every graph that passed validation.   *)
(* The types hold for any number of executors.  The rest is about one       *)
(* executor, which is all its comment speaks of, and rests on three facts:  *)
(* its copy of the steps mirrors the rows (Mirror), a failed step that      *)
(* halts the run is followed by its compensations and nothing else          *)
(* (Failing), and what the scan decided of a node stays decided, since the  *)
(* steps it looked at are over (Following).                                 *)
(***************************************************************************)
EXTENDS WorkflowRun, TLAPS

Tags == {"none", "true", "false"} \cup Policies \cup {e.branch : e \in Edges}
Flags == {"halted", "suspended", "retry"}
Places == {"idle", "called", "load", "resume", "scan", "launch", "settle", "finish", "undo", "returned"}

Rows ==
  {st \in [Nodes -> [status : StepStatuses, tag : Tags, attempt : Nat]] :
     \A n \in Nodes : st[n].attempt <= Budget(n)}

Copies == [st : Rows, batch : SUBSET Nodes, undo : SUBSET Compensable]

\* TypeOK, with the executors' copies.
Shape ==
  /\ run \in RunStatuses /\ due \in BOOLEAN
  /\ steps \in Rows
  /\ pc \in [Executors -> Places]
  /\ mem \in [Executors -> Copies]
  /\ \A a \in Executors : /\ mem[a].batch # {} <=> pc[a] \in {"launch", "settle"}
                          /\ mem[a].undo # {} <=> pc[a] = "undo"
  /\ flags \in [Executors -> SUBSET Flags]
  /\ drive \in [Executors -> BOOLEAN]
  /\ cancel \in {"none", "checked", "steps", "done"}
  /\ kept \subseteq Compensable
  /\ crashes \in 0 .. MaxCrashes

OneExecutor == \E a : Executors = {a}

Holding == {"resume", "scan", "launch", "settle", "finish", "undo"}
Loaded(a) == pc[a] \in Holding

AllOver(n, st) == \A e \in Into(n) : Over(st[e.source])

\* Row r of a node that stands as s in the copy of an executor at place.
Mirrors(place, inBatch, r, s) ==
  /\ r.tag = s.tag /\ r.attempt = s.attempt
  /\ \/ r.status = s.status
     \/ r.status = "CANCELLED" /\ s.status \in {"PENDING", "RUNNING", "WAITING"}
     \/ r.status = "RUNNING" /\ s.status = "PENDING" /\ place = "settle" /\ inBatch
     \/ r.status = "COMPENSATED" /\ s.status = "SUCCEEDED" /\ place = "undo"

\* Copy m of an executor at place, beside the rows.
Copied(place, m, rows) ==
  /\ \A n \in Nodes : Mirrors(place, n \in m.batch, rows[n], m.st[n])
  /\ \A n \in m.batch : m.st[n].status = "PENDING" /\ AllOver(n, m.st) /\ Reached(n, m.st)
  /\ \A n \in m.undo : m.st[n].status = "SUCCEEDED"

PlainWaits == \A n \in Nodes : TypeOf[n] = "wait" => steps[n].tag = "none" /\ steps[n].attempt = 0

Mirror ==
  /\ PlainWaits
  /\ \A a \in Executors : Loaded(a) => Copied(pc[a], mem[a], steps)

\* Every action that succeeded is undone, or could not be, or is left to undo.
Undone(left) == \A n \in Compensable : steps[n].status = "SUCCEEDED" => n \in kept \cup left

FlagsStand(a) == flags[a] # {} => pc[a] \in {"settle", "finish"}

Undoing(a) == pc[a] = "undo" => Undone(mem[a].undo) /\ run \in {"FAILED", "CANCELLED"}

\* From a failure that halts on, nothing is started before all is undone.
Halted(a) ==
  crashes = 0 /\ Halting(steps) # {} =>
    \/ pc[a] \in {"settle", "finish"} /\ "halted" \in flags[a]
    \/ pc[a] = "undo"
    \/ pc[a] \in {"idle", "returned"} /\ run \in {"FAILED", "CANCELLED"} /\ Undone({})

\* Where the executor is once the run has ended.
RunStands(a) ==
  cancel = "none" =>
    /\ run \in {"FAILED", "SUCCEEDED"} => pc[a] \in {"undo", "idle", "returned"}
    /\ run = "SUCCEEDED" => pc[a] # "undo"
    /\ run # "CANCELLED"
    /\ \A n \in Nodes : steps[n].status = "COMPENSATED" => run = "FAILED"

Failing == \A a \in Executors : FlagsStand(a) /\ Undoing(a) /\ Halted(a) /\ RunStands(a)

\* The steps as the executor knows them.
Known(a) == IF Loaded(a) THEN mem[a].st ELSE steps

\* What is decided of node n, by the edges that lead to it.
Decided(n, st) ==
  /\ st[n].status \in {"ABSENT", "PENDING", "WAITING", "SUCCEEDED", "SKIPPED", "FAILED"}
  /\ st[n].status = "WAITING" => TypeOf[n] = "wait"
  /\ st[n].status \notin {"ABSENT", "PENDING"} =>
       AllOver(n, st) /\ (Reached(n, st) <=> st[n].status # "SKIPPED" \/ st[n].tag = "ignore")

\* The steps as known to an executor at place that has raised flags F.
Followed(place, st, F) ==
  /\ \A n \in Nodes : Decided(n, st)
  /\ place \in Holding => \A n \in Nodes : st[n].status # "ABSENT"
  /\ place \in Holding \ {"resume"} /\ (\E n \in Nodes : st[n].status = "WAITING") => "suspended" \in F
  /\ Halting(st) # {} => "halted" \in F

Following ==
  Undisturbed =>
    /\ \A n \in Nodes : steps[n].status # "CANCELLED"
    /\ \A a \in Executors : run # "FAILED" => Followed(pc[a], Known(a), flags[a])
    /\ run = "SUCCEEDED" => \A n \in Nodes : steps[n].status \in {"SUCCEEDED", "SKIPPED", "FAILED"}
----------------------------------------------------------------------------
(* Types *)

LEMMA BudgetIsNat == \A n \in Nodes : Budget(n) \in Nat
  BY GraphAssumption DEF Budget

LEMMA ShapeGivesTypes == Shape => TypeOK
<1> SUFFICES ASSUME Shape PROVE TypeOK
  OBVIOUS
<1>1. \A n \in Nodes : /\ steps[n].status \in StepStatuses
                       /\ steps[n].tag \in Tags
                       /\ steps[n].attempt \in 0 .. Budget(n)
  BY BudgetIsNat DEF Shape, Rows
<1>2. \A a \in Executors : mem[a].batch \subseteq Nodes
  BY DEF Shape, Copies
<1> QED
  BY <1>1, <1>2 DEF Shape, TypeOK, Tags, Flags, Places

LEMMA BlankFits == Blank \in Copies /\ Blank.batch = {} /\ Blank.undo = {}
<1>1. \A n \in Nodes : Step("ABSENT", "none", 0) \in [status : StepStatuses, tag : Tags, attempt : Nat]
  BY DEF Step, StepStatuses, Tags
<1>2. \A n \in Nodes : Step("ABSENT", "none", 0).attempt <= Budget(n)
  BY BudgetIsNat DEF Step
<1> QED
  BY <1>1, <1>2 DEF Blank, Copies, Rows

\* One row changed is still a row; so are all of them after a new status.
LEMMA RowSet ==
  ASSUME NEW st \in Rows, NEW n \in Nodes, NEW status \in StepStatuses, NEW tag \in Tags,
         NEW k \in 0 .. Budget(n)
  PROVE  [st EXCEPT ![n] = Step(status, tag, k)] \in Rows
<1>1. Step(status, tag, k) \in [status : StepStatuses, tag : Tags, attempt : Nat]
  BY BudgetIsNat DEF Step
<1>2. Step(status, tag, k).attempt <= Budget(n)
  BY BudgetIsNat DEF Step
<1> QED
  BY <1>1, <1>2 DEF Rows

LEMMA RowsSet ==
  ASSUME NEW st \in Rows, NEW new, new = [n \in Nodes |-> new[n]],
         \A n \in Nodes : \/ new[n] = st[n]
                          \/ \E x \in StepStatuses : new[n] = [st[n] EXCEPT !.status = x]
                          \/ \E x \in StepStatuses, k \in 0 .. Budget(n) : new[n] = Step(x, "none", k)
  PROVE  new \in Rows
<1> SUFFICES ASSUME NEW n \in Nodes
             PROVE  /\ new[n] \in [status : StepStatuses, tag : Tags, attempt : Nat]
                    /\ new[n].attempt <= Budget(n)
  BY DEF Rows
<1>1. st[n] \in [status : StepStatuses, tag : Tags, attempt : Nat] /\ st[n].attempt <= Budget(n)
  BY DEF Rows
<1>2. Budget(n) \in Nat /\ "none" \in Tags
  BY BudgetIsNat DEF Tags
<1>3. CASE \E x \in StepStatuses : new[n] = [st[n] EXCEPT !.status = x]
  BY <1>1, <1>3
<1>4. CASE \E x \in StepStatuses, k \in 0 .. Budget(n) : new[n] = Step(x, "none", k)
  BY <1>2, <1>4 DEF Step
<1> QED
  BY <1>1, <1>3, <1>4

\* A step of one executor that leaves it at place, with copy m and flags F.
LEMMA ShapeStays ==
  ASSUME Shape, NEW a \in Executors, NEW place \in Places, NEW m \in Copies, NEW F \in SUBSET Flags,
         pc' = [pc EXCEPT ![a] = place],
         mem' = [mem EXCEPT ![a] = m],
         flags' = [flags EXCEPT ![a] = F],
         drive' = drive \/ \E d \in BOOLEAN : drive' = [drive EXCEPT ![a] = d],
         m.batch # {} <=> place \in {"launch", "settle"},
         m.undo # {} <=> place = "undo",
         run' \in RunStatuses, due' \in BOOLEAN, steps' \in Rows, kept' \subseteq Compensable,
         cancel' = cancel, crashes' \in 0 .. MaxCrashes
  PROVE  Shape'
<1>1. pc' \in [Executors -> Places] /\ mem' \in [Executors -> Copies]
      /\ flags' \in [Executors -> SUBSET Flags] /\ drive' \in [Executors -> BOOLEAN]
  BY DEF Shape
<1>2. \A b \in Executors : /\ mem'[b] = IF b = a THEN m ELSE mem[b]
                           /\ pc'[b] = IF b = a THEN place ELSE pc[b]
  BY DEF Shape
<1>3. \A b \in Executors : /\ mem'[b].batch # {} <=> pc'[b] \in {"launch", "settle"}
                           /\ mem'[b].undo # {} <=> pc'[b] = "undo"
  BY <1>2 DEF Shape
<1> QED
  BY <1>1, <1>3 DEF Shape

\* The scan's sets exist (the least of the sets closed under Skips) and are
\* apart: a node is skipped, or ready, or left for another scan.
LEMMA OutOfReachAgrees ==
  ASSUME NEW st
  PROVE  /\ OutOfReach(st) \subseteq Pending(st)
         /\ \A n \in Pending(st) : n \in OutOfReach(st) <=> Skips(n, st, OutOfReach(st))
<1> DEFINE F(S) == {n \in Pending(st) : Skips(n, st, S)}
           Closed == {T \in SUBSET Pending(st) : F(T) \subseteq T}
           L == {n \in Pending(st) : \A T \in Closed : n \in T}
<1>1. ASSUME NEW S, NEW T, S \subseteq T PROVE F(S) \subseteq F(T)
  BY <1>1 DEF Skips
<1>2. F(L) \subseteq L
  <2> SUFFICES ASSUME NEW n \in F(L), NEW T \in Closed PROVE n \in T
    OBVIOUS
  <2>1. L \subseteq T
    OBVIOUS
  <2>2. F(L) \subseteq F(T)
    BY <1>1, <2>1
  <2> QED
    BY <2>2
<1>3. F(L) \in Closed
  <2>1. F(F(L)) \subseteq F(L)
    BY <1>1, <1>2
  <2> QED
    BY <2>1
<1>4. L = F(L)
  BY <1>2, <1>3
<1>5. L \in SUBSET Pending(st) /\ \A n \in Pending(st) : n \in L <=> Skips(n, st, L)
  BY <1>4
<1> HIDE DEF L, F, Closed
<1> QED
  BY <1>5 DEF OutOfReach

LEMMA AttemptsFit == \A st \in Rows : \A n \in Nodes : st[n].attempt \in 0 .. Budget(n) /\ 0 \in 0 .. Budget(n)
  BY BudgetIsNat DEF Rows

\* The steps that settle nodes.
LEMMA SettleShape ==
  ASSUME Shape, NEW a \in Executors, Settle(a)
  PROVE  Shape'
<1>1. PICK n \in mem[a].batch :
        \/ SettleWait(a, n) \/ SettleSuccess(a, n) \/ SettleRetry(a, n)
        \/ SettleIgnored(a, n) \/ SettleFailed(a, n)
  BY DEF Settle, First
<1>2. /\ run' = run /\ due' = due /\ drive' = drive /\ cancel' = cancel /\ kept' = kept
      /\ crashes' = crashes /\ pc[a] = "settle"
  BY DEF Settle
<1>3. /\ n \in Nodes /\ mem[a].st \in Rows /\ mem[a].undo = {} /\ flags[a] \in SUBSET Flags
      /\ mem[a] \in Copies /\ mem[a].batch \in SUBSET Nodes
  BY <1>1, <1>2 DEF Shape, Copies
<1> DEFINE k == mem[a].st[n].attempt
<1>4. k \in 0 .. Budget(n) /\ 0 \in 0 .. Budget(n) /\ (PolicyOf[n] = "retry" /\ k < RetriesOf[n] => k + 1 \in 0 .. Budget(n))
  BY <1>3, AttemptsFit, GraphAssumption DEF Budget
<1> HIDE DEF k
<1>5. ASSUME NEW row \in Rows, NEW st \in Rows, NEW raised \in SUBSET Flags,
             mem' = [mem EXCEPT ![a].st = st, ![a].batch = @ \ {n}], steps' = row,
             AfterSettle(a, n, raised)
      PROVE  Shape'
  <2> DEFINE m == [mem[a] EXCEPT !.st = st, !.batch = @ \ {n}]
             F == flags[a] \cup raised
             place == IF mem[a].batch # {n} THEN "settle" ELSE IF F # {} THEN "finish" ELSE "scan"
  <2>1. m \in Copies /\ m.batch = mem[a].batch \ {n} /\ m.undo = {}
    BY <1>3, <1>5 DEF Copies
  <2>2. F \in SUBSET Flags /\ place \in Places
    BY <1>3 DEF Places
  <2>3. mem' = [mem EXCEPT ![a] = m] /\ flags' = [flags EXCEPT ![a] = F]
    BY <1>5 DEF AfterSettle, Shape
  <2>4. pc' = [pc EXCEPT ![a] = place]
    BY <1>5, <2>3 DEF AfterSettle, Goto, Shape
  <2>5. m.batch # {} <=> place \in {"launch", "settle"}
    BY <1>1, <2>1
  <2>6. m.undo # {} <=> place = "undo"
    BY <2>1
  <2> HIDE DEF m, F, place
  <2> QED
    BY <1>2, <1>5, <2>1, <2>2, <2>3, <2>4, <2>5, <2>6, ShapeStays DEF Shape
<1>6. ASSUME NEW status \in StepStatuses, NEW tag \in Tags, NEW j \in 0 .. Budget(n), NEW raised \in SUBSET Flags,
             Record(a, n, Step(status, tag, j)), AfterSettle(a, n, raised)
      PROVE  Shape'
  <2> DEFINE s == Step(status, tag, j)
  <2>1. [mem[a].st EXCEPT ![n] = s] \in Rows /\ [steps EXCEPT ![n] = s] \in Rows
    BY <1>3, RowSet DEF Shape
  <2>2. /\ mem' = [mem EXCEPT ![a].st = [mem[a].st EXCEPT ![n] = s], ![a].batch = @ \ {n}]
        /\ steps' = [steps EXCEPT ![n] = s]
    BY <1>6 DEF Record
  <2> HIDE DEF s
  <2> QED
    BY <1>5, <1>6, <2>1, <2>2
<1>7. /\ \A x \in {"SUCCEEDED", "PENDING", "SKIPPED", "FAILED", "WAITING"} : x \in StepStatuses
      /\ \A x \in {"none", "true", "false", "ignore"} : x \in Tags
      /\ PolicyOf[n] \in Tags
      /\ \A x \in {"halted", "suspended", "retry"} : x \in Flags
  BY <1>3, GraphAssumption DEF StepStatuses, TerminalStep, Tags, Policies, Flags
<1>8. CASE SettleWait(a, n)
  <2> DEFINE s == Step("WAITING", "none", 0)
             st == [mem[a].st EXCEPT ![n] = s]
             row == [steps EXCEPT ![n].status = "WAITING"]
  <2>1. st \in Rows
    BY <1>3, <1>4, <1>7, RowSet
  <2>2. row \in Rows
    <3>1. steps \in Rows /\ row = [x \in Nodes |-> row[x]]
      BY DEF Shape, Rows
    <3>2. \A x \in Nodes : row[x] = steps[x] \/ row[x] = [steps[x] EXCEPT !.status = "WAITING"]
      BY <3>1 DEF Rows
    <3> HIDE DEF row
    <3> QED
      BY <1>7, <3>1, <3>2, RowsSet
  <2>3. mem' = [mem EXCEPT ![a].st = st, ![a].batch = @ \ {n}] /\ steps' = row
    BY <1>8 DEF SettleWait
  <2>4. AfterSettle(a, n, {"suspended"}) /\ {"suspended"} \in SUBSET Flags
    BY <1>7, <1>8 DEF SettleWait
  <2> HIDE DEF s, st, row
  <2> QED
    BY <1>5, <2>1, <2>2, <2>3, <2>4
<1>9. CASE SettleSuccess(a, n)
  <2>1. PICK branch \in BranchesOf(n) : Record(a, n, Step("SUCCEEDED", branch, k))
    BY <1>9 DEF SettleSuccess, k
  <2>2. branch \in Tags
    BY DEF BranchesOf, Tags, From
  <2> QED
    BY <1>4, <1>6, <1>7, <1>9, <2>1, <2>2 DEF SettleSuccess
<1>10. CASE SettleRetry(a, n)
  <2>1. Record(a, n, Step("PENDING", "none", k + 1)) /\ k + 1 \in 0 .. Budget(n)
    BY <1>4, <1>10 DEF SettleRetry, k
  <2>2. AfterSettle(a, n, {"retry"}) /\ {"retry"} \in SUBSET Flags
    BY <1>7, <1>10 DEF SettleRetry
  <2> QED
    BY <1>6, <1>7, <2>1, <2>2
<1>11. CASE SettleIgnored(a, n)
  BY <1>4, <1>6, <1>7, <1>11 DEF SettleIgnored, k
<1>12. CASE SettleFailed(a, n)
  <2>1. Record(a, n, Step("FAILED", PolicyOf[n], k))
    BY <1>12 DEF SettleFailed, k
  <2>2. AfterSettle(a, n, {}) \/ AfterSettle(a, n, {"halted"})
    BY <1>12 DEF SettleFailed
  <2> QED
    BY <1>4, <1>6, <1>7, <2>1, <2>2
<1> QED
  BY <1>1, <1>8, <1>9, <1>10, <1>11, <1>12

\* The executor's other steps.
LEMMA ExecutorShape ==
  ASSUME Shape, NEW a \in Executors, Pick(a) \/ Execute(a) \/ Crash(a)
  PROVE  Shape'
<1> USE DEF Goto
<1>1. /\ steps \in Rows /\ mem[a] \in Copies /\ mem[a].st \in Rows /\ mem[a].batch \in SUBSET Nodes
      /\ mem[a].undo \in SUBSET Compensable
      /\ flags[a] \in SUBSET Flags /\ {} \in SUBSET Flags
      /\ run \in RunStatuses /\ due \in BOOLEAN /\ kept \subseteq Compensable /\ crashes \in 0 .. MaxCrashes
  BY DEF Shape, Copies
<1>2. mem = [mem EXCEPT ![a] = mem[a]] /\ flags = [flags EXCEPT ![a] = flags[a]] /\ pc = [pc EXCEPT ![a] = pc[a]]
  BY DEF Shape
<1>3. /\ \A x \in {"QUEUED", "RUNNING", "WAITING", "SUCCEEDED", "FAILED", "CANCELLED"} : x \in RunStatuses
      /\ \A x \in Places : x \in {"launch", "settle"} <=> ~(x \in Places \ {"launch", "settle"})
      /\ \A x \in {"SUCCEEDED", "PENDING", "RUNNING", "SKIPPED", "COMPENSATED"} : x \in StepStatuses
  BY DEF RunStatuses, StepStatuses, TerminalStep
<1>4. /\ mem[a].batch # {} <=> pc[a] \in {"launch", "settle"}
      /\ mem[a].undo # {} <=> pc[a] = "undo"
  BY DEF Shape
<1>5. \A x \in {"idle", "called", "load", "resume", "scan", "launch", "settle", "finish", "undo", "returned"} : x \in Places
  BY DEF Places
<1>6. /\ \A st \in Rows : [mem[a] EXCEPT !.st = st] \in Copies
      /\ \A st \in Rows : [mem[a] EXCEPT !.st = st].batch = mem[a].batch /\ [mem[a] EXCEPT !.st = st].undo = mem[a].undo
  BY <1>1 DEF Copies
<1>7. CASE Pick(a)
  <2>1. pc[a] = "idle" /\ (\E d \in BOOLEAN : drive' = [drive EXCEPT ![a] = d])
        /\ pc' = [pc EXCEPT ![a] = "called"] /\ UNCHANGED <<run, due, steps, mem, flags, cancel, kept, crashes>>
    BY <1>7 DEF Pick
  <2> QED
    BY <1>1, <1>2, <1>4, <1>5, <2>1, ShapeStays
<1>8. CASE Returned(a)
  <2>1. PICK place \in {"called", "idle"} : pc[a] = "returned" /\ pc' = [pc EXCEPT ![a] = place]
        /\ (\E d \in BOOLEAN : drive' = [drive EXCEPT ![a] = d])
        /\ UNCHANGED <<run, due, steps, mem, flags, cancel, kept, crashes>>
    BY <1>8 DEF Returned, Shape
  <2> QED
    BY <1>1, <1>2, <1>4, <1>5, <2>1, ShapeStays
<1>9. CASE Begin(a)
  BY <1>1, <1>2, <1>3, <1>4, <1>5, <1>9, ShapeStays DEF Begin
<1>10. CASE Load(a)
  <2>1. steps' \in Rows
    BY <1>1, <1>3, <1>10, RowsSet, AttemptsFit DEF Load
  <2>2. PICK m \in Copies : mem' = [mem EXCEPT ![a] = m] /\ m.batch = mem[a].batch /\ m.undo = mem[a].undo
    BY <1>1, <1>6, <1>10, <2>1 DEF Load, Shape
  <2>3. /\ pc[a] = "load" /\ pc' = [pc EXCEPT ![a] = "resume"]
        /\ UNCHANGED <<run, due, flags, drive, cancel, kept, crashes>>
    BY <1>10 DEF Load
  <2> QED
    BY <1>1, <1>2, <1>4, <1>5, <2>1, <2>2, <2>3, ShapeStays
<1>11. CASE Resume(a)
  <2> DEFINE over == {n \in Nodes : TypeOf[n] = "wait" /\ mem[a].st[n].status = "WAITING"}
             After(st) == [n \in Nodes |-> IF n \in over THEN [st[n] EXCEPT !.status = "SUCCEEDED"] ELSE st[n]]
  <2>1. After(steps) \in Rows /\ After(mem[a].st) \in Rows
    BY <1>1, <1>3, RowsSet
  <2>2. /\ mem' = [mem EXCEPT ![a].st = After(@)] /\ steps' = After(steps)
        /\ pc[a] = "resume" /\ pc' = [pc EXCEPT ![a] = "scan"]
        /\ UNCHANGED <<run, due, flags, drive, cancel, kept, crashes>>
    BY <1>11 DEF Resume
  <2>3. mem' = [mem EXCEPT ![a] = [mem[a] EXCEPT !.st = After(mem[a].st)]]
    BY <2>2 DEF Shape
  <2> HIDE DEF After
  <2>4. PICK m \in Copies : mem' = [mem EXCEPT ![a] = m] /\ m.batch = mem[a].batch /\ m.undo = mem[a].undo
    BY <1>1, <1>6, <2>1, <2>3
  <2>5. /\ steps' \in Rows
        /\ pc[a] = "resume" /\ pc' = [pc EXCEPT ![a] = "scan"]
        /\ UNCHANGED <<run, due, flags, drive, cancel, kept, crashes>>
    BY <2>1, <2>2
  <2> QED
    BY <1>1, <1>2, <1>4, <1>5, <2>4, <2>5, ShapeStays
<1>12. CASE Scan(a)
  <2> DEFINE st == mem[a].st
             skipped == OutOfReach(st)
             ready == {n \in Pending(st) : Ready(n, st, skipped)}
             After(s) == [n \in Nodes |-> IF n \in skipped THEN Step("SKIPPED", "none", st[n].attempt) ELSE s[n]]
             m == [mem[a] EXCEPT !.st = After(st), !.batch = ready]
  <2>1. After(steps) \in Rows /\ After(st) \in Rows
    BY <1>1, <1>3, RowsSet, AttemptsFit
  <2>2. /\ mem' = [mem EXCEPT ![a].st = After(st), ![a].batch = ready]
        /\ steps' = After(steps)
        /\ pc[a] = "scan" /\ pc' = [pc EXCEPT ![a] = IF ready = {} THEN "finish" ELSE "launch"]
        /\ UNCHANGED <<run, due, flags, drive, cancel, kept, crashes>>
    BY <1>12 DEF Scan
  <2>3. mem' = [mem EXCEPT ![a] = m]
    BY <2>2 DEF Shape
  <2>4. ready \subseteq Nodes
    BY DEF Pending
  <2> HIDE DEF ready, After
  <2>5. m \in Copies /\ m.batch = ready /\ m.undo = {}
    BY <1>1, <1>4, <2>1, <2>2, <2>4 DEF Copies
  <2> HIDE DEF m
  <2>6. PICK place \in Places : place = IF ready = {} THEN "finish" ELSE "launch"
    BY <1>5
  <2> QED
    BY <1>1, <1>2, <2>1, <2>2, <2>3, <2>5, <2>6, ShapeStays
<1>13. CASE Launch(a)
  <2>1. steps' \in Rows
    BY <1>1, <1>3, <1>13, RowsSet DEF Launch
  <2> QED
    BY <1>1, <1>2, <1>4, <1>5, <1>13, <2>1, ShapeStays DEF Launch
<1>14. CASE Settle(a)
  BY <1>14, SettleShape
<1>15. CASE Finish(a)
  <2>1. run' \in RunStatuses /\ due' \in BOOLEAN
    BY <1>1, <1>3, <1>15 DEF Finish, Outcome
  <2>2. PICK undo \in SUBSET Compensable :
          IF undo = {} THEN pc' = [pc EXCEPT ![a] = "returned"] /\ mem' = [mem EXCEPT ![a] = Blank]
                       ELSE pc' = [pc EXCEPT ![a] = "undo"] /\ mem' = [mem EXCEPT ![a].undo = undo]
    BY <1>15 DEF Finish, ToUndo
  <2>3. pc[a] = "finish" /\ flags' = [flags EXCEPT ![a] = {}] /\ UNCHANGED <<steps, drive, cancel, kept, crashes>>
    BY <1>15 DEF Finish
  <2>4. CASE undo = {}
    BY <1>1, <1>5, <2>1, <2>2, <2>3, <2>4, BlankFits, ShapeStays
  <2>5. CASE undo # {}
    <3> DEFINE m == [mem[a] EXCEPT !.undo = undo]
    <3>1. m \in Copies /\ m.undo = undo /\ m.batch = {} /\ mem' = [mem EXCEPT ![a] = m]
      BY <1>1, <1>4, <2>2, <2>3, <2>5 DEF Copies, Shape
    <3> HIDE DEF m
    <3> QED
      BY <1>1, <1>5, <2>1, <2>2, <2>3, <2>5, <3>1, ShapeStays
  <2> QED
    BY <2>4, <2>5
<1>16. CASE Undo(a)
  <2>1. PICK n \in mem[a].undo :
          /\ \/ steps' = [steps EXCEPT ![n].status = "COMPENSATED"] /\ kept' = kept
             \/ kept' = kept \cup {n} /\ steps' = steps
          /\ IF mem[a].undo = {n}
               THEN Goto(a, "returned") /\ mem' = [mem EXCEPT ![a] = Blank]
               ELSE pc' = pc /\ mem' = [mem EXCEPT ![a].undo = @ \ {n}]
    BY <1>16 DEF Undo, Last
  <2>2. n \in Nodes /\ n \in Compensable
    BY <1>1, GraphAssumption
  <2>3. steps' \in Rows
    <3>1. CASE steps' = [steps EXCEPT ![n].status = "COMPENSATED"]
      <4>1. \A x \in Nodes : steps'[x] = steps[x] \/ steps'[x] = [steps[x] EXCEPT !.status = "COMPENSATED"]
        BY <1>1, <3>1 DEF Rows
      <4>2. steps' = [x \in Nodes |-> steps'[x]]
        BY <1>1, <3>1 DEF Rows
      <4> QED
        BY <1>1, <1>3, <4>1, <4>2, RowsSet
    <3> QED
      BY <1>1, <2>1, <3>1
  <2>4. kept' \subseteq Compensable
    BY <1>1, <2>1, <2>2
  <2>5. pc[a] = "undo" /\ UNCHANGED <<run, due, flags, drive, cancel, crashes>>
    BY <1>16 DEF Undo
  <2>6. CASE mem[a].undo = {n}
    <3>1. pc' = [pc EXCEPT ![a] = "returned"] /\ mem' = [mem EXCEPT ![a] = Blank]
      BY <2>1, <2>6 DEF Goto
    <3>2. flags' = [flags EXCEPT ![a] = flags[a]] /\ "returned" \in Places /\ flags[a] \in SUBSET Flags
      BY <1>1, <2>5 DEF Shape, Places
    <3>3. drive' = drive /\ run' \in RunStatuses /\ due' \in BOOLEAN
          /\ cancel' = cancel /\ crashes' \in 0 .. MaxCrashes
      BY <1>1, <2>5 DEF Shape
    <3> QED
      BY <1>1, <2>3, <2>4, <3>1, <3>2, <3>3, BlankFits, ShapeStays
  <2>7. CASE mem[a].undo # {n}
    <3> DEFINE m == [mem[a] EXCEPT !.undo = @ \ {n}]
    <3>1. m \in Copies /\ m.undo # {} /\ m.batch = {} /\ mem' = [mem EXCEPT ![a] = m]
      BY <1>1, <1>4, <2>1, <2>5, <2>7 DEF Copies, Shape
    <3> HIDE DEF m
    <3>2. pc' = [pc EXCEPT ![a] = "undo"] /\ flags' = [flags EXCEPT ![a] = flags[a]] /\ "undo" \in Places
      BY <1>1, <1>2, <2>1, <2>5, <2>7 DEF Shape, Places
    <3>3. flags[a] \in SUBSET Flags /\ drive' = drive /\ run' \in RunStatuses /\ due' \in BOOLEAN
          /\ cancel' = cancel /\ crashes' \in 0 .. MaxCrashes
      BY <1>1, <2>5 DEF Shape
    <3>4. m.batch = {} /\ m.undo # {} /\ "undo" \notin {"launch", "settle"}
      BY <3>1
    <3> QED
      BY <1>1, <2>3, <2>4, <3>1, <3>2, <3>3, <3>4, ShapeStays
  <2> QED
    BY <2>6, <2>7
<1>17. CASE Crash(a)
  <2>1. crashes' \in 0 .. MaxCrashes
    BY <1>1, <1>17, GraphAssumption DEF Crash
  <2>2. \E d \in BOOLEAN : drive' = [drive EXCEPT ![a] = d]
    BY <1>17 DEF Crash
  <2> QED
    BY <1>1, <1>5, <1>17, <2>1, <2>2, BlankFits, ShapeStays DEF Crash
<1> QED
  BY <1>7, <1>8, <1>9, <1>10, <1>11, <1>12, <1>13, <1>14, <1>15, <1>16, <1>17 DEF Execute

LEMMA ShapeStep == Shape /\ [Next]_vars => Shape'
<1> SUFFICES ASSUME Shape, [Next]_vars PROVE Shape'
  OBVIOUS
<1>1. CASE UNCHANGED vars
  BY <1>1 DEF vars, Shape
<1>2. CASE \E a \in Executors : Pick(a) \/ Execute(a) \/ Crash(a)
  BY <1>2, ExecutorShape
<1>3. CASE CancelCheck
  BY <1>3 DEF CancelCheck, Shape
<1>4. CASE CancelSteps
  <2>1. steps \in Rows /\ "CANCELLED" \in StepStatuses
    BY DEF Shape, StepStatuses, TerminalStep
  <2>2. steps' \in Rows
    BY <1>4, <2>1, RowsSet DEF CancelSteps
  <2> QED
    BY <1>4, <2>2 DEF CancelSteps, Shape
<1>5. CASE CancelWrite
  BY <1>5 DEF CancelWrite, Shape, RunStatuses
<1>6. CASE DueComes
  BY <1>6 DEF DueComes, Shape
<1> QED
  BY <1>1, <1>2, <1>3, <1>4, <1>5, <1>6 DEF Next

LEMMA ShapeInit == Init => Shape
<1>1. Init => steps \in Rows /\ mem \in [Executors -> Copies] /\ \A a \in Executors : mem[a].batch = {} /\ mem[a].undo = {}
  BY BlankFits DEF Init, Copies
<1> QED
  BY <1>1, GraphAssumption DEF Init, Shape, RunStatuses, Places

LEMMA Shaped == Spec => []Shape
  BY ShapeInit, ShapeStep, PTL DEF Spec

\* The types of the model, whatever the number of executors: in particular a
\* step never has more attempts than its policy gives it, a batch is empty
\* unless it is being run, and a list of compensations unless it is worked off.
THEOREM TypeCorrect == Spec => []TypeOK
  BY Shaped, ShapeGivesTypes, PTL

----------------------------------------------------------------------------
(* One executor: its copy mirrors the rows *)

\* A node's satisfied edge comes from a step that is over, so what can be
\* taken, and what is ready, is not skipped.
LEMMA SatisfiedIsOver ==
  ASSUME NEW e \in Edges, NEW s, EdgeIsSatisfied(e, s)
  PROVE  Over(s)
  BY DEF EdgeIsSatisfied, Over, TerminalStep

LEMMA ReadyIsKept ==
  ASSUME NEW st, NEW n \in Pending(st), Reached(n, st)
  PROVE  n \notin OutOfReach(st)
<1> SUFFICES ASSUME n \in OutOfReach(st) PROVE FALSE
  OBVIOUS
<1>1. Skips(n, st, OutOfReach(st))
  BY OutOfReachAgrees
<1>2. PICK e \in Into(n) : EdgeIsSatisfied(e, st[e.source])
  BY <1>1 DEF Reached, Skips
<1>3. Over(st[e.source])
  BY <1>2, SatisfiedIsOver DEF Into
<1>4. e.source \in OutOfReach(st)
  BY <1>1, <1>2 DEF Skips
<1>5. st[e.source].status = "PENDING"
  BY <1>4, OutOfReachAgrees DEF Pending
<1> QED
  BY <1>3, <1>5 DEF Over, TerminalStep

LEMMA EdgeEnds == \A n \in Nodes : \A e \in Into(n) : e \in Edges /\ e.source \in Nodes /\ e.target = n
  BY GraphAssumption DEF ValidGraph, Into

\* What decides a node stays so while the steps that are over stay as they are.
LEMMA OverStays ==
  ASSUME NEW st, NEW new, \A m \in Nodes : Over(st[m]) => new[m] = st[m],
         NEW n \in Nodes, AllOver(n, st)
  PROVE  AllOver(n, new) /\ (Reached(n, new) <=> Reached(n, st))
<1>1. \A e \in Into(n) : new[e.source] = st[e.source]
  BY EdgeEnds DEF AllOver
<1> QED
  BY <1>1 DEF AllOver, Reached

\* A scan skips, and finds ready, nodes whose sources are over once it has
\* written its skips; none of the skipped ones is reached.
LEMMA ScanDecides ==
  ASSUME NEW st \in Rows, NEW new,
         \A n \in Nodes : new[n] = IF n \in OutOfReach(st) THEN Step("SKIPPED", "none", st[n].attempt) ELSE st[n]
  PROVE  /\ \A n \in Nodes : Over(st[n]) => new[n] = st[n]
         /\ \A n \in OutOfReach(st) : AllOver(n, new) /\ ~Reached(n, new)
         /\ \A n \in Pending(st) : Ready(n, st, OutOfReach(st)) =>
              n \notin OutOfReach(st) /\ AllOver(n, new) /\ Reached(n, new)
<1> DEFINE S == OutOfReach(st)
<1>1. S \subseteq Pending(st) /\ \A n \in Pending(st) : n \in S <=> Skips(n, st, S)
  BY OutOfReachAgrees
<1>2. \A n \in Pending(st) : n \in Nodes /\ ~Over(st[n])
  BY DEF Pending, Over, TerminalStep
<1>3. \A n \in Nodes : new[n] = IF n \in S THEN Step("SKIPPED", "none", st[n].attempt) ELSE st[n]
  OBVIOUS
<1>4. \A n \in Pending(st) : Reached(n, st) => n \notin S
  BY ReadyIsKept
<1> HIDE DEF S
<1>5. \A n \in Nodes : Over(st[n]) => new[n] = st[n]
  BY <1>1, <1>2, <1>3
<1>6. ASSUME NEW n \in S PROVE Over(new[n]) /\ new[n].status = "SKIPPED" /\ new[n].tag = "none"
  <2>1. new[n] = Step("SKIPPED", "none", st[n].attempt)
    BY <1>1, <1>2, <1>3
  <2> QED
    BY <2>1 DEF Over, TerminalStep, Step
<1>7. ASSUME NEW n \in S PROVE AllOver(n, new) /\ ~Reached(n, new)
  <2>1. n \in Nodes /\ Skips(n, st, S)
    BY <1>1, <1>2, <1>7
  <2>2. \A e \in Into(n) : Over(new[e.source]) /\ ~EdgeIsSatisfied(e, new[e.source])
    <3> SUFFICES ASSUME NEW e \in Into(n) PROVE Over(new[e.source]) /\ ~EdgeIsSatisfied(e, new[e.source])
      OBVIOUS
    <3>1. CASE e.source \in S
      BY <1>6, <3>1 DEF EdgeIsSatisfied
    <3>2. CASE e.source \notin S
      BY <1>5, <2>1, <3>2, EdgeEnds DEF Skips
    <3> QED
      BY <3>1, <3>2
  <2> QED
    BY <2>1, <2>2 DEF AllOver, Reached, Skips
<1>8. ASSUME NEW n \in Pending(st), Ready(n, st, S) PROVE n \notin S /\ AllOver(n, new) /\ Reached(n, new)
  <2>1. n \notin S /\ n \in Nodes
    BY <1>2, <1>4, <1>8 DEF Ready
  <2>2. \A e \in Into(n) : Over(new[e.source])
    BY <1>5, <1>6, <1>8, <2>1, EdgeEnds DEF Ready
  <2>3. \A e \in Into(n) : EdgeIsSatisfied(e, st[e.source]) => EdgeIsSatisfied(e, new[e.source])
    BY <1>5, <2>1, SatisfiedIsOver, EdgeEnds
  <2> QED
    BY <1>8, <2>1, <2>2, <2>3 DEF AllOver, Reached, Ready
<1> QED
  BY <1>5, <1>7, <1>8 DEF S

\* What a settled node does to the copy: nodes still to settle keep what they
\* were found ready for, since a node that was pending decided nothing.
LEMMA SettleMirror ==
  ASSUME Shape, Mirror, NEW a, Executors = {a}, Settle(a)
  PROVE  Mirror'
<1>1. PICK n \in mem[a].batch :
        \/ SettleWait(a, n) \/ SettleSuccess(a, n) \/ SettleRetry(a, n)
        \/ SettleIgnored(a, n) \/ SettleFailed(a, n)
  BY DEF Settle, First
<1>2. pc[a] = "settle" /\ Loaded(a) /\ Copied("settle", mem[a], steps) /\ mem[a].undo = {} /\ PlainWaits
  BY DEF Settle, Loaded, Holding, Mirror, Shape
<1>3. /\ n \in Nodes /\ mem[a].st \in Rows /\ mem[a] \in Copies /\ steps \in Rows /\ mem[a].batch \subseteq Nodes
  BY <1>1 DEF Shape, Copies
<1>4. ASSUME NEW s, NEW r,
             mem' = [mem EXCEPT ![a].st[n] = s, ![a].batch = @ \ {n}],
             steps' = [steps EXCEPT ![n] = r],
             TypeOf[n] = "wait" => s.tag = "none" /\ s.attempt = 0,
             r = s,
             \E raised : AfterSettle(a, n, raised)
      PROVE  Mirror'
  <2> DEFINE m == mem'[a]
  <2>1. /\ m.batch = mem[a].batch \ {n} /\ m.undo = {}
        /\ \A x \in Nodes : m.st[x] = IF x = n THEN s ELSE mem[a].st[x]
        /\ \A x \in Nodes : steps'[x] = IF x = n THEN s ELSE steps[x]
    BY <1>2, <1>3, <1>4 DEF Shape, Copies, Rows
  <2>2. m.batch # {} => pc'[a] = "settle"
    BY <1>1, <1>4, <2>1 DEF AfterSettle, Goto, Shape
  <2>3. PlainWaits'
    BY <1>2, <1>4, <2>1 DEF PlainWaits
  <2> HIDE DEF m
  <2>4. ASSUME NEW x \in Nodes PROVE Mirrors(pc'[a], x \in m.batch, steps'[x], m.st[x])
    <3>1. CASE x = n
      BY <2>1, <3>1 DEF Mirrors
    <3>2. CASE x # n
      BY <1>2, <2>1, <2>2, <3>2 DEF Mirrors, Copied
    <3> QED
      BY <3>1, <3>2
  <2>5. ASSUME NEW x \in m.batch PROVE m.st[x].status = "PENDING" /\ AllOver(x, m.st) /\ Reached(x, m.st)
    <3>1. x \in Nodes /\ x # n /\ x \in mem[a].batch
      BY <1>3, <2>1
    <3>2. m.st[x].status = "PENDING" /\ AllOver(x, mem[a].st) /\ Reached(x, mem[a].st)
      BY <1>2, <2>1, <3>1 DEF Copied
    <3>3. ~Over(mem[a].st[n])
      BY <1>1, <1>2 DEF Copied, Over, TerminalStep
    <3>4. \A y \in Nodes : Over(mem[a].st[y]) => m.st[y] = mem[a].st[y]
      BY <2>1, <3>3
    <3> QED
      BY <3>1, <3>2, <3>4, OverStays
  <2>6. Copied(pc'[a], m, steps')
    BY <2>1, <2>4, <2>5 DEF Copied
  <2> QED
    BY <2>3, <2>6 DEF Mirror, m
<1>5. ASSUME NEW status, NEW tag, NEW k, NEW raised, TypeOf[n] # "wait",
             Record(a, n, Step(status, tag, k)), AfterSettle(a, n, raised)
      PROVE  Mirror'
  BY <1>4, <1>5 DEF Record
<1>6. CASE SettleWait(a, n)
  <2> DEFINE s == Step("WAITING", "none", 0)
  <2>1. steps[n].tag = "none" /\ steps[n].attempt = 0
    BY <1>2, <1>3, <1>6 DEF PlainWaits, SettleWait
  <2>2. [steps[n] EXCEPT !.status = "WAITING"] = s
    BY <1>3, <2>1 DEF Rows, Step
  <2>3. steps' = [steps EXCEPT ![n] = s]
    BY <1>3, <1>6, <2>2 DEF SettleWait, Rows
  <2>4. s.tag = "none" /\ s.attempt = 0
    BY DEF Step
  <2>5. mem' = [mem EXCEPT ![a].st[n] = s, ![a].batch = @ \ {n}] /\ \E raised : AfterSettle(a, n, raised)
    BY <1>6 DEF SettleWait
  <2> HIDE DEF s
  <2> QED
    BY <1>4, <2>3, <2>4, <2>5
<1>7. CASE SettleSuccess(a, n)
  BY <1>5, <1>7 DEF SettleSuccess
<1>8. CASE SettleRetry(a, n)
  BY <1>5, <1>8 DEF SettleRetry, MayFail
<1>9. CASE SettleIgnored(a, n)
  BY <1>5, <1>9 DEF SettleIgnored, MayFail
<1>10. CASE SettleFailed(a, n)
  <2>1. PICK raised \in {{}, {"halted"}} : AfterSettle(a, n, raised)
    BY <1>10 DEF SettleFailed
  <2> QED
    BY <1>5, <1>10, <2>1 DEF SettleFailed, MayFail
<1> QED
  BY <1>1, <1>6, <1>7, <1>8, <1>9, <1>10

LEMMA ScanMirror ==
  ASSUME Shape, Mirror, NEW a, Executors = {a}, Scan(a)
  PROVE  Mirror'
<1> DEFINE st == mem[a].st
           skipped == OutOfReach(st)
           ready == {n \in Pending(st) : Ready(n, st, skipped)}
           After(s) == [n \in Nodes |-> IF n \in skipped THEN Step("SKIPPED", "none", st[n].attempt) ELSE s[n]]
           m == mem'[a]
<1>1. /\ pc[a] = "scan" /\ pc'[a] \in {"finish", "launch"}
      /\ mem' = [mem EXCEPT ![a].st = After(st), ![a].batch = ready]
      /\ steps' = After(steps)
  BY DEF Scan, Goto, Shape
<1>2. st \in Rows /\ mem[a].undo = {} /\ PlainWaits /\ Copied("scan", mem[a], steps)
  BY <1>1 DEF Shape, Copies, Mirror, Loaded, Holding
<1>3. m.st = After(st) /\ m.batch = ready /\ m.undo = {}
  BY <1>1, <1>2 DEF Shape, Copies
<1>4. /\ \A n \in skipped : AllOver(n, m.st) /\ ~Reached(n, m.st)
      /\ \A n \in Pending(st) : Ready(n, st, skipped) => n \notin skipped /\ AllOver(n, m.st) /\ Reached(n, m.st)
  BY <1>2, <1>3, ScanDecides
<1>5. \A n \in m.batch : n \in Pending(st) /\ Ready(n, st, skipped) /\ n \in Nodes
  BY <1>3 DEF Pending
<1>6. \A n \in skipped : n \in Nodes /\ st[n].status = "PENDING"
  BY OutOfReachAgrees DEF Pending
<1>7. ASSUME NEW n \in Nodes
      PROVE  /\ n \in skipped => m.st[n] = Step("SKIPPED", "none", st[n].attempt) /\ steps'[n] = Step("SKIPPED", "none", st[n].attempt)
             /\ n \notin skipped => m.st[n] = st[n] /\ steps'[n] = steps[n]
             /\ Mirrors("scan", n \in mem[a].batch, steps[n], st[n])
  BY <1>1, <1>2, <1>3 DEF Copied
<1> HIDE DEF st, skipped, ready, After, m
<1>8. \A n \in Nodes : Mirrors(pc'[a], n \in m.batch, steps'[n], m.st[n])
  BY <1>1, <1>7 DEF Mirrors
<1>9. \A n \in m.batch : m.st[n].status = "PENDING" /\ AllOver(n, m.st) /\ Reached(n, m.st)
  BY <1>4, <1>5, <1>7 DEF Pending
<1>10. PlainWaits'
  <2> SUFFICES ASSUME NEW n \in Nodes, TypeOf[n] = "wait" PROVE steps'[n].tag = "none" /\ steps'[n].attempt = 0
    BY DEF PlainWaits
  <2>1. steps[n].tag = "none" /\ steps[n].attempt = 0 /\ st[n].attempt = 0
    BY <1>2, <1>7 DEF PlainWaits, Mirrors
  <2>2. CASE n \in skipped
    <3>1. steps'[n] = Step("SKIPPED", "none", st[n].attempt)
      BY <1>7, <2>2
    <3> QED
      BY <2>1, <3>1 DEF Step
  <2>3. CASE n \notin skipped
    BY <1>7, <2>1, <2>3
  <2> QED
    BY <2>2, <2>3
<1> QED
  BY <1>3, <1>8, <1>9, <1>10 DEF Mirror, Copied, m

LEMMA ExecutorMirror ==
  ASSUME Shape, Mirror, NEW a, Executors = {a}, Pick(a) \/ Execute(a) \/ Crash(a)
  PROVE  Mirror'
<1> USE DEF Goto
<1> DEFINE m == mem'[a]
<1>1. steps \in Rows /\ mem[a] \in Copies /\ mem[a].st \in Rows /\ PlainWaits
  BY DEF Shape, Copies, Mirror
<1>2. /\ mem[a].batch # {} <=> pc[a] \in {"launch", "settle"}
      /\ mem[a].undo # {} <=> pc[a] = "undo"
      /\ Loaded(a) => Copied(pc[a], mem[a], steps)
  BY DEF Shape, Mirror
<1>3. ASSUME PlainWaits', pc'[a] \in Places \ {"idle", "called", "load", "returned"} => Copied(pc'[a], m, steps')
      PROVE  Mirror'
  BY <1>3 DEF Mirror, Loaded, Holding, Places
<1>4. CASE Pick(a) \/ Begin(a) \/ Returned(a) \/ Crash(a)
  <2>1. steps' = steps /\ pc'[a] \in {"idle", "called", "load"}
    BY <1>4 DEF Pick, Begin, Returned, Crash, Shape
  <2> QED
    BY <1>1, <1>3, <2>1 DEF PlainWaits
<1>5. CASE Load(a)
  <2>1. /\ m.st = steps' /\ m.batch = {} /\ m.undo = {}
        /\ \A n \in Nodes : steps'[n] = IF steps[n].status = "ABSENT" THEN Step("PENDING", "none", 0) ELSE steps[n]
    BY <1>1, <1>2, <1>5 DEF Load, Shape, Copies
  <2> HIDE DEF m
  <2>2. PlainWaits'
    BY <1>1, <2>1 DEF PlainWaits, Step
  <2>3. Copied(pc'[a], m, steps')
    BY <2>1 DEF Copied, Mirrors
  <2> QED
    BY <1>3, <2>2, <2>3 DEF m
<1>6. CASE Resume(a)
  <2> DEFINE st == mem[a].st
             over == {n \in Nodes : TypeOf[n] = "wait" /\ st[n].status = "WAITING"}
  <2>1. /\ m.batch = {} /\ m.undo = {} /\ pc[a] = "resume" /\ pc'[a] = "scan"
        /\ \A n \in Nodes : m.st[n] = IF n \in over THEN [st[n] EXCEPT !.status = "SUCCEEDED"] ELSE st[n]
        /\ \A n \in Nodes : steps'[n] = IF n \in over THEN [steps[n] EXCEPT !.status = "SUCCEEDED"] ELSE steps[n]
    BY <1>1, <1>2, <1>6 DEF Resume, Shape, Copies
  <2>2. \A n \in Nodes : /\ [steps[n] EXCEPT !.status = "SUCCEEDED"].status = "SUCCEEDED"
                         /\ [steps[n] EXCEPT !.status = "SUCCEEDED"].tag = steps[n].tag
                         /\ [steps[n] EXCEPT !.status = "SUCCEEDED"].attempt = steps[n].attempt
                         /\ [st[n] EXCEPT !.status = "SUCCEEDED"].status = "SUCCEEDED"
                         /\ [st[n] EXCEPT !.status = "SUCCEEDED"].tag = st[n].tag
                         /\ [st[n] EXCEPT !.status = "SUCCEEDED"].attempt = st[n].attempt
    BY <1>1 DEF Rows
  <2>3. \A n \in Nodes : Mirrors("resume", FALSE, steps[n], st[n])
    BY <1>2, <2>1 DEF Copied, Loaded, Holding, Mirrors
  <2> HIDE DEF m, st, over
  <2>4. PlainWaits'
    BY <1>1, <2>1, <2>2 DEF PlainWaits
  <2>5. ASSUME NEW n \in Nodes PROVE Mirrors(pc'[a], n \in m.batch, steps'[n], m.st[n])
    <3>1. CASE n \in over
      <4>1. /\ steps'[n] = [steps[n] EXCEPT !.status = "SUCCEEDED"]
            /\ m.st[n] = [st[n] EXCEPT !.status = "SUCCEEDED"]
        BY <2>1, <3>1
      <4> QED
        BY <2>2, <2>3, <4>1 DEF Mirrors
    <3>2. CASE n \notin over
      BY <2>1, <2>3, <3>2 DEF Mirrors
    <3> QED
      BY <3>1, <3>2
  <2>6. Copied(pc'[a], m, steps')
    BY <2>1, <2>5 DEF Copied
  <2> QED
    BY <1>3, <2>4, <2>6 DEF m
<1>7. CASE Scan(a)
  BY <1>7, ScanMirror
<1>8. CASE Launch(a)
  <2>1. /\ m = mem[a] /\ pc[a] = "launch" /\ pc'[a] = "settle"
        /\ \A n \in Nodes : steps'[n] = IF n \in mem[a].batch THEN [steps[n] EXCEPT !.status = "RUNNING"] ELSE steps[n]
    BY <1>8 DEF Launch, Shape
  <2>2. \A n \in Nodes : /\ [steps[n] EXCEPT !.status = "RUNNING"].status = "RUNNING"
                         /\ [steps[n] EXCEPT !.status = "RUNNING"].tag = steps[n].tag
                         /\ [steps[n] EXCEPT !.status = "RUNNING"].attempt = steps[n].attempt
    BY <1>1 DEF Rows
  <2>3. Copied("launch", mem[a], steps)
    BY <1>2, <2>1 DEF Loaded, Holding
  <2> HIDE DEF m
  <2>4. PlainWaits'
    BY <1>1, <2>1, <2>2 DEF PlainWaits
  <2>5. ASSUME NEW n \in Nodes PROVE Mirrors(pc'[a], n \in m.batch, steps'[n], m.st[n])
    <3>1. Mirrors("launch", n \in m.batch, steps[n], m.st[n]) /\ pc'[a] = "settle"
      BY <2>1, <2>3 DEF Copied
    <3>2. CASE n \in m.batch
      <4>1. steps'[n] = [steps[n] EXCEPT !.status = "RUNNING"] /\ m.st[n].status = "PENDING"
        BY <2>1, <2>3, <3>2 DEF Copied
      <4> QED
        BY <2>2, <3>1, <3>2, <4>1 DEF Mirrors
    <3>3. CASE n \notin m.batch
      <4>1. steps'[n] = steps[n]
        BY <2>1, <3>3
      <4> QED
        BY <3>1, <4>1 DEF Mirrors
    <3> QED
      BY <3>2, <3>3
  <2>6. Copied(pc'[a], m, steps')
    BY <2>1, <2>3, <2>5 DEF Copied
  <2> QED
    BY <1>3, <2>4, <2>6 DEF m
<1>9. CASE Settle(a)
  BY <1>9, SettleMirror
<1>10. CASE Finish(a)
  <2>1. steps' = steps /\ pc[a] = "finish"
    BY <1>10 DEF Finish
  <2>2. Copied("finish", mem[a], steps) /\ mem[a].batch = {}
    BY <1>2, <2>1 DEF Loaded, Holding
  <2>3. CASE pc'[a] = "returned"
    BY <1>1, <1>3, <2>1, <2>3 DEF PlainWaits
  <2>4. CASE pc'[a] = "undo"
    <3>1. m = [mem[a] EXCEPT !.undo = ToUndo(mem[a].st)]
      BY <1>10, <2>1, <2>4 DEF Finish, Shape
    <3>2. m.st = mem[a].st /\ m.batch = {} /\ \A n \in m.undo : m.st[n].status = "SUCCEEDED"
      BY <1>1, <2>2, <3>1 DEF Copies, ToUndo
    <3> HIDE DEF m
    <3>3. Copied(pc'[a], m, steps')
      BY <2>1, <2>2, <2>4, <3>2 DEF Copied, Mirrors
    <3> QED
      BY <1>1, <1>3, <2>1, <3>3 DEF PlainWaits, m
  <2> QED
    BY <1>10, <2>3, <2>4 DEF Finish, Shape
<1>11. CASE Undo(a)
  <2>1. PICK n \in mem[a].undo :
          /\ steps' = [steps EXCEPT ![n].status = "COMPENSATED"] \/ steps' = steps
          /\ \/ pc'[a] = "returned"
             \/ pc'[a] = "undo" /\ m = [mem[a] EXCEPT !.undo = @ \ {n}]
    BY <1>11 DEF Undo, Last, Shape
  <2>2. pc[a] = "undo" /\ Copied("undo", mem[a], steps) /\ n \in Nodes
    BY <1>1, <1>2, <1>11, GraphAssumption DEF Undo, Loaded, Holding, Copies
  <2>3. \A x \in Nodes : \/ steps'[x] = steps[x]
                         \/ x = n /\ steps'[x].status = "COMPENSATED" /\ steps'[x].tag = steps[x].tag /\ steps'[x].attempt = steps[x].attempt
    BY <1>1, <2>1 DEF Rows
  <2>4. PlainWaits'
    BY <1>1, <2>3 DEF PlainWaits
  <2>5. CASE pc'[a] = "undo"
    <3>1. m.st = mem[a].st /\ m.batch = {} /\ mem[a].batch = {} /\ m.undo \subseteq mem[a].undo
      BY <1>1, <1>2, <2>1, <2>2, <2>5 DEF Copies
    <3> HIDE DEF m
    <3>2. mem[a].st[n].status = "SUCCEEDED"
      BY <2>1, <2>2 DEF Copied
    <3>3. \A x \in Nodes : Mirrors(pc'[a], x \in m.batch, steps'[x], m.st[x])
      BY <2>2, <2>3, <2>5, <3>1, <3>2 DEF Copied, Mirrors
    <3>4. Copied(pc'[a], m, steps')
      BY <2>2, <3>1, <3>3 DEF Copied
    <3> QED
      BY <1>3, <2>4, <3>4 DEF m
  <2> QED
    BY <1>3, <2>1, <2>4, <2>5
<1> QED
  BY <1>4, <1>5, <1>6, <1>7, <1>8, <1>9, <1>10, <1>11 DEF Execute

\* What a user or the clock does, and doing nothing.
LEMMA MirrorStep ==
  ASSUME OneExecutor, Shape, Mirror, [Next]_vars
  PROVE  Mirror'
<1>1. PICK a : Executors = {a}
  BY DEF OneExecutor
<1>2. CASE UNCHANGED <<steps, pc, mem>>
  BY <1>2 DEF Mirror, Loaded, Holding, PlainWaits
<1>3. CASE CancelSteps
  <2>1. \A n \in Nodes : \/ steps'[n] = steps[n]
                         \/ /\ steps[n].status \in {"PENDING", "RUNNING", "WAITING"}
                            /\ steps'[n].status = "CANCELLED"
                            /\ steps'[n].tag = steps[n].tag /\ steps'[n].attempt = steps[n].attempt
    BY <1>3 DEF CancelSteps, Shape, Rows
  <2>2. PlainWaits'
    BY <2>1 DEF Mirror, PlainWaits
  <2>3. ASSUME Loaded(a) PROVE Copied(pc[a], mem[a], steps')
    BY <1>1, <2>1, <2>3 DEF Mirror, Copied, Mirrors
  <2> QED
    BY <1>1, <1>3, <2>2, <2>3 DEF CancelSteps, Mirror, Loaded, Holding
<1>4. CASE Pick(a) \/ Execute(a) \/ Crash(a)
  BY <1>1, <1>4, ExecutorMirror
<1> QED
  BY <1>1, <1>2, <1>3, <1>4 DEF Next, vars, CancelCheck, CancelWrite, DueComes

LEMMA MirrorInit == Init => Mirror
  BY GraphAssumption DEF Init, Blank, Step, Mirror, PlainWaits, Loaded, Holding

LEMMA Mirrored == OneExecutor => (Spec => []Mirror)
<1> SUFFICES ASSUME OneExecutor PROVE Spec => []Mirror
  OBVIOUS
<1>1. Shape /\ Mirror /\ [Next]_vars => Mirror'
  BY MirrorStep
<1> QED
  BY <1>1, MirrorInit, Shaped, PTL DEF Spec

----------------------------------------------------------------------------
(* What a step may do to a row *)

\* The steps that write rows, and what each row they change was before.
Written(was, is) ==
  \/ is = was
  \/ was.status \notin {"SUCCEEDED", "SKIPPED"}
  \/ was.status = "SUCCEEDED" /\ is = [was EXCEPT !.status = "COMPENSATED"]

Started(n, was, is) ==
  is.status = "RUNNING" /\ was.status # "RUNNING" => AllOver(n, steps)

LEMMA ExecutorWrites ==
  ASSUME Shape, Mirror, NEW a, Executors = {a}, Pick(a) \/ Execute(a) \/ Crash(a), NEW n \in Nodes
  PROVE  Written(steps[n], steps'[n]) /\ Started(n, steps[n], steps'[n])
<1> DEFINE st == mem[a].st
<1>1. steps \in Rows /\ mem[a] \in Copies /\ st \in Rows
  BY DEF Shape, Copies
<1>2. Loaded(a) => Copied(pc[a], mem[a], steps)
  BY DEF Mirror
<1>3. CASE steps' = steps
  BY <1>3 DEF Written, Started
<1>4. CASE Load(a)
  <2>1. steps'[n] = steps[n] \/ (steps[n].status = "ABSENT" /\ steps'[n] = Step("PENDING", "none", 0))
    BY <1>4 DEF Load
  <2> QED
    BY <2>1 DEF Written, Started, Step
<1>5. CASE Resume(a)
  <2>1. \/ steps'[n] = steps[n]
        \/ st[n].status = "WAITING" /\ steps'[n] = [steps[n] EXCEPT !.status = "SUCCEEDED"]
    BY <1>5 DEF Resume
  <2>2. st[n].status = "WAITING" => steps[n].status \in {"WAITING", "CANCELLED"}
    BY <1>2, <1>5 DEF Resume, Loaded, Holding, Copied, Mirrors
  <2>3. [steps[n] EXCEPT !.status = "SUCCEEDED"].status = "SUCCEEDED"
    BY <1>1 DEF Rows
  <2> QED
    BY <2>1, <2>2, <2>3 DEF Written, Started
<1>6. CASE Scan(a)
  <2>1. steps'[n] = steps[n] \/ (n \in OutOfReach(st) /\ steps'[n] = Step("SKIPPED", "none", st[n].attempt))
    BY <1>6 DEF Scan
  <2>2. n \in OutOfReach(st) => st[n].status = "PENDING"
    BY OutOfReachAgrees DEF Pending
  <2>3. st[n].status = "PENDING" => steps[n].status \in {"PENDING", "CANCELLED"}
    BY <1>2, <1>6 DEF Scan, Loaded, Holding, Copied, Mirrors
  <2> HIDE DEF st
  <2> QED
    BY <2>1, <2>2, <2>3 DEF Written, Started, Step
<1>7. CASE Launch(a)
  <2>1. pc[a] = "launch" /\ Copied("launch", mem[a], steps)
    BY <1>2, <1>7 DEF Launch, Loaded, Holding
  <2>2. steps'[n] = steps[n] \/ n \in mem[a].batch
    BY <1>7 DEF Launch
  <2>3. ASSUME n \in mem[a].batch PROVE steps[n].status \in {"PENDING", "CANCELLED"} /\ AllOver(n, steps)
    <3>1. st[n].status = "PENDING" /\ AllOver(n, st)
      BY <2>1, <2>3 DEF Copied
    <3>2. \A m \in Nodes : Over(st[m]) => Over(steps[m])
      BY <2>1 DEF Copied, Mirrors, Over, TerminalStep
    <3>3. AllOver(n, steps)
      BY <3>1, <3>2, EdgeEnds DEF AllOver
    <3>4. steps[n].status \in {"PENDING", "CANCELLED"}
      BY <2>1, <3>1 DEF Copied, Mirrors
    <3> QED
      BY <3>3, <3>4
  <2> QED
    BY <2>2, <2>3 DEF Written, Started
<1>8. CASE Settle(a)
  <2>1. pc[a] = "settle" /\ Copied("settle", mem[a], steps)
    BY <1>2, <1>8 DEF Settle, Loaded, Holding
  <2>2. PICK m \in mem[a].batch :
          \/ SettleWait(a, m) \/ SettleSuccess(a, m) \/ SettleRetry(a, m)
          \/ SettleIgnored(a, m) \/ SettleFailed(a, m)
    BY <1>8 DEF Settle, First
  <2>3. m \in Nodes /\ st[m].status = "PENDING"
    BY <1>1, <2>1, <2>2 DEF Copied, Copies
  <2>4. steps[m].status \in {"PENDING", "CANCELLED", "RUNNING"}
    BY <2>1, <2>3 DEF Copied, Mirrors
  <2>5. CASE SettleWait(a, m)
    <3>1. steps'[n] = steps[n] \/ (n = m /\ steps'[n] = [steps[n] EXCEPT !.status = "WAITING"])
      BY <1>1, <2>5 DEF SettleWait, Rows
    <3>2. [steps[n] EXCEPT !.status = "WAITING"].status = "WAITING"
      BY <1>1 DEF Rows
    <3> QED
      BY <2>4, <3>1, <3>2 DEF Written, Started
  <2>6. CASE \E x \in {"SUCCEEDED", "PENDING", "SKIPPED", "FAILED"} : \E t, k : Record(a, m, Step(x, t, k))
    <3>1. PICK x \in {"SUCCEEDED", "PENDING", "SKIPPED", "FAILED"} : \E t, k : steps' = [steps EXCEPT ![m] = Step(x, t, k)]
      BY <2>6 DEF Record
    <3>2. steps'[n] = steps[n] \/ (n = m /\ steps'[n].status = x)
      BY <1>1, <3>1 DEF Rows, Step
    <3> QED
      BY <2>4, <3>1, <3>2 DEF Written, Started
  <2> QED
    BY <2>2, <2>5, <2>6 DEF SettleSuccess, SettleRetry, SettleIgnored, SettleFailed
<1>9. CASE Undo(a)
  <2>1. PICK m \in mem[a].undo : steps' = [steps EXCEPT ![m].status = "COMPENSATED"] \/ steps' = steps
    BY <1>9 DEF Undo, Last
  <2>2. Copied("undo", mem[a], steps)
    BY <1>2, <1>9 DEF Undo, Loaded, Holding
  <2>3. st[m].status = "SUCCEEDED" /\ m \in Nodes
    BY <1>1, <2>1, <2>2, GraphAssumption DEF Copied, Copies
  <2>4. steps[m].status \in {"SUCCEEDED", "COMPENSATED"}
    BY <2>2, <2>3 DEF Copied, Mirrors
  <2>5. steps'[n] = steps[n] \/ (n = m /\ steps'[n] = [steps[n] EXCEPT !.status = "COMPENSATED"])
    BY <1>1, <2>1 DEF Rows
  <2>6. [steps[n] EXCEPT !.status = "COMPENSATED"].status = "COMPENSATED"
    BY <1>1 DEF Rows
  <2> QED
    BY <2>4, <2>5, <2>6 DEF Written, Started
<1>10. Pick(a) \/ Crash(a) \/ Begin(a) \/ Finish(a) \/ Returned(a) => steps' = steps
  BY DEF Pick, Crash, Begin, Finish, Returned
<1> QED
  BY <1>3, <1>4, <1>5, <1>6, <1>7, <1>8, <1>9, <1>10 DEF Execute

LEMMA Writes ==
  ASSUME OneExecutor, Shape, Mirror, [Next]_vars, NEW n \in Nodes
  PROVE  Written(steps[n], steps'[n]) /\ Started(n, steps[n], steps'[n])
<1>1. PICK a : Executors = {a}
  BY DEF OneExecutor
<1>2. CASE Pick(a) \/ Execute(a) \/ Crash(a)
  BY <1>1, <1>2, ExecutorWrites
<1>3. CASE CancelSteps
  <2>1. \/ steps'[n] = steps[n]
        \/ steps[n].status \notin {"SUCCEEDED", "SKIPPED"} /\ steps'[n].status = "CANCELLED"
    BY <1>3 DEF CancelSteps, Shape, Rows
  <2> QED
    BY <2>1 DEF Written, Started
<1>4. CASE steps' = steps
  BY <1>4 DEF Written, Started
<1> QED
  BY <1>1, <1>2, <1>3, <1>4 DEF Next, vars, CancelCheck, CancelWrite, DueComes

\* One executor never replays a step: on any graph, whatever is resumed,
\* retried, cancelled or crashes, a row that is SUCCEEDED or SKIPPED stays as it
\* is unless the step is compensated.
THEOREM NothingIsReplayed == OneExecutor => (Spec => NeverReplayed)
<1> SUFFICES ASSUME OneExecutor PROVE Spec => NeverReplayed
  OBVIOUS
<1>1. Shape /\ Mirror /\ [Next]_vars =>
        [\A n \in Nodes : steps[n].status \in {"SUCCEEDED", "SKIPPED"} =>
           \/ steps'[n] = steps[n]
           \/ steps[n].status = "SUCCEEDED" /\ steps'[n] = [steps[n] EXCEPT !.status = "COMPENSATED"]]_vars
  BY Writes DEF Written
<1>2. Spec => []Mirror
  BY Mirrored
<1> QED
  BY <1>1, <1>2, Shaped, PTL DEF Spec, NeverReplayed

\* One executor starts a handler only when every node that leads to it is over.
THEOREM SourcesComeFirst == OneExecutor => (Spec => StartsAfterSources)
<1> SUFFICES ASSUME OneExecutor PROVE Spec => StartsAfterSources
  OBVIOUS
<1>1. Shape /\ Mirror /\ [Next]_vars =>
        [\A n \in Nodes : steps'[n].status = "RUNNING" /\ steps[n].status # "RUNNING" =>
           \A e \in Into(n) : Over(steps[e.source])]_vars
  BY Writes DEF Started, AllOver
<1>2. Spec => []Mirror
  BY Mirrored
<1> QED
  BY <1>1, <1>2, Shaped, PTL DEF Spec, StartsAfterSources

----------------------------------------------------------------------------
(* A failure that halts the run is undone *)

\* Only a settled node becomes FAILED, and then the run halts or an error edge
\* leads on; only a compensated one becomes COMPENSATED, and none CANCELLED.
LEMMA FailsAndUndoes ==
  ASSUME Shape, NEW a, Executors = {a}, Pick(a) \/ Execute(a) \/ Crash(a), NEW n \in Nodes
  PROVE  /\ steps'[n].status = "FAILED" =>
              \/ steps'[n] = steps[n]
              \/ pc[a] = "settle" /\ ("halted" \in flags'[a] \/ n \notin Halting(steps'))
         /\ steps'[n].status = "COMPENSATED" => steps'[n] = steps[n] \/ pc[a] = "undo"
         /\ steps'[n].status = "CANCELLED" => steps'[n] = steps[n]
<1>1. steps \in Rows /\ mem[a] \in Copies /\ mem[a].st \in Rows
  BY DEF Shape, Copies
<1>2. CASE steps' = steps
  BY <1>2
<1>3. CASE \E x \in {"PENDING", "RUNNING", "WAITING", "SUCCEEDED", "SKIPPED"} :
             steps'[n] = steps[n] \/ steps'[n].status = x
  BY <1>3
<1>4. CASE Load(a) \/ Scan(a)
  <2>1. PICK k : \/ steps'[n] = steps[n]
                  \/ steps'[n] = Step("PENDING", "none", k) \/ steps'[n] = Step("SKIPPED", "none", k)
    BY <1>4 DEF Load, Scan
  <2>2. steps'[n] = steps[n] \/ steps'[n].status = "PENDING" \/ steps'[n].status = "SKIPPED"
    BY <2>1 DEF Step
  <2> QED
    BY <2>2
<1>5. CASE Resume(a) \/ Launch(a)
  <2>1. steps'[n] = steps[n] \/ \E x \in {"SUCCEEDED", "RUNNING"} : steps'[n] = [steps[n] EXCEPT !.status = x]
    BY <1>5 DEF Resume, Launch
  <2>2. \A x : [steps[n] EXCEPT !.status = x].status = x
    BY <1>1 DEF Rows
  <2> QED
    BY <1>3, <2>1, <2>2
<1>6. CASE Settle(a)
  <2>1. PICK m \in mem[a].batch :
          \/ SettleWait(a, m) \/ SettleSuccess(a, m) \/ SettleRetry(a, m)
          \/ SettleIgnored(a, m) \/ SettleFailed(a, m)
    BY <1>6 DEF Settle, First
  <2>2. CASE SettleWait(a, m)
    <3>1. steps'[n] = steps[n] \/ steps'[n] = [steps[n] EXCEPT !.status = "WAITING"]
      BY <1>1, <2>2 DEF SettleWait, Rows
    <3>2. [steps[n] EXCEPT !.status = "WAITING"].status = "WAITING"
      BY <1>1 DEF Rows
    <3> QED
      BY <1>3, <3>1, <3>2
  <2>3. CASE \E x \in {"SUCCEEDED", "PENDING", "SKIPPED"} : \E t, k : Record(a, m, Step(x, t, k))
    <3>1. PICK x \in {"SUCCEEDED", "PENDING", "SKIPPED"} : \E t, k : steps' = [steps EXCEPT ![m] = Step(x, t, k)]
      BY <2>3 DEF Record
    <3>2. steps'[n] = steps[n] \/ steps'[n].status = x
      BY <1>1, <3>1 DEF Rows, Step
    <3> QED
      BY <1>3, <3>2
  <2>4. CASE SettleFailed(a, m)
    <3> DEFINE s == Step("FAILED", PolicyOf[m], mem[a].st[m].attempt)
               leads == PolicyOf[m] = "alternative_branch" /\ \E e \in From(m) : e.branch = "error"
    <3>1. steps' = [steps EXCEPT ![m] = s] /\ flags' = [flags EXCEPT ![a] = @ \cup IF leads THEN {} ELSE {"halted"}]
          /\ pc[a] = "settle"
      BY <1>6, <2>4 DEF SettleFailed, Record, AfterSettle, Settle
    <3>2. ~leads => "halted" \in flags'[a]
      BY <3>1 DEF Shape
    <3>3. s.status = "FAILED" /\ s.tag = PolicyOf[m]
      BY DEF Step
    <3>4. steps'[n] = IF n = m THEN s ELSE steps[n]
      BY <1>1, <3>1 DEF Rows
    <3> HIDE DEF s
    <3>5. leads /\ n = m => n \notin Halting(steps')
      BY <3>3, <3>4 DEF Halting, EdgeIsSatisfied
    <3> QED
      BY <3>1, <3>2, <3>3, <3>4, <3>5
  <2> QED
    BY <2>1, <2>2, <2>3, <2>4 DEF SettleSuccess, SettleRetry, SettleIgnored
<1>7. CASE Undo(a)
  <2>1. PICK m \in mem[a].undo : steps' = [steps EXCEPT ![m].status = "COMPENSATED"] \/ steps' = steps
    BY <1>7 DEF Undo, Last
  <2>2. steps'[n] = steps[n] \/ steps'[n].status = "COMPENSATED"
    BY <1>1, <2>1 DEF Rows
  <2> QED
    BY <1>7, <2>2 DEF Undo
<1>8. Pick(a) \/ Crash(a) \/ Begin(a) \/ Finish(a) \/ Returned(a) => steps' = steps
  BY DEF Pick, Crash, Begin, Finish, Returned
<1> QED
  BY <1>2, <1>4, <1>5, <1>6, <1>7, <1>8 DEF Execute

LEMMA ExecutorFails ==
  ASSUME Shape, Mirror, Failing, NEW a, Executors = {a}, Pick(a) \/ Execute(a) \/ Crash(a)
  PROVE  Failing'
<1> USE DEF Goto
<1>1. /\ steps \in Rows /\ mem[a] \in Copies /\ mem[a].st \in Rows /\ flags[a] \in SUBSET Flags
      /\ pc[a] \in Places /\ run \in RunStatuses /\ crashes \in Nat /\ kept \subseteq Compensable
  BY GraphAssumption DEF Shape, Copies
<1>2. FlagsStand(a) /\ Undoing(a) /\ Halted(a) /\ RunStands(a)
  BY DEF Failing
<1>3. SUFFICES FlagsStand(a)' /\ Undoing(a)' /\ Halted(a)' /\ RunStands(a)'
  BY DEF Failing
<1>4. cancel' = cancel
  BY DEF Pick, Execute, Crash, Begin, Load, Resume, Scan, Launch, Settle, Finish, Undo, Returned
<1>5. \A n \in Nodes :
        /\ steps'[n].status = "FAILED" =>
             \/ steps'[n] = steps[n]
             \/ pc[a] = "settle" /\ ("halted" \in flags'[a] \/ n \notin Halting(steps'))
        /\ steps'[n].status = "COMPENSATED" => steps'[n] = steps[n] \/ pc[a] = "undo"
  BY FailsAndUndoes
<1>6. pc[a] # "settle" => \A n \in Halting(steps') : n \in Halting(steps)
  BY <1>5 DEF Halting
<1>7. CASE Pick(a)
  <2>1. /\ pc[a] = "idle" /\ pc'[a] = "called" /\ run \in {"QUEUED", "WAITING"}
        /\ UNCHANGED <<run, steps, mem, flags, kept, crashes>>
    BY <1>7 DEF Pick, Shape
  <2> QED
    BY <1>2, <1>4, <2>1 DEF FlagsStand, Undoing, Halted, RunStands, Undone
<1>8. CASE Returned(a)
  <2>1. /\ pc[a] = "returned" /\ (pc'[a] = "idle" \/ (pc'[a] = "called" /\ run \notin TerminalRun))
        /\ UNCHANGED <<run, steps, mem, flags, kept, crashes>>
    BY <1>8 DEF Returned, Shape
  <2> QED
    BY <1>2, <1>4, <2>1 DEF FlagsStand, Undoing, Halted, RunStands, Undone, TerminalRun
<1>9. CASE Begin(a)
  <2>1. /\ pc[a] = "called" /\ pc'[a] = "load" /\ run' = "RUNNING"
        /\ UNCHANGED <<steps, mem, flags, kept, crashes>>
    BY <1>9 DEF Begin, Shape
  <2> QED
    BY <1>2, <1>4, <2>1 DEF FlagsStand, Undoing, Halted, RunStands, Undone
<1>10. CASE Load(a) \/ Resume(a) \/ Scan(a) \/ Launch(a)
  <2>1. /\ pc[a] \in {"load", "resume", "scan", "launch"} /\ (pc'[a] \in {"resume", "scan", "launch", "finish"} \/ pc'[a] = "settle")
        /\ UNCHANGED <<run, flags, kept, crashes>>
    BY <1>10 DEF Load, Resume, Scan, Launch, Shape
  <2>2. flags[a] = {}
    BY <1>2, <2>1 DEF FlagsStand
  <2>3. crashes = 0 => Halting(steps) = {}
    BY <1>2, <2>1 DEF Halted
  <2> QED
    BY <1>2, <1>4, <1>5, <1>6, <2>1, <2>2, <2>3 DEF FlagsStand, Undoing, Halted, RunStands
<1>11. CASE Settle(a)
  <2>1. PICK m \in mem[a].batch, raised \in SUBSET Flags : AfterSettle(a, m, raised)
    <3>1. PICK n \in mem[a].batch :
            \/ SettleWait(a, n) \/ SettleSuccess(a, n) \/ SettleRetry(a, n)
            \/ SettleIgnored(a, n) \/ SettleFailed(a, n)
      BY <1>11 DEF Settle, First
    <3>2. \E raised \in {{}, {"suspended"}, {"retry"}, {"halted"}} : AfterSettle(a, n, raised)
      BY <3>1 DEF SettleWait, SettleSuccess, SettleRetry, SettleIgnored, SettleFailed
    <3> QED
      BY <3>2 DEF Flags
  <2>2. pc[a] = "settle" /\ UNCHANGED <<run, kept, crashes>>
    BY <1>11 DEF Settle
  <2>3. flags'[a] = flags[a] \cup raised /\ pc'[a] \in {"settle", "finish", "scan"} /\ (pc'[a] = "scan" => flags'[a] = {})
    BY <2>1 DEF AfterSettle, Shape
  <2>4. crashes = 0 /\ Halting(steps') # {} => "halted" \in flags'[a]
    <3> SUFFICES ASSUME crashes = 0, NEW n \in Halting(steps'), "halted" \notin flags'[a] PROVE FALSE
      OBVIOUS
    <3>1. n \in Nodes /\ steps'[n].status = "FAILED"
      BY DEF Halting
    <3>2. steps'[n] = steps[n]
      BY <1>5, <3>1
    <3>3. n \in Halting(steps)
      BY <3>2 DEF Halting
    <3> QED
      BY <1>2, <2>2, <2>3, <3>3 DEF Halted
  <2> QED
    BY <1>2, <1>4, <1>5, <2>2, <2>3, <2>4 DEF FlagsStand, Undoing, Halted, RunStands
<1>12. CASE Finish(a)
  <2> DEFINE undo == IF "halted" \in flags[a] THEN ToUndo(mem[a].st) ELSE {}
  <2>1. /\ pc[a] = "finish" /\ flags'[a] = {} /\ UNCHANGED <<steps, kept, crashes>>
        /\ run' = Outcome(a)
        /\ IF undo = {} THEN pc'[a] = "returned"
                        ELSE pc'[a] = "undo" /\ mem' = [mem EXCEPT ![a].undo = undo]
    BY <1>12 DEF Finish, Shape
  <2>2. undo # {} => mem'[a].undo = undo
    BY <1>1, <2>1 DEF Shape, Copies
  <2>3. "halted" \in flags[a] => run' = "FAILED" /\ Undone(undo)
    <3> SUFFICES ASSUME "halted" \in flags[a] PROVE run' = "FAILED" /\ Undone(undo)
      OBVIOUS
    <3>1. Copied("finish", mem[a], steps)
      BY <2>1 DEF Mirror, Loaded, Holding
    <3>2. \A n \in Nodes : steps[n].status = "SUCCEEDED" => mem[a].st[n].status = "SUCCEEDED"
      BY <3>1 DEF Copied, Mirrors
    <3>3. undo = ToUndo(mem[a].st) /\ Compensable \subseteq Nodes
      BY GraphAssumption
    <3>4. Undone(undo)
      BY <3>2, <3>3 DEF Undone, ToUndo
    <3> QED
      BY <2>1, <3>4 DEF Outcome
  <2>4. /\ run' \in {"FAILED", "QUEUED", "WAITING", "SUCCEEDED"}
        /\ "halted" \notin flags[a] => undo = {}
    BY <2>1 DEF Outcome
  <2>5. cancel = "none" => \A n \in Nodes : steps[n].status # "COMPENSATED"
    BY <1>2, <2>1 DEF RunStands
  <2> HIDE DEF undo
  <2>6. FlagsStand(a)' /\ Undoing(a)'
    BY <2>1, <2>2, <2>3, <2>4 DEF FlagsStand, Undoing, Undone
  <2>7. Halted(a)'
    BY <1>2, <2>1, <2>2, <2>3, <2>4 DEF Halted, Undone
  <2>8. RunStands(a)'
    BY <1>4, <2>1, <2>3, <2>4, <2>5 DEF RunStands
  <2> QED
    BY <2>6, <2>7, <2>8
<1>13. CASE Undo(a)
  <2>1. PICK n \in mem[a].undo :
          /\ \/ steps' = [steps EXCEPT ![n].status = "COMPENSATED"] /\ kept' = kept
             \/ kept' = kept \cup {n} /\ steps' = steps
          /\ IF mem[a].undo = {n}
               THEN Goto(a, "returned") /\ mem' = [mem EXCEPT ![a] = Blank]
               ELSE pc' = pc /\ mem' = [mem EXCEPT ![a].undo = @ \ {n}]
    BY <1>13 DEF Undo, Last
  <2>2. pc[a] = "undo" /\ UNCHANGED <<run, flags, crashes>>
    BY <1>13 DEF Undo
  <2>3. Undone(mem[a].undo) /\ run \in {"FAILED", "CANCELLED"} /\ flags[a] = {}
    BY <1>2, <2>2 DEF Undoing, FlagsStand
  <2>4. \A x \in Nodes : steps'[x].status = "SUCCEEDED" => steps[x].status = "SUCCEEDED" /\ (x # n \/ n \in kept')
    BY <1>1, <2>1 DEF Rows
  <2>5. kept \subseteq kept' /\ Compensable \subseteq Nodes
    BY <2>1, GraphAssumption
  <2>6. \A x \in Compensable : steps'[x].status = "SUCCEEDED" => x \in kept' \cup (mem[a].undo \ {n})
    BY <2>3, <2>4, <2>5 DEF Undone
  <2>7. \/ mem[a].undo = {n} /\ pc'[a] = "returned"
        \/ pc'[a] = "undo" /\ mem'[a].undo = mem[a].undo \ {n}
    BY <1>1, <2>1, <2>2 DEF Shape, Copies
  <2>8. FlagsStand(a)' /\ Undoing(a)'
    BY <2>2, <2>3, <2>6, <2>7 DEF FlagsStand, Undoing, Undone
  <2>9. Halted(a)'
    BY <2>2, <2>3, <2>6, <2>7 DEF Halted, Undone
  <2>10. RunStands(a)'
    BY <1>2, <1>4, <2>2, <2>3, <2>7 DEF RunStands
  <2> QED
    BY <2>8, <2>9, <2>10
<1>14. CASE Crash(a)
  <2>1. /\ pc'[a] = "idle" /\ flags'[a] = {} /\ crashes' = crashes + 1
        /\ UNCHANGED <<run, steps, kept>>
    BY <1>14 DEF Crash, Shape
  <2>2. crashes' # 0
    BY <1>1, <2>1
  <2> QED
    BY <1>2, <1>4, <2>1, <2>2 DEF FlagsStand, Undoing, Halted, RunStands
<1> QED
  BY <1>7, <1>8, <1>9, <1>10, <1>11, <1>12, <1>13, <1>14 DEF Execute

LEMMA FailingStep ==
  ASSUME OneExecutor, Shape, Mirror, Failing, [Next]_vars
  PROVE  Failing'
<1>1. PICK a : Executors = {a}
  BY DEF OneExecutor
<1>2. FlagsStand(a) /\ Undoing(a) /\ Halted(a) /\ RunStands(a)
  BY <1>1 DEF Failing
<1>3. CASE Pick(a) \/ Execute(a) \/ Crash(a)
  BY <1>1, <1>3, ExecutorFails
<1>4. CASE UNCHANGED <<run, steps, pc, mem, flags, kept, crashes>> /\ (cancel' = "none" => cancel = "none")
  BY <1>1, <1>2, <1>4 DEF Failing, FlagsStand, Undoing, Halted, RunStands, Undone
<1>5. CASE CancelSteps
  <2>1. \A n \in Nodes : steps'[n] = steps[n] \/ steps'[n].status = "CANCELLED"
    BY <1>5 DEF CancelSteps, Shape, Rows
  <2>2. \A n \in Halting(steps') : n \in Halting(steps)
    BY <2>1 DEF Halting
  <2>3. \A left : Undone(left) => \A n \in Compensable : steps'[n].status = "SUCCEEDED" => n \in kept \cup left
    BY <2>1, GraphAssumption DEF Undone
  <2>4. UNCHANGED <<run, pc, mem, flags, kept, crashes>> /\ cancel' # "none"
    BY <1>5 DEF CancelSteps
  <2>5. FlagsStand(a)' /\ Undoing(a)' /\ RunStands(a)'
    BY <1>2, <2>3, <2>4 DEF FlagsStand, Undoing, Undone, RunStands
  <2>6. Halted(a)'
    BY <1>2, <2>2, <2>3, <2>4 DEF Halted, Undone
  <2> QED
    BY <1>1, <2>5, <2>6 DEF Failing
<1>6. CASE CancelWrite
  <2>1. run' = "CANCELLED" /\ cancel' # "none" /\ UNCHANGED <<steps, pc, mem, flags, kept, crashes>>
    BY <1>6 DEF CancelWrite
  <2> QED
    BY <1>1, <1>2, <2>1 DEF Failing, FlagsStand, Undoing, Halted, RunStands, Undone
<1> QED
  BY <1>1, <1>3, <1>4, <1>5, <1>6 DEF Next, vars, CancelCheck, DueComes

LEMMA FailingInit == Init => Failing
<1> SUFFICES ASSUME Init PROVE Failing
  OBVIOUS
<1>1. \A n \in Nodes : steps[n].status = "ABSENT"
  BY DEF Init, Blank, Step
<1> QED
  BY <1>1 DEF Init, Failing, FlagsStand, Undoing, Halted, RunStands, Halting

LEMMA FailingKept == OneExecutor => (Spec => []Failing)
<1> SUFFICES ASSUME OneExecutor PROVE Spec => []Failing
  OBVIOUS
<1>1. Shape /\ Mirror /\ Failing /\ [Next]_vars => Failing'
  BY FailingStep
<1>2. Spec => []Mirror
  BY Mirrored
<1> QED
  BY <1>1, <1>2, FailingInit, Shaped, PTL DEF Spec

\* A run that a step left FAILED has undone every action it can undo, unless
\* the compensation itself failed, on any graph and however often the run was
\* retried or resumed before; no other run undoes anything.
THEOREM FailuresAreUndone == OneExecutor => (Spec => []FailureIsUndone)
<1> SUFFICES ASSUME OneExecutor PROVE Spec => []FailureIsUndone
  OBVIOUS
<1>1. Failing => FailureIsUndone
  BY DEF OneExecutor, Failing, Halted, RunStands, Undone, FailureIsUndone
<1>2. Spec => []Failing
  BY FailingKept
<1> QED
  BY <1>1, <1>2, PTL

----------------------------------------------------------------------------
(* What is decided stays decided *)

\* New steps in which what was over is unchanged, and each change is PENDING or
\* itself decided.
LEMMA DecidedStays ==
  ASSUME NEW st, NEW new, \A n \in Nodes : Decided(n, st),
         \A n \in Nodes : Over(st[n]) => new[n] = st[n],
         \A n \in Nodes : new[n] = st[n] \/ new[n].status = "PENDING" \/ Decided(n, new)
  PROVE  \A n \in Nodes : Decided(n, new)
<1> SUFFICES ASSUME NEW n \in Nodes, new[n] = st[n] \/ new[n].status = "PENDING" PROVE Decided(n, new)
  OBVIOUS
<1>1. CASE new[n].status = "PENDING"
  BY <1>1 DEF Decided
<1>2. CASE new[n] = st[n] /\ new[n].status \in {"ABSENT", "PENDING"}
  BY <1>2 DEF Decided
<1>3. CASE new[n] = st[n] /\ new[n].status \notin {"ABSENT", "PENDING"}
  <2>1. Decided(n, st) /\ AllOver(n, st)
    BY <1>3 DEF Decided
  <2>2. AllOver(n, new) /\ (Reached(n, new) <=> Reached(n, st))
    BY <2>1, OverStays
  <2> QED
    BY <1>3, <2>1, <2>2 DEF Decided
<1> QED
  BY <1>1, <1>2, <1>3

LEMMA HaltingStays ==
  ASSUME NEW st, NEW new, \A n \in Nodes : new[n].status = "FAILED" => new[n] = st[n]
  PROVE  \A n \in Halting(new) : n \in Halting(st)
  BY DEF Halting

\* A settled node was pending, ready and in its turn: whatever it became is
\* decided by the edges it was started for.
LEMMA SettleFollows ==
  ASSUME Shape, NEW a, Executors = {a}, Copied("settle", mem[a], steps), Settle(a),
         Followed("settle", mem[a].st, flags[a])
  PROVE  Followed(pc'[a], mem'[a].st, flags'[a])
<1>1. PICK n \in mem[a].batch :
        \/ SettleWait(a, n) \/ SettleSuccess(a, n) \/ SettleRetry(a, n)
        \/ SettleIgnored(a, n) \/ SettleFailed(a, n)
  BY DEF Settle, First
<1> DEFINE st == mem[a].st
           new == mem'[a].st
<1>2. n \in Nodes /\ st \in Rows /\ st[n].status = "PENDING" /\ AllOver(n, st) /\ Reached(n, st)
  BY <1>1 DEF Shape, Copies, Copied
<1>3. ASSUME NEW s, NEW raised,
             mem' = [mem EXCEPT ![a].st[n] = s, ![a].batch = @ \ {n}],
             AfterSettle(a, n, raised),
             s.status \in {"PENDING", "WAITING", "SUCCEEDED", "SKIPPED", "FAILED"},
             s.status = "WAITING" => TypeOf[n] = "wait" /\ "suspended" \in raised,
             s.status = "SKIPPED" => s.tag = "ignore",
             s.status = "FAILED" => "halted" \in raised \/ \E e \in From(n) : EdgeIsSatisfied(e, s)
      PROVE  Followed(pc'[a], new, flags'[a])
  <2>1. \A x \in Nodes : new[x] = IF x = n THEN s ELSE st[x]
    BY <1>2, <1>3 DEF Shape, Copies, Rows
  <2>2. flags'[a] = flags[a] \cup raised
    BY <1>3 DEF AfterSettle, Shape
  <2> HIDE DEF new, st
  <2>3. \A x \in Nodes : Over(st[x]) => new[x] = st[x]
    BY <1>2, <2>1 DEF Over, TerminalStep
  <2>4. AllOver(n, new) /\ Reached(n, new)
    BY <1>2, <2>3, OverStays
  <2>5. Decided(n, new)
    BY <1>2, <1>3, <2>1, <2>4 DEF Decided
  <2>6. \A x \in Nodes : Decided(x, new)
    <3>1. \A x \in Nodes : Decided(x, st)
      BY DEF Followed, st
    <3> QED
      BY <2>1, <2>3, <2>5, <3>1, DecidedStays
  <2>7. \A x \in Nodes : new[x].status # "ABSENT"
    BY <1>3, <2>1 DEF Followed, Holding, st
  <2>8. (\E x \in Nodes : new[x].status = "WAITING") => "suspended" \in flags'[a]
    BY <1>3, <2>1, <2>2 DEF Followed, Holding, st
  <2>9. Halting(new) # {} => "halted" \in flags'[a]
    <3> SUFFICES ASSUME NEW x \in Halting(new) PROVE "halted" \in flags'[a]
      OBVIOUS
    <3>1. CASE x = n
      BY <1>2, <1>3, <2>1, <2>2, <3>1 DEF Halting
    <3>2. CASE x # n
      <4>1. x \in Halting(st)
        BY <2>1, <3>2 DEF Halting
      <4> QED
        BY <2>2, <4>1 DEF Followed, st
    <3> QED
      BY <3>1, <3>2
  <2> QED
    BY <2>6, <2>7, <2>8, <2>9 DEF Followed
<1>4. ASSUME NEW status \in {"PENDING", "SUCCEEDED"}, NEW tag, NEW k, NEW raised,
             Record(a, n, Step(status, tag, k)), AfterSettle(a, n, raised)
      PROVE  Followed(pc'[a], new, flags'[a])
  <2>1. Step(status, tag, k).status = status
    BY DEF Step
  <2> QED
    BY <1>3, <1>4, <2>1 DEF Record
<1>5. CASE SettleWait(a, n)
  <2>1. Step("WAITING", "none", 0).status = "WAITING"
    BY DEF Step
  <2> QED
    BY <1>3, <1>5, <2>1 DEF SettleWait
<1>6. CASE SettleSuccess(a, n)
  BY <1>4, <1>6 DEF SettleSuccess
<1>7. CASE SettleRetry(a, n)
  BY <1>4, <1>7 DEF SettleRetry
<1>8. CASE SettleIgnored(a, n)
  <2> DEFINE s == Step("SKIPPED", "ignore", mem[a].st[n].attempt)
  <2>1. s.status = "SKIPPED" /\ s.tag = "ignore"
    BY DEF Step
  <2>2. mem' = [mem EXCEPT ![a].st[n] = s, ![a].batch = @ \ {n}] /\ AfterSettle(a, n, {})
    BY <1>8 DEF SettleIgnored, Record
  <2> HIDE DEF s
  <2> QED
    BY <1>3, <2>1, <2>2
<1>9. CASE SettleFailed(a, n)
  <2> DEFINE s == Step("FAILED", PolicyOf[n], mem[a].st[n].attempt)
             leads == PolicyOf[n] = "alternative_branch" /\ \E e \in From(n) : e.branch = "error"
             raised == IF leads THEN {} ELSE {"halted"}
  <2>1. s.status = "FAILED" /\ s.tag = PolicyOf[n]
    BY DEF Step
  <2>2. mem' = [mem EXCEPT ![a].st[n] = s, ![a].batch = @ \ {n}] /\ AfterSettle(a, n, raised)
    BY <1>9 DEF SettleFailed, Record
  <2>3. "halted" \in raised \/ \E e \in From(n) : EdgeIsSatisfied(e, s)
    BY <2>1 DEF EdgeIsSatisfied
  <2> HIDE DEF s, raised
  <2> QED
    BY <1>3, <2>1, <2>2, <2>3
<1> QED
  BY <1>1, <1>5, <1>6, <1>7, <1>8, <1>9

\* The steps before a node is settled: rows are created, ended waits taken up,
\* nodes out of reach skipped.
LEMMA ScanFollows ==
  ASSUME Shape, NEW a, Executors = {a}, Load(a) \/ Resume(a) \/ Scan(a),
         Followed(pc[a], Known(a), flags[a]), flags[a] = {}
  PROVE  Followed(pc'[a], mem'[a].st, {})
<1> USE DEF Goto
<1> DEFINE st == Known(a)
           new == mem'[a].st
<1>1. steps \in Rows /\ mem[a] \in Copies /\ mem[a].st \in Rows /\ st \in Rows
  BY DEF Shape, Copies, Known
<1>2. /\ \A n \in Nodes : Decided(n, st)
      /\ Halting(st) = {}
      /\ pc[a] \in Holding \ {"resume"} => \A n \in Nodes : st[n].status # "WAITING"
  BY DEF Followed
<1>3. ASSUME \A n \in Nodes : Over(st[n]) => new[n] = st[n],
             \A n \in Nodes : \/ new[n] = st[n]
                              \/ new[n].status = "PENDING"
                              \/ new[n].status # "FAILED" /\ Decided(n, new),
             pc'[a] \in Holding => \A n \in Nodes : new[n].status # "ABSENT",
             pc'[a] \in Holding \ {"resume"} => \A n \in Nodes : new[n].status # "WAITING"
      PROVE  Followed(pc'[a], new, {})
  <2> HIDE DEF st, new
  <2>1. \A n \in Nodes : Decided(n, new)
    BY <1>2, <1>3, DecidedStays
  <2>2. \A n \in Halting(new) : n \in Halting(st)
    <3>1. \A n \in Nodes : new[n].status = "FAILED" => new[n] = st[n]
      BY <1>3
    <3> QED
      BY <3>1, HaltingStays
  <2>3. Halting(new) = {}
    BY <1>2, <2>2
  <2> QED
    BY <1>3, <2>1, <2>3 DEF Followed
<1>4. CASE Load(a)
  <2>1. /\ st = steps /\ new = steps' /\ pc'[a] = "resume"
        /\ \A n \in Nodes : steps'[n] = IF steps[n].status = "ABSENT" THEN Step("PENDING", "none", 0) ELSE steps[n]
    BY <1>1, <1>4 DEF Load, Known, Loaded, Holding, Shape, Copies
  <2>2. Step("PENDING", "none", 0).status = "PENDING"
    BY DEF Step
  <2> HIDE DEF st, new
  <2>3. \A n \in Nodes : Over(st[n]) => new[n] = st[n]
    BY <2>1 DEF Over, TerminalStep
  <2>4. Followed(pc'[a], new, {})
    BY <1>3, <2>1, <2>2, <2>3 DEF Holding
  <2> QED
    BY <2>4 DEF new
<1>5. CASE Resume(a)
  <2> DEFINE over == {n \in Nodes : TypeOf[n] = "wait" /\ st[n].status = "WAITING"}
  <2>1. /\ pc[a] = "resume" /\ pc'[a] = "scan" /\ st = mem[a].st
        /\ \A n \in Nodes : new[n] = IF n \in over THEN [st[n] EXCEPT !.status = "SUCCEEDED"] ELSE st[n]
    BY <1>1, <1>5 DEF Resume, Known, Loaded, Holding, Shape, Copies
  <2>2. \A n \in Nodes : [st[n] EXCEPT !.status = "SUCCEEDED"].status = "SUCCEEDED"
    BY <1>1 DEF Rows
  <2>3. \A n \in Nodes : st[n].status # "ABSENT"
    BY <2>1 DEF Followed, Holding
  <2> HIDE DEF st, new
  <2>4. \A n \in Nodes : Over(st[n]) => new[n] = st[n]
    BY <2>1 DEF Over, TerminalStep
  <2>5. ASSUME NEW n \in over PROVE new[n].status = "SUCCEEDED" /\ Decided(n, new)
    <3>1. n \in Nodes /\ new[n].status = "SUCCEEDED"
      BY <2>1, <2>2
    <3>2. AllOver(n, st) /\ Reached(n, st)
      BY <1>2, <2>5 DEF Decided
    <3>3. AllOver(n, new) /\ Reached(n, new)
      BY <2>4, <3>1, <3>2, OverStays
    <3> QED
      BY <3>1, <3>3 DEF Decided
  <2>6. \A n \in Nodes : st[n].status = "WAITING" => n \in over
    BY <1>2 DEF Decided
  <2>7. \A n \in Nodes : n \notin over => new[n] = st[n]
    BY <2>1
  <2> HIDE DEF over
  <2>8. \A n \in Nodes : new[n] = st[n] \/ (new[n].status = "SUCCEEDED" /\ Decided(n, new))
    BY <2>5, <2>7
  <2>9. \A n \in Nodes : new[n].status # "ABSENT" /\ new[n].status # "WAITING"
    BY <2>3, <2>5, <2>6, <2>7
  <2>10. Followed(pc'[a], new, {})
    BY <1>3, <2>4, <2>8, <2>9
  <2> QED
    BY <2>10 DEF new
<1>6. CASE Scan(a)
  <2> DEFINE skipped == OutOfReach(st)
  <2>1. /\ pc[a] = "scan" /\ st = mem[a].st
        /\ \A n \in Nodes : new[n] = IF n \in skipped THEN Step("SKIPPED", "none", st[n].attempt) ELSE st[n]
    BY <1>1, <1>6 DEF Scan, Known, Loaded, Holding, Shape, Copies
  <2>2. \A n \in Nodes : st[n].status # "ABSENT" /\ st[n].status # "WAITING"
    BY <1>2, <2>1 DEF Followed, Holding
  <2> HIDE DEF st, new
  <2>3. /\ \A n \in Nodes : Over(st[n]) => new[n] = st[n]
        /\ \A n \in skipped : AllOver(n, new) /\ ~Reached(n, new)
    BY <1>1, <2>1, ScanDecides
  <2>4. ASSUME NEW n \in Nodes, n \in skipped PROVE new[n].status = "SKIPPED" /\ Decided(n, new)
    <3>1. new[n] = Step("SKIPPED", "none", st[n].attempt)
      BY <2>1, <2>4
    <3>2. new[n].status = "SKIPPED" /\ new[n].tag = "none"
      BY <3>1 DEF Step
    <3> QED
      BY <2>3, <2>4, <3>2 DEF Decided
  <2>5. \A n \in Nodes : n \notin skipped => new[n] = st[n]
    BY <2>1
  <2> HIDE DEF skipped
  <2>6. \A n \in Nodes : new[n] = st[n] \/ (new[n].status = "SKIPPED" /\ Decided(n, new))
    BY <2>4, <2>5
  <2>7. \A n \in Nodes : new[n].status # "ABSENT" /\ new[n].status # "WAITING"
    BY <2>2, <2>6
  <2>8. Followed(pc'[a], new, {})
    BY <1>3, <2>3, <2>6, <2>7
  <2> QED
    BY <2>8 DEF new
<1> QED
  BY <1>4, <1>5, <1>6

LEMMA ExecutorFollows ==
  ASSUME Shape, Mirror, Failing, Following, NEW a, Executors = {a}, Pick(a) \/ Execute(a) \/ Crash(a)
  PROVE  Following'
<1> USE DEF Goto
<1>1. SUFFICES ASSUME Undisturbed'
               PROVE  /\ \A n \in Nodes : steps'[n].status # "CANCELLED"
                      /\ run' # "FAILED" => Followed(pc'[a], Known(a)', flags'[a])
                      /\ run' = "SUCCEEDED" => \A n \in Nodes : steps'[n].status \in {"SUCCEEDED", "SKIPPED", "FAILED"}
  BY DEF Following
<1>2. cancel' = cancel
  BY DEF Pick, Execute, Crash, Begin, Load, Resume, Scan, Launch, Settle, Finish, Undo, Returned
<1>3. Undisturbed /\ crashes = 0 /\ cancel = "none" /\ ~Crash(a)
  <2>1. crashes \in Nat
    BY GraphAssumption DEF Shape
  <2>2. ~Crash(a)
    BY <1>1, <2>1 DEF Undisturbed, Crash
  <2>3. crashes' = crashes
    BY <2>2 DEF Pick, Execute, Begin, Load, Resume, Scan, Launch, Settle, Finish, Undo, Returned
  <2> QED
    BY <1>1, <1>2, <2>2, <2>3 DEF Undisturbed
<1>4. /\ \A n \in Nodes : steps[n].status # "CANCELLED"
      /\ run # "FAILED" => Followed(pc[a], Known(a), flags[a])
      /\ run = "SUCCEEDED" => \A n \in Nodes : steps[n].status \in {"SUCCEEDED", "SKIPPED", "FAILED"}
  BY <1>3 DEF Following
<1>5. FlagsStand(a) /\ Undoing(a) /\ RunStands(a)
  BY DEF Failing
<1>6. steps \in Rows /\ mem[a] \in Copies /\ mem[a].st \in Rows
  BY DEF Shape, Copies
<1>7. \A n \in Nodes : steps'[n].status # "CANCELLED"
  <2> SUFFICES ASSUME NEW n \in Nodes, steps'[n].status = "CANCELLED" PROVE FALSE
    OBVIOUS
  <2> QED
    BY <1>4, FailsAndUndoes
<1>8. CASE Pick(a) \/ Begin(a) \/ Returned(a)
  <2>1. /\ pc[a] \notin Holding /\ pc'[a] \notin Holding /\ UNCHANGED <<steps, flags>>
        /\ run' = run \/ (pc[a] = "called" /\ run' = "RUNNING")
    BY <1>8 DEF Pick, Begin, Returned, Holding, Shape
  <2>2. run' # "FAILED" => run # "FAILED"
    BY <1>3, <1>5, <2>1 DEF RunStands
  <2>3. Known(a) = steps /\ Known(a)' = steps
    BY <2>1 DEF Known, Loaded
  <2> QED
    BY <1>4, <1>7, <2>1, <2>2, <2>3 DEF Followed
<1>9. CASE Load(a) \/ Resume(a) \/ Scan(a)
  <2>1. /\ pc[a] \in {"load", "resume", "scan"} /\ pc'[a] \in Holding /\ UNCHANGED <<run, flags>>
    BY <1>9 DEF Load, Resume, Scan, Holding, Shape
  <2>2. flags[a] = {} /\ flags'[a] = {} /\ run \notin {"FAILED", "SUCCEEDED"}
    BY <1>3, <1>5, <2>1 DEF FlagsStand, RunStands
  <2>3. Followed(pc'[a], mem'[a].st, {})
    BY <1>4, <1>9, <2>2, ScanFollows
  <2>4. Known(a)' = mem'[a].st
    BY <2>1 DEF Known, Loaded
  <2> QED
    BY <1>7, <2>1, <2>2, <2>3, <2>4
<1>10. CASE Launch(a)
  <2>1. /\ pc[a] = "launch" /\ pc'[a] = "settle" /\ UNCHANGED <<run, flags, mem>>
    BY <1>10 DEF Launch, Shape
  <2>2. run \notin {"FAILED", "SUCCEEDED"}
    BY <1>3, <1>5, <2>1 DEF RunStands
  <2>3. Known(a)' = mem[a].st /\ Known(a) = mem[a].st
    BY <2>1 DEF Known, Loaded, Holding
  <2> QED
    BY <1>4, <1>7, <2>1, <2>2, <2>3 DEF Followed, Holding
<1>11. CASE Settle(a)
  <2>1. pc[a] = "settle" /\ pc'[a] \in {"settle", "finish", "scan"} /\ UNCHANGED run
    BY <1>11 DEF Settle, SettleWait, SettleSuccess, SettleRetry, SettleIgnored, SettleFailed, AfterSettle, Shape
  <2>2. run \notin {"FAILED", "SUCCEEDED"}
    BY <1>3, <1>5, <2>1 DEF RunStands
  <2>3. Known(a)' = mem'[a].st /\ Known(a) = mem[a].st
    BY <2>1 DEF Known, Loaded, Holding
  <2>4. Copied("settle", mem[a], steps)
    BY <2>1 DEF Mirror, Loaded, Holding
  <2>5. Followed(pc'[a], mem'[a].st, flags'[a])
    BY <1>4, <1>11, <2>1, <2>2, <2>3, <2>4, SettleFollows
  <2> QED
    BY <1>7, <2>1, <2>2, <2>3, <2>5
<1>12. CASE Finish(a)
  <2>1. /\ pc[a] = "finish" /\ flags'[a] = {} /\ steps' = steps /\ run' = Outcome(a)
        /\ "halted" \notin flags[a] => pc'[a] = "returned"
    BY <1>12 DEF Finish, Shape
  <2>2. SUFFICES ASSUME "halted" \notin flags[a]
                 PROVE  /\ run' # "FAILED" => Followed("returned", steps, {})
                        /\ run' = "SUCCEEDED" => \A n \in Nodes : steps[n].status \in {"SUCCEEDED", "SKIPPED", "FAILED"}
    <3>1. "halted" \in flags[a] => run' = "FAILED"
      BY <2>1 DEF Outcome
    <3>2. pc'[a] = "returned" => Known(a)' = steps
      BY <2>1 DEF Known, Loaded, Holding
    <3> QED
      BY <1>7, <2>1, <2>2, <3>1, <3>2
  <2>3. run # "FAILED" /\ Followed("finish", mem[a].st, flags[a])
    <3>1. run # "FAILED" /\ Known(a) = mem[a].st
      BY <1>3, <1>5, <2>1 DEF RunStands, Known, Loaded, Holding
    <3> QED
      BY <1>4, <2>1, <3>1
  <2>4. mem[a].st = steps
    <3>1. Copied("finish", mem[a], steps)
      BY <2>1 DEF Mirror, Loaded, Holding
    <3>2. \A n \in Nodes : /\ steps[n].status = mem[a].st[n].status
                           /\ steps[n].tag = mem[a].st[n].tag /\ steps[n].attempt = mem[a].st[n].attempt
      BY <1>4, <3>1 DEF Copied, Mirrors
    <3>3. ASSUME NEW n \in Nodes PROVE steps[n] = mem[a].st[n]
      <4>1. /\ steps[n] \in [status : StepStatuses, tag : Tags, attempt : Nat]
            /\ mem[a].st[n] \in [status : StepStatuses, tag : Tags, attempt : Nat]
        BY <1>6 DEF Rows
      <4> QED
        BY <3>2, <4>1
    <3> QED
      BY <1>6, <3>3 DEF Rows
  <2>5. Followed("returned", steps, {})
    BY <2>2, <2>3, <2>4 DEF Followed, Holding
  <2>6. ASSUME run' = "SUCCEEDED", NEW n \in Nodes PROVE steps[n].status \in {"SUCCEEDED", "SKIPPED", "FAILED"}
    <3>1. "suspended" \notin flags[a] /\ steps[n].status # "PENDING"
      BY <2>1, <2>4, <2>6 DEF Outcome
    <3>2. steps[n].status \notin {"ABSENT", "WAITING"}
      BY <2>3, <2>4, <3>1 DEF Followed, Holding
    <3>3. Decided(n, steps)
      BY <2>5 DEF Followed
    <3> QED
      BY <3>1, <3>2, <3>3 DEF Decided
  <2> QED
    BY <2>5, <2>6
<1>13. CASE Undo(a)
  <2>1. pc[a] = "undo" /\ run' = run
    BY <1>13 DEF Undo
  <2>2. run = "FAILED"
    BY <1>3, <1>5, <2>1 DEF Undoing, RunStands
  <2> QED
    BY <1>7, <2>1, <2>2
<1> QED
  BY <1>3, <1>8, <1>9, <1>10, <1>11, <1>12, <1>13 DEF Execute

LEMMA FollowingStep ==
  ASSUME OneExecutor, Shape, Mirror, Failing, Following, [Next]_vars
  PROVE  Following'
<1>1. PICK a : Executors = {a}
  BY DEF OneExecutor
<1>2. CASE Pick(a) \/ Execute(a) \/ Crash(a)
  BY <1>1, <1>2, ExecutorFollows
<1>3. CASE UNCHANGED <<run, steps, pc, mem, flags, cancel, crashes>>
  BY <1>3 DEF Following, Undisturbed, Known, Loaded
<1>4. CASE CancelCheck \/ CancelSteps \/ CancelWrite
  BY <1>4 DEF CancelCheck, CancelSteps, CancelWrite, Following, Undisturbed
<1> QED
  BY <1>1, <1>2, <1>3, <1>4 DEF Next, vars, DueComes

LEMMA FollowingInit == Init => Following
<1> SUFFICES ASSUME Init PROVE Following
  OBVIOUS
<1>1. \A n \in Nodes : steps[n].status = "ABSENT"
  BY DEF Init, Blank, Step
<1>2. \A a \in Executors : Known(a) = steps /\ pc[a] = "idle"
  BY DEF Init, Known, Loaded, Holding
<1>3. \A n \in Nodes : Decided(n, steps)
  BY <1>1 DEF Decided
<1>4. \A F : Followed("idle", steps, F)
  BY <1>1, <1>3 DEF Followed, Holding, Halting
<1> QED
  BY <1>1, <1>2, <1>4 DEF Init, Following

\* A run that nothing disturbed and that SUCCEEDED has followed its graph: every
\* node is over, the skipped ones are those no edge led to, and every failure
\* left by an error edge.
THEOREM SuccessesFollowGraph == OneExecutor => (Spec => []SuccessFollowsGraph)
<1> SUFFICES ASSUME OneExecutor PROVE Spec => []SuccessFollowsGraph
  OBVIOUS
<1>1. Shape /\ Mirror /\ Failing /\ Following /\ [Next]_vars => Following'
  BY FollowingStep
<1>2. Failing /\ Following => SuccessFollowsGraph
  <2> SUFFICES ASSUME Failing, Following, run = "SUCCEEDED", Undisturbed, NEW n \in Nodes
               PROVE  /\ steps[n].status \in {"SUCCEEDED", "SKIPPED", "FAILED"}
                      /\ Reached(n, steps) <=> steps[n].status # "SKIPPED" \/ steps[n].tag = "ignore"
                      /\ n \notin Halting(steps)
    BY DEF SuccessFollowsGraph
  <2>1. PICK a : Executors = {a}
    BY DEF OneExecutor
  <2>2. pc[a] \in {"idle", "returned"} /\ flags[a] = {}
    BY <2>1 DEF Failing, RunStands, FlagsStand, Undisturbed
  <2>3. Known(a) = steps
    BY <2>2 DEF Known, Loaded, Holding
  <2>4. Decided(n, steps) /\ Halting(steps) = {} /\ steps[n].status \in {"SUCCEEDED", "SKIPPED", "FAILED"}
    BY <2>1, <2>2, <2>3 DEF Following, Followed
  <2> QED
    BY <2>4 DEF Decided
<1>3. Spec => []Mirror
  BY Mirrored
<1>4. Spec => []Failing
  BY FailingKept
<1> QED
  BY <1>1, <1>2, <1>3, <1>4, FollowingInit, Shaped, PTL DEF Spec
=============================================================================
