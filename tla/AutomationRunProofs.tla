------------------------ MODULE AutomationRunProofs ------------------------
(***************************************************************************)
(* Safety of a run for every graph, every number of actors and of tasks.   *)
(* The context of the run is overwritten from copies read at any time, so   *)
(* each invariant speaks of the context and of every copy alike.            *)
(*                                                                         *)
(* SuccessHasEvidence: each is backed by the tasks as they are now, and     *)
(* stays so because a task that SUCCEEDED never changes again, which rests  *)
(* on each task being in the hands of one actor at most (invariant Hands).  *)
(*                                                                         *)
(* AfterItsNeeds: in each of them no node has gone past one it follows      *)
(* (invariant NeedsInv), and the nodes listed for dispatch are in turn.     *)
(*                                                                         *)
(* OneTaskPerNode and SuccessIsComplete hold where advances do not overlap: *)
(* one actor, no crash, no dispatch that throws (Alone).  Then the context  *)
(* and the copy under way know of every task there is.                      *)
(***************************************************************************)
EXTENDS AutomationRun, TLAPS

\* Node states st name only tasks of t, and are SUCCEEDED only for a task of
\* t that is.
BackedBy(st, t) ==
  \A n \in Tasked :
    /\ st[n].status = "SUCCEEDED" => \E k \in 1 .. Len(t[n]) : t[n][k] = "SUCCEEDED"
    /\ st[n].status = "RUNNING" => st[n].task \in 1 .. Len(t[n])

\* From t to u no task disappears and no success is undone.
Grown(t, u) ==
  \A n \in Nodes :
    /\ Len(t[n]) <= Len(u[n])
    /\ \A k \in 1 .. Len(t[n]) : t[n][k] = "SUCCEEDED" => u[n][k] = "SUCCEEDED"

IsContext(c) ==
  /\ c = [nodes |-> c.nodes, vars |-> c.vars]
  /\ c.nodes = [n \in Nodes |-> c.nodes[n]]

Shape ==
  /\ tasks \in [Nodes -> Seq(TaskStatuses)]
  /\ pc = [a \in Actors |-> pc[a]]
  /\ doing = [a \in Actors |-> doing[a]]
  /\ copy = [a \in Actors |-> copy[a]]
  /\ \A a \in Actors : IsContext(copy[a])
  /\ IsContext(context)

\* An actor at work has a task of its own, that is not over.
Hands ==
  /\ \A a \in Actors : pc[a] = "working" =>
       /\ doing[a] \in [node : Tasked, k : Nat]
       /\ doing[a].k \in 1 .. Len(tasks[doing[a].node])
       /\ tasks[doing[a].node][doing[a].k] \in {"RUNNING", "CANCELLED"}
  /\ \A a, b \in Actors : pc[a] = "working" /\ pc[b] = "working" /\ a # b
       => doing[a] # doing[b]

AllBacked ==
  /\ BackedBy(context.nodes, tasks)
  /\ \A a \in Actors : BackedBy(copy[a].nodes, tasks)

Backing == Shape /\ Hands /\ AllBacked

\* What tasks back they go on backing.
LEMMA BackingLasts ==
  ASSUME NEW st, NEW t, NEW u, t \in [Nodes -> Seq(TaskStatuses)], u \in [Nodes -> Seq(TaskStatuses)],
         BackedBy(st, t), Grown(t, u)
  PROVE  BackedBy(st, u)
<1> SUFFICES ASSUME NEW n \in Tasked
             PROVE  /\ st[n].status = "SUCCEEDED" => \E k \in 1 .. Len(u[n]) : u[n][k] = "SUCCEEDED"
                    /\ st[n].status = "RUNNING" => st[n].task \in 1 .. Len(u[n])
  BY DEF BackedBy
<1>1. n \in Nodes
  BY DEF Tasked
<1>2. Len(t[n]) \in Nat /\ Len(u[n]) \in Nat /\ Len(t[n]) <= Len(u[n])
  BY <1>1 DEF Grown
<1>3. \A k \in 1 .. Len(t[n]) : t[n][k] = "SUCCEEDED" => u[n][k] = "SUCCEEDED"
  BY <1>1 DEF Grown
<1>4. 1 .. Len(t[n]) \subseteq 1 .. Len(u[n])
  BY <1>2
<1> QED
  BY <1>3, <1>4 DEF BackedBy

\* A copy that is blank, resumed after its waits, polled, or marked stays
\* backed: only a poll adds a success, and it looks at the task.
LEMMA BlankBacked == IsContext(Blank) /\ \A t : BackedBy(Blank.nodes, t)
  BY DEF IsContext, Blank, BackedBy, Fresh, State, Tasked

LEMMA ResumedBacked ==
  ASSUME NEW c, IsContext(c), NEW t, BackedBy(c.nodes, t)
  PROVE  IsContext(Resumed(c)) /\ BackedBy(Resumed(c).nodes, t)
  BY DEF IsContext, Resumed, BackedBy, Tasked, State

LEMMA PolledBacked ==
  ASSUME NEW st, BackedBy(st, tasks)
  PROVE  BackedBy([n \in Nodes |-> Polled(n, st[n])], tasks)
<1> DEFINE polled == [n \in Nodes |-> Polled(n, st[n])]
<1> SUFFICES ASSUME NEW n \in Tasked
             PROVE  /\ polled[n].status = "SUCCEEDED" => \E k \in 1 .. Len(tasks[n]) : tasks[n][k] = "SUCCEEDED"
                    /\ polled[n].status = "RUNNING" => polled[n].task \in 1 .. Len(tasks[n])
  BY DEF BackedBy
<1>1. n \in Nodes /\ polled[n] = Polled(n, st[n])
  BY DEF Tasked
<1>2. FailureResult(n).status \in {"FAILED", "SKIPPED"}
  BY DEF FailureResult, State
<1>3. State("SUCCEEDED", "none", 0).status = "SUCCEEDED"
  BY DEF State
<1>4. CASE st[n].status # "RUNNING" \/ tasks[n][st[n].task] \in OpenTask
  BY <1>1, <1>4 DEF Polled, BackedBy
<1>5. CASE st[n].status = "RUNNING" /\ tasks[n][st[n].task] \notin OpenTask
  BY <1>1, <1>2, <1>3, <1>5 DEF Polled, BackedBy
<1> QED
  BY <1>4, <1>5

LEMMA MarkedBacked ==
  ASSUME NEW st, NEW t, BackedBy(st, t)
  PROVE  BackedBy(MarkSkipped(st), t)
  BY DEF BackedBy, MarkSkipped, Marked, State, Tasked

----------------------------------------------------------------------------
(* What one task's change does to all of them. *)

\* From t to u, task k of node n gets status x, and nothing else changes.
Changed(t, u, n, k, x) ==
  /\ u \in [Nodes -> Seq(TaskStatuses)]
  /\ Grown(t, u)
  /\ \A m \in Nodes : Len(u[m]) = Len(t[m])
  /\ \A m \in Nodes : \A i \in 1 .. Len(t[m]) :
       u[m][i] = IF m = n /\ i = k THEN x ELSE t[m][i]

LEMMA OneTaskChanges ==
  ASSUME NEW n \in Nodes, NEW k \in 1 .. Len(tasks[n]), NEW x \in TaskStatuses,
         tasks \in [Nodes -> Seq(TaskStatuses)], tasks[n][k] # "SUCCEEDED",
         tasks' = [tasks EXCEPT ![n][k] = x]
  PROVE  Changed(tasks, tasks', n, k, x)
<1>1. tasks[n] \in Seq(TaskStatuses)
  OBVIOUS
<1>2. /\ [tasks[n] EXCEPT ![k] = x] \in Seq(TaskStatuses)
      /\ Len([tasks[n] EXCEPT ![k] = x]) = Len(tasks[n])
  BY <1>1
<1>3. tasks' = [tasks EXCEPT ![n] = [tasks[n] EXCEPT ![k] = x]]
  OBVIOUS
<1>4. tasks' \in [Nodes -> Seq(TaskStatuses)]
  BY <1>2, <1>3
<1>5. \A m \in Nodes : Len(tasks'[m]) = Len(tasks[m])
  BY <1>2, <1>3
<1>6. \A m \in Nodes : \A i \in 1 .. Len(tasks[m]) :
        tasks'[m][i] = IF m = n /\ i = k THEN x ELSE tasks[m][i]
  BY <1>1, <1>3
<1>7. Grown(tasks, tasks')
  BY <1>5, <1>6 DEF Grown
<1> QED
  BY <1>4, <1>5, <1>6, <1>7 DEF Changed

LEMMA OneTaskMore ==
  ASSUME NEW n \in Nodes, tasks \in [Nodes -> Seq(TaskStatuses)],
         tasks' = [tasks EXCEPT ![n] = Append(@, "QUEUED")]
  PROVE  /\ tasks' \in [Nodes -> Seq(TaskStatuses)]
         /\ Grown(tasks, tasks')
         /\ Len(tasks'[n]) = Len(tasks[n]) + 1
         /\ \A m \in Nodes : 1 .. Len(tasks[m]) \subseteq 1 .. Len(tasks'[m])
         /\ \A m \in Nodes : \A i \in 1 .. Len(tasks[m]) : tasks'[m][i] = tasks[m][i]
<1>1. "QUEUED" \in TaskStatuses /\ tasks[n] \in Seq(TaskStatuses)
  BY DEF TaskStatuses
<1>2. /\ Append(tasks[n], "QUEUED") \in Seq(TaskStatuses)
      /\ Len(Append(tasks[n], "QUEUED")) = Len(tasks[n]) + 1
      /\ \A i \in 1 .. Len(tasks[n]) : Append(tasks[n], "QUEUED")[i] = tasks[n][i]
  BY <1>1
<1>3. tasks' = [tasks EXCEPT ![n] = Append(tasks[n], "QUEUED")]
  OBVIOUS
<1>4. \A m \in Nodes : Len(tasks[m]) \in Nat
  OBVIOUS
<1>5. \A m \in Nodes : \A i \in 1 .. Len(tasks[m]) : tasks'[m][i] = tasks[m][i]
  BY <1>2, <1>3
<1>6. \A m \in Nodes : Len(tasks[m]) <= Len(tasks'[m]) /\ Len(tasks'[m]) \in Nat
  BY <1>2, <1>3, <1>4
<1> QED
  BY <1>2, <1>3, <1>4, <1>5, <1>6 DEF Grown

\* Tasks that only grow keep everything backed.
LEMMA AllStayBacked ==
  ASSUME Backing, tasks' \in [Nodes -> Seq(TaskStatuses)], Grown(tasks, tasks')
  PROVE  /\ BackedBy(context.nodes, tasks')
         /\ \A a \in Actors : BackedBy(copy[a].nodes, tasks')
  BY BackingLasts DEF Backing, Shape, AllBacked

----------------------------------------------------------------------------
(* The workers' steps. *)

LEMMA TaskTakenStep ==
  ASSUME Backing, NEW a \in Actors, NEW n \in Tasked, TaskTaken(a, n)
  PROVE  Backing'
<1>1. n \in Nodes
  BY DEF Tasked
<1>2. PICK k \in 1 .. Len(tasks[n]) :
        /\ tasks[n][k] = "QUEUED"
        /\ tasks' = [tasks EXCEPT ![n][k] = "RUNNING"]
        /\ doing' = [doing EXCEPT ![a] = [node |-> n, k |-> k]]
  BY DEF TaskTaken
<1>3. /\ pc[a] = "idle" /\ pc' = [pc EXCEPT ![a] = "working"]
      /\ copy' = copy /\ context' = context
  BY DEF TaskTaken, Goto
<1>4. tasks \in [Nodes -> Seq(TaskStatuses)] /\ "RUNNING" \in TaskStatuses
  BY DEF Backing, Shape, TaskStatuses
<1>5. Changed(tasks, tasks', n, k, "RUNNING")
  <2>1. tasks[n][k] # "SUCCEEDED"
    BY <1>2
  <2> QED
    BY <1>1, <1>2, <1>4, <2>1, OneTaskChanges
<1>6. Shape'
  BY <1>2, <1>3, <1>5 DEF Backing, Shape, IsContext, Changed
<1>7. Hands'
  <2>1. \A b \in Actors : b # a /\ pc'[b] = "working" =>
          pc[b] = "working" /\ doing'[b] = doing[b] /\ doing[b] # [node |-> n, k |-> k]
    BY <1>2, <1>3 DEF Backing, Shape, Hands
  <2>2. pc'[a] = "working" /\ doing'[a] = [node |-> n, k |-> k]
    BY <1>2, <1>3 DEF Backing, Shape
  <2>3. \A b \in Actors : pc'[b] = "working" =>
           /\ doing'[b] \in [node : Tasked, k : Nat]
           /\ doing'[b].k \in 1 .. Len(tasks'[doing'[b].node])
           /\ tasks'[doing'[b].node][doing'[b].k] \in {"RUNNING", "CANCELLED"}
    <3> SUFFICES ASSUME NEW b \in Actors, pc'[b] = "working"
                 PROVE  /\ doing'[b] \in [node : Tasked, k : Nat]
                        /\ doing'[b].k \in 1 .. Len(tasks'[doing'[b].node])
                        /\ tasks'[doing'[b].node][doing'[b].k] \in {"RUNNING", "CANCELLED"}
      OBVIOUS
    <3>1. CASE b = a
      BY <1>1, <1>4, <1>5, <2>2, <3>1 DEF Changed
    <3>2. CASE b # a
      <4>1. /\ doing'[b] = doing[b]
            /\ doing[b] \in [node : Tasked, k : Nat]
            /\ doing[b].k \in 1 .. Len(tasks[doing[b].node])
            /\ tasks[doing[b].node][doing[b].k] \in {"RUNNING", "CANCELLED"}
        BY <2>1, <3>2 DEF Backing, Hands
      <4>2. doing[b].node \in Nodes
        BY <4>1 DEF Tasked
      <4> QED
        BY <1>5, <4>1, <4>2 DEF Changed
    <3> QED
      BY <3>1, <3>2
  <2>4. \A b, d \in Actors : pc'[b] = "working" /\ pc'[d] = "working" /\ b # d
          => doing'[b] # doing'[d]
    BY <2>1, <2>2 DEF Backing, Hands
  <2> QED
    BY <2>3, <2>4 DEF Hands
<1>8. AllBacked'
  BY <1>3, <1>5, AllStayBacked DEF AllBacked, Changed
<1> QED
  BY <1>6, <1>7, <1>8 DEF Backing
\* The end of a task, and its return to the queue.
LEMMA TaskLeftStep ==
  ASSUME Backing, NEW a \in Actors, NEW x \in TaskStatuses, NEW step, step # "working",
         pc[a] = "working", pc' = [pc EXCEPT ![a] = step],
         tasks' = [tasks EXCEPT ![doing[a].node][doing[a].k] = x],
         doing' = doing \/ doing' = [doing EXCEPT ![a] = NoTask],
         copy' = copy, context' = context
  PROVE  Backing'
<1> DEFINE n == doing[a].node
           k == doing[a].k
<1>1. /\ doing[a] \in [node : Tasked, k : Nat]
      /\ k \in 1 .. Len(tasks[n])
      /\ tasks[n][k] \in {"RUNNING", "CANCELLED"}
  BY DEF Backing, Hands
<1>2. n \in Nodes /\ tasks[n][k] # "SUCCEEDED" /\ tasks \in [Nodes -> Seq(TaskStatuses)]
  BY <1>1 DEF Tasked, Backing, Shape
<1>3. Changed(tasks, tasks', n, k, x)
  BY <1>1, <1>2, OneTaskChanges
<1>4. Shape'
  BY <1>3 DEF Backing, Shape, IsContext, Changed
<1>5. \A b \in Actors : pc'[b] = "working" =>
        b # a /\ pc[b] = "working" /\ doing'[b] = doing[b]
  BY DEF Backing, Shape
<1>6. ASSUME NEW b \in Actors, pc'[b] = "working"
      PROVE  /\ doing'[b] \in [node : Tasked, k : Nat]
             /\ doing'[b].k \in 1 .. Len(tasks'[doing'[b].node])
             /\ tasks'[doing'[b].node][doing'[b].k] \in {"RUNNING", "CANCELLED"}
  <2>1. /\ b # a /\ pc[b] = "working" /\ doing'[b] = doing[b]
        /\ doing[b] \in [node : Tasked, k : Nat]
        /\ doing[b].k \in 1 .. Len(tasks[doing[b].node])
        /\ tasks[doing[b].node][doing[b].k] \in {"RUNNING", "CANCELLED"}
    BY <1>5, <1>6 DEF Backing, Hands
  <2>2. doing[b].node \in Nodes
    BY <2>1 DEF Tasked
  <2>3. doing[b] # doing[a]
    BY <2>1 DEF Backing, Hands
  <2>4. ~(doing[b].node = n /\ doing[b].k = k)
    BY <1>1, <2>1, <2>3
  <2> QED
    BY <1>3, <2>1, <2>2, <2>4 DEF Changed
<1>7. Hands'
  BY <1>5, <1>6 DEF Backing, Hands
<1>8. AllBacked'
  BY <1>3, AllStayBacked DEF AllBacked, Changed
<1> QED
  BY <1>4, <1>7, <1>8 DEF Backing

\* A step of one actor that takes no task and changes none: it leaves the
\* actor with a copy that is backed, and the run with a context that is.
LEMMA QuietStep ==
  ASSUME Backing, NEW a \in Actors, NEW step, step # "working", NEW c,
         pc' = [pc EXCEPT ![a] = step],
         tasks' = tasks,
         doing' = doing \/ doing' = [doing EXCEPT ![a] = NoTask],
         copy' = [copy EXCEPT ![a] = c],
         IsContext(c), BackedBy(c.nodes, tasks),
         IsContext(context'), BackedBy(context'.nodes, tasks)
  PROVE  Backing'
<1>1. Shape'
  BY DEF Backing, Shape, IsContext
<1>2. \A b \in Actors : pc'[b] = "working" => pc[b] = "working" /\ doing'[b] = doing[b]
  BY DEF Backing, Shape
<1>3. Hands'
  BY <1>2 DEF Backing, Hands
<1>4. \A b \in Actors : copy'[b] = c \/ copy'[b] = copy[b]
  BY DEF Backing, Shape
<1>5. AllBacked'
  BY <1>4 DEF Backing, AllBacked
<1> QED
  BY <1>1, <1>3, <1>5 DEF Backing

\* Such a step that leaves the context, and maybe the copy, as it is.
LEMMA IdleStep ==
  ASSUME Backing, NEW a \in Actors, NEW step, step # "working",
         pc' = [pc EXCEPT ![a] = step],
         tasks' = tasks, context' = context,
         doing' = doing \/ doing' = [doing EXCEPT ![a] = NoTask],
         copy' = copy \/ copy' = [copy EXCEPT ![a] = Blank]
  PROVE  Backing'
<1>1. /\ IsContext(context') /\ BackedBy(context'.nodes, tasks)
      /\ IsContext(copy[a]) /\ BackedBy(copy[a].nodes, tasks)
      /\ copy = [copy EXCEPT ![a] = copy[a]]
  BY DEF Backing, Shape, AllBacked
<1>2. CASE copy' = copy
  <2>1. copy' = [copy EXCEPT ![a] = copy[a]]
    BY <1>1, <1>2
  <2> QED
    BY <1>1, <2>1, QuietStep
<1>3. CASE copy' = [copy EXCEPT ![a] = Blank]
  BY <1>1, <1>3, BlankBacked, QuietStep
<1> QED
  BY <1>2, <1>3

LEMMA WorkerStep ==
  ASSUME Backing, NEW a \in Actors,
         TaskEnds(a) \/ TaskRequeued(a) \/ MergeRead(a) \/ MergeWrite(a)
  PROVE  Backing'
<1>1. CASE TaskEnds(a)
  <2>1. PICK outcome \in {"SUCCEEDED", "DEAD_LETTERED"} :
          /\ tasks' = [tasks EXCEPT ![doing[a].node][doing[a].k] = outcome]
          /\ IF outcome = "SUCCEEDED" /\ doing[a].node \in Setters
               THEN Goto(a, "merge") /\ UNCHANGED doing
               ELSE Goto(a, "called") /\ doing' = [doing EXCEPT ![a] = NoTask]
    BY <1>1 DEF TaskEnds
  <2>2. outcome \in TaskStatuses
    BY DEF TaskStatuses
  <2>3. pc[a] = "working" /\ copy' = copy /\ context' = context
    BY <1>1 DEF TaskEnds
  <2>4. CASE Goto(a, "merge") /\ UNCHANGED doing
    BY <2>1, <2>2, <2>3, <2>4, TaskLeftStep DEF Goto
  <2>5. CASE Goto(a, "called") /\ doing' = [doing EXCEPT ![a] = NoTask]
    BY <2>1, <2>2, <2>3, <2>5, TaskLeftStep DEF Goto
  <2> QED
    BY <2>1, <2>4, <2>5
<1>2. CASE TaskRequeued(a)
  <2>1. "QUEUED" \in TaskStatuses
    BY DEF TaskStatuses
  <2> QED
    BY <1>2, <2>1, TaskLeftStep DEF TaskRequeued, Goto
<1>3. CASE MergeRead(a)
  <2> DEFINE c == [context EXCEPT !.vars = @ \cup {doing[a].node}]
  <2>1. IsContext(context) /\ BackedBy(context.nodes, tasks)
    BY DEF Backing, Shape, AllBacked
  <2>2. IsContext(c) /\ c.nodes = context.nodes
    BY <2>1 DEF IsContext
  <2>3. /\ copy' = [copy EXCEPT ![a] = c]
        /\ pc' = [pc EXCEPT ![a] = "merging"]
        /\ doing' = [doing EXCEPT ![a] = NoTask]
        /\ tasks' = tasks /\ context' = context
    BY <1>3 DEF MergeRead, Goto
  <2> HIDE DEF c
  <2> QED
    BY <2>1, <2>2, <2>3, QuietStep
<1>4. CASE MergeWrite(a)
  <2>1. IsContext(copy[a]) /\ BackedBy(copy[a].nodes, tasks)
    BY DEF Backing, Shape, AllBacked
  <2> QED
    BY <1>4, <2>1, BlankBacked, QuietStep DEF MergeWrite, Goto
<1> QED
  BY <1>1, <1>2, <1>3, <1>4
----------------------------------------------------------------------------
(* The steps of advanceAutomationRun. *)

LEMMA ReadStep ==
  ASSUME Backing, NEW a \in Actors, Read(a)
  PROVE  Backing'
<1>1. CASE run \in TerminalRun
  BY <1>1, IdleStep DEF Read, Goto
<1>2. CASE run \notin TerminalRun
  <2> DEFINE step == IF run = "QUEUED" THEN "starting" ELSE "poll"
  <2>1. IsContext(context) /\ BackedBy(context.nodes, tasks)
    BY DEF Backing, Shape, AllBacked
  <2>2. IsContext(Resumed(context)) /\ BackedBy(Resumed(context).nodes, tasks)
    BY <2>1, ResumedBacked
  <2>3. /\ copy' = [copy EXCEPT ![a] = Resumed(context)]
        /\ pc' = [pc EXCEPT ![a] = step]
        /\ doing' = doing /\ tasks' = tasks /\ context' = context
    BY <1>2 DEF Read, Goto
  <2>4. step # "working"
    OBVIOUS
  <2> HIDE DEF step
  <2> QED
    BY <2>1, <2>2, <2>3, <2>4, QuietStep
<1> QED
  BY <1>1, <1>2

LEMMA GenerationStep ==
  ASSUME Backing, NEW a \in Actors, Generation(a)
  PROVE  Backing'
<1> DEFINE before == copy[a].nodes
           polled == [n \in Nodes |-> Polled(n, before[n])]
           after  == MarkSkipped(polled)
           ready  == ReadyNodes(polled)
           step   == IF ready # {} THEN "dispatch"
                     ELSE IF after # before THEN "poll" ELSE "save"
           c      == [copy[a] EXCEPT !.nodes = after]
<1>1. /\ IsContext(context) /\ BackedBy(context.nodes, tasks)
      /\ IsContext(copy[a]) /\ BackedBy(copy[a].nodes, tasks)
      /\ copy = [b \in Actors |-> copy[b]]
  BY DEF Backing, Shape, AllBacked
<1>2. BackedBy(after, tasks)
  BY <1>1, PolledBacked, MarkedBacked
<1>3. after = [n \in Nodes |-> after[n]]
  BY DEF MarkSkipped, Marked
<1>4. copy' = [copy EXCEPT ![a].nodes = after] /\ pc' = [pc EXCEPT ![a] = step]
  BY DEF Generation, Goto
<1>5. doing' = doing /\ tasks' = tasks /\ context' = context
  BY DEF Generation
<1>6. step # "working"
  OBVIOUS
<1> HIDE DEF after, step
<1>7. IsContext(c) /\ c.nodes = after
  BY <1>1, <1>3 DEF IsContext
<1>8. copy' = [copy EXCEPT ![a] = c]
  BY <1>4
<1> HIDE DEF c
<1> QED
  BY <1>1, <1>2, <1>4, <1>5, <1>6, <1>7, <1>8, QuietStep

\* A node that is settled, or suspended, at its dispatch.
LEMMA NodeSetStep ==
  ASSUME Backing, NEW a \in Actors, NEW n, NEW s, NEW step, step # "working",
         n \in Tasked => s.status \notin {"SUCCEEDED", "RUNNING"},
         copy' = [copy EXCEPT ![a].nodes[n] = s], pc' = [pc EXCEPT ![a] = step],
         tasks' = tasks, doing' = doing, context' = context
  PROVE  Backing'
<1> DEFINE c == [copy[a] EXCEPT !.nodes[n] = s]
<1>1. /\ IsContext(context) /\ BackedBy(context.nodes, tasks)
      /\ IsContext(copy[a]) /\ BackedBy(copy[a].nodes, tasks)
  BY DEF Backing, Shape, AllBacked
<1>2. IsContext(c) /\ c.nodes = [copy[a].nodes EXCEPT ![n] = s]
  BY <1>1 DEF IsContext
<1>3. BackedBy(c.nodes, tasks)
  BY <1>1, <1>2 DEF IsContext, BackedBy, Tasked
<1>4. copy' = [copy EXCEPT ![a] = c]
  OBVIOUS
<1> HIDE DEF c
<1> QED
  BY <1>1, <1>2, <1>3, <1>4, QuietStep

LEMMA DispatchTaskStep ==
  ASSUME Backing, NEW a \in Actors, NEW n, DispatchTask(a, n), doing' = doing, context' = context
  PROVE  Backing'
<1> DEFINE s == State("RUNNING", "none", Len(tasks[n]) + 1)
           c == [copy[a] EXCEPT !.nodes[n] = s]
           step == IF todo[a] = {n} THEN "poll" ELSE "dispatch"
<1>1. n \in Tasked /\ n \in Nodes /\ tasks \in [Nodes -> Seq(TaskStatuses)]
  BY DEF DispatchTask, Tasked, Backing, Shape
<1>2. tasks' = [tasks EXCEPT ![n] = Append(@, "QUEUED")]
  BY DEF DispatchTask
<1>3. /\ tasks' \in [Nodes -> Seq(TaskStatuses)]
      /\ Grown(tasks, tasks')
      /\ Len(tasks'[n]) = Len(tasks[n]) + 1
      /\ \A m \in Nodes : 1 .. Len(tasks[m]) \subseteq 1 .. Len(tasks'[m])
      /\ \A m \in Nodes : \A i \in 1 .. Len(tasks[m]) : tasks'[m][i] = tasks[m][i]
  BY <1>1, <1>2, OneTaskMore
<1>4. /\ copy' = [copy EXCEPT ![a] = c]
      /\ pc' = [pc EXCEPT ![a] = step]
  BY DEF DispatchTask, Dispatched, Goto
<1>5. step # "working"
  OBVIOUS
<1>6. /\ s.status = "RUNNING" /\ s.task = Len(tasks[n]) + 1
  BY DEF State
<1>7. IsContext(copy[a])
  BY DEF Backing, Shape
<1> HIDE DEF s, step
<1>8. IsContext(c) /\ c.nodes = [copy[a].nodes EXCEPT ![n] = s]
  BY <1>7 DEF IsContext
<1>9. /\ BackedBy(context.nodes, tasks')
      /\ \A b \in Actors : BackedBy(copy[b].nodes, tasks')
  BY <1>3, AllStayBacked
<1>10. Len(tasks[n]) + 1 \in 1 .. Len(tasks'[n])
  BY <1>1, <1>3
<1>11. BackedBy(c.nodes, tasks')
  <2> SUFFICES ASSUME NEW m \in Tasked
               PROVE  /\ c.nodes[m].status = "SUCCEEDED" =>
                           \E k \in 1 .. Len(tasks'[m]) : tasks'[m][k] = "SUCCEEDED"
                      /\ c.nodes[m].status = "RUNNING" => c.nodes[m].task \in 1 .. Len(tasks'[m])
    BY DEF BackedBy
  <2>1. CASE m = n
    BY <1>1, <1>6, <1>7, <1>8, <1>10, <2>1 DEF IsContext
  <2>2. CASE m # n
    BY <1>8, <1>9, <2>2 DEF BackedBy
  <2> QED
    BY <2>1, <2>2
<1> HIDE DEF c
<1>12. Shape'
  BY <1>3, <1>4, <1>8 DEF Backing, Shape, IsContext
<1>13. \A b \in Actors : pc'[b] = "working" => pc[b] = "working"
  BY <1>4, <1>5 DEF Backing, Shape
<1>14. ASSUME NEW b \in Actors, pc'[b] = "working"
       PROVE  /\ doing'[b] \in [node : Tasked, k : Nat]
              /\ doing'[b].k \in 1 .. Len(tasks'[doing'[b].node])
              /\ tasks'[doing'[b].node][doing'[b].k] \in {"RUNNING", "CANCELLED"}
  <2>1. /\ doing[b] \in [node : Tasked, k : Nat]
        /\ doing[b].k \in 1 .. Len(tasks[doing[b].node])
        /\ tasks[doing[b].node][doing[b].k] \in {"RUNNING", "CANCELLED"}
    BY <1>13, <1>14 DEF Backing, Hands
  <2>2. doing[b].node \in Nodes
    BY <2>1 DEF Tasked
  <2> QED
    BY <1>3, <2>1, <2>2
<1>15. Hands'
  BY <1>13, <1>14 DEF Backing, Hands
<1>16. \A b \in Actors : copy'[b] = c \/ copy'[b] = copy[b]
  BY <1>4 DEF Backing, Shape
<1>17. AllBacked'
  BY <1>9, <1>11, <1>16 DEF AllBacked
<1> QED
  BY <1>12, <1>15, <1>17 DEF Backing

LEMMA DispatchStep ==
  ASSUME Backing, NEW a \in Actors, Dispatch(a)
  PROVE  Backing'
<1>1. doing' = doing /\ context' = context
  BY DEF Dispatch
<1>3. PICK n : DispatchInline(a, n) \/ DispatchTask(a, n) \/ DispatchWait(a, n) \/ DispatchThrows(a, n)
  BY DEF Dispatch
<1> DEFINE step == IF todo[a] = {n} THEN "poll" ELSE "dispatch"
<1>2. step # "working"
  OBVIOUS
<1> HIDE DEF step
<1>4. CASE DispatchInline(a, n)
  <2>1. n \notin Tasked
    BY <1>4 DEF DispatchInline, Tasked
  <2>2. PICK s : Dispatched(a, n, s)
    BY <1>4 DEF DispatchInline
  <2>3. /\ copy' = [copy EXCEPT ![a].nodes[n] = s]
        /\ pc' = [pc EXCEPT ![a] = step]
    BY <2>2 DEF Dispatched, Goto, step
  <2>4. tasks' = tasks
    BY <1>4 DEF DispatchInline
  <2> QED
    BY <1>1, <1>2, <2>1, <2>3, <2>4, NodeSetStep
<1>5. CASE DispatchTask(a, n)
  BY <1>1, <1>5, DispatchTaskStep
<1>6. CASE DispatchWait(a, n)
  <2>1. n \notin Tasked
    BY <1>6 DEF DispatchWait, Tasked
  <2>2. /\ copy' = [copy EXCEPT ![a].nodes[n] = State("WAITING", "none", 0)]
        /\ pc' = [pc EXCEPT ![a] = "suspend"]
        /\ tasks' = tasks
    BY <1>6 DEF DispatchWait, Goto
  <2> QED
    BY <1>1, <2>1, <2>2, NodeSetStep
<1>7. CASE DispatchThrows(a, n)
  BY <1>1, <1>7, IdleStep DEF DispatchThrows, Return, Goto
<1> QED
  BY <1>3, <1>4, <1>5, <1>6, <1>7

\* The copy of an advance becomes the context of the run.
LEMMA WriteBackStep ==
  ASSUME Backing, NEW a \in Actors, Suspend(a) \/ Save(a)
  PROVE  Backing'
<1>1. /\ context' = copy[a] /\ Return(a)
      /\ tasks' = tasks /\ doing' = doing
  BY DEF Suspend, Save
<1>2. IsContext(copy[a]) /\ BackedBy(copy[a].nodes, tasks)
  BY DEF Backing, Shape, AllBacked
<1> QED
  BY <1>1, <1>2, BlankBacked, QuietStep DEF Return, Goto
----------------------------------------------------------------------------
(* Cancellation, crashes, and the theorem. *)

LEMMA CancelTasksStep ==
  ASSUME Backing, CancelTasks
  PROVE  Backing'
<1>1. tasks \in [Nodes -> Seq(TaskStatuses)]
  BY DEF Backing, Shape
<1>2. /\ pc' = pc /\ doing' = doing /\ copy' = copy /\ context' = context
      /\ tasks' = [n \in Nodes |-> [k \in 1 .. Len(tasks[n]) |->
                    IF TypeOf[n] = "action" /\ tasks[n][k] \in OpenTask THEN "CANCELLED" ELSE tasks[n][k]]]
  BY DEF CancelTasks
<1>3. ASSUME NEW n \in Nodes
      PROVE  /\ tasks'[n] \in Seq(TaskStatuses)
             /\ Len(tasks'[n]) = Len(tasks[n])
             /\ \A k \in 1 .. Len(tasks[n]) :
                  tasks'[n][k] = tasks[n][k] \/ (tasks[n][k] \in OpenTask /\ tasks'[n][k] = "CANCELLED")
  <2>1. tasks[n] \in Seq(TaskStatuses) /\ Len(tasks[n]) \in Nat
    BY <1>1
  <2>2. tasks'[n] = [k \in 1 .. Len(tasks[n]) |->
          IF TypeOf[n] = "action" /\ tasks[n][k] \in OpenTask THEN "CANCELLED" ELSE tasks[n][k]]
    BY <1>2
  <2>3. \A k \in 1 .. Len(tasks[n]) : tasks[n][k] \in TaskStatuses
    BY <2>1
  <2>4. tasks'[n] \in [1 .. Len(tasks[n]) -> TaskStatuses]
    BY <2>2, <2>3 DEF TaskStatuses
  <2> QED
    BY <2>1, <2>2, <2>4
<1>4. tasks' \in [Nodes -> Seq(TaskStatuses)]
  BY <1>2, <1>3
<1>5. Grown(tasks, tasks')
  BY <1>1, <1>3 DEF Grown, OpenTask
<1>6. Shape'
  BY <1>2, <1>4 DEF Backing, Shape, IsContext
<1>7. ASSUME NEW b \in Actors, pc[b] = "working"
      PROVE  /\ doing[b] \in [node : Tasked, k : Nat]
             /\ doing[b].k \in 1 .. Len(tasks'[doing[b].node])
             /\ tasks'[doing[b].node][doing[b].k] \in {"RUNNING", "CANCELLED"}
  <2>1. /\ doing[b] \in [node : Tasked, k : Nat]
        /\ doing[b].k \in 1 .. Len(tasks[doing[b].node])
        /\ tasks[doing[b].node][doing[b].k] \in {"RUNNING", "CANCELLED"}
    BY <1>7 DEF Backing, Hands
  <2>2. doing[b].node \in Nodes
    BY <2>1 DEF Tasked
  <2> QED
    BY <1>3, <2>1, <2>2
<1>8. Hands'
  BY <1>2, <1>7 DEF Backing, Hands
<1>9. AllBacked'
  BY <1>2, <1>4, <1>5, AllStayBacked DEF AllBacked
<1> QED
  BY <1>6, <1>8, <1>9 DEF Backing

LEMMA BackingStep == Backing /\ [Next]_vars => Backing'
<1> SUFFICES ASSUME Backing, [Next]_vars
             PROVE  Backing'
  OBVIOUS
<1>1. ASSUME NEW a \in Actors, CronPicks(a) \/ WriteRunning(a) \/ Crash(a)
      PROVE  Backing'
  <2>1. CASE CronPicks(a)
    BY <2>1, IdleStep DEF CronPicks, Goto
  <2>2. CASE WriteRunning(a)
    BY <2>2, IdleStep DEF WriteRunning, Goto
  <2>3. CASE Crash(a)
    BY <2>3, IdleStep DEF Crash, Return, Goto
  <2> QED
    BY <1>1, <2>1, <2>2, <2>3
<1>2. ASSUME NEW a \in Actors, Proceed(a)
      PROVE  Backing'
  BY <1>1, <1>2, WorkerStep, ReadStep, GenerationStep, DispatchStep, WriteBackStep DEF Proceed
<1>3. ASSUME NEW a \in Actors, NEW n \in Tasked, TaskTaken(a, n)
      PROVE  Backing'
  BY <1>3, TaskTakenStep
<1>4. CASE CancelTasks
  BY <1>4, CancelTasksStep
<1>5. CASE CancelCheck \/ CancelWrite \/ ResumeAtPasses \/ UNCHANGED vars
  <2>1. tasks' = tasks /\ pc' = pc /\ doing' = doing /\ copy' = copy /\ context' = context
    BY <1>5 DEF CancelCheck, CancelWrite, ResumeAtPasses, vars
  <2>2. Shape'
    BY <2>1 DEF Backing, Shape, IsContext
  <2>3. Hands'
    BY <2>1 DEF Backing, Hands
  <2>4. AllBacked'
    BY <2>1 DEF Backing, AllBacked
  <2> QED
    BY <2>2, <2>3, <2>4 DEF Backing
<1> QED
  BY <1>1, <1>2, <1>3, <1>4, <1>5 DEF Next

\* pollActionNode, advanceAutomationRun: however advances of a run overlap,
\* crash, throw or are cancelled, and whichever stale copy is written last, a
\* node stands as SUCCEEDED only if a task of it did succeed.
THEOREM SuccessNeedsEvidence == Spec => []SuccessHasEvidence
<1>1. Init => Backing
  <2> SUFFICES ASSUME Init
               PROVE  Backing
    OBVIOUS
  <2>1. Shape
    BY BlankBacked DEF Init, Shape
  <2>2. Hands
    BY DEF Init, Hands
  <2>3. AllBacked
    BY BlankBacked DEF Init, AllBacked
  <2> QED
    BY <2>1, <2>2, <2>3 DEF Backing
<1>2. Backing => SuccessHasEvidence
  BY DEF Backing, AllBacked, BackedBy, SuccessHasEvidence
<1> QED
  BY <1>1, <1>2, BackingStep, PTL DEF Spec
----------------------------------------------------------------------------
(* Types.  They hold of the context and of every copy alike, since the one  *)
(* is overwritten with the other.                                           *)

Stamps ==
  [status : NodeStatuses,
   tag    : {"none"} \cup Policies \cup UNION {BranchesOf[n] : n \in Nodes},
   task   : 0 .. MaxTasks]

Places == {"idle", "working", "merge", "merging", "called", "starting",
           "poll", "dispatch", "suspend", "save"}

\* A task in someone's hands is one there is; a merge is of a setter's.
HeldRightly(d, step, t) ==
  /\ d # NoTask => d.node \in Nodes /\ d.k \in 1 .. Len(t[d.node])
  /\ step = "merge" => d.node \in Setters

\* What an actor has in its hands, and has still to dispatch.
ActorTyped(a) ==
  /\ HeldRightly(doing[a], pc[a], tasks)
  /\ todo[a] \subseteq Nodes
  /\ todo[a] = {} <=> pc[a] # "dispatch"

Rows ==
  /\ run \in RunStatuses /\ due \in BOOLEAN /\ context \in Contexts
  /\ cancel \in {"none", "checked", "jobs", "done"} /\ crashes \in 0 .. MaxCrashes
  /\ \A n \in Nodes : Len(tasks[n]) <= MaxTasks

Typing ==
  /\ Rows
  /\ pc \in [Actors -> Places] /\ copy \in [Actors -> Contexts]
  /\ todo = [a \in Actors |-> todo[a]]
  /\ \A a \in Actors : ActorTyped(a)

LEMMA ContextsAreOfStamps == Contexts = [nodes : [Nodes -> Stamps], vars : SUBSET Setters]
  BY DEF Contexts, Stamps

LEMMA StateTyped ==
  ASSUME NEW status \in NodeStatuses, NEW k \in 0 .. MaxTasks,
         NEW tag \in {"none"} \cup Policies \cup UNION {BranchesOf[n] : n \in Nodes}
  PROVE  State(status, tag, k) \in Stamps
  BY DEF State, Stamps

\* The states the code gives without a task.
LEMMA PlainStates ==
  /\ 0 \in 0 .. MaxTasks
  /\ \A s \in {"PENDING", "WAITING", "SUCCEEDED", "SKIPPED", "FAILED"} : State(s, "none", 0) \in Stamps
<1>1. 0 \in 0 .. MaxTasks
  BY BoundAssumption
<1> QED
  BY <1>1, StateTyped DEF NodeStatuses

LEMMA BlankTyped == Blank \in Contexts
  BY PlainStates, ContextsAreOfStamps DEF Blank, Fresh

LEMMA ResumedTyped == ASSUME NEW c \in Contexts PROVE Resumed(c) \in Contexts
<1>1. c.nodes \in [Nodes -> Stamps] /\ c = [nodes |-> c.nodes, vars |-> c.vars] /\ c.vars \subseteq Setters
  BY ContextsAreOfStamps
<1> DEFINE st == [n \in Nodes |-> IF TypeOf[n] = "wait" /\ c.nodes[n].status = "WAITING"
                                  THEN State("SUCCEEDED", "none", 0) ELSE c.nodes[n]]
<1>2. st \in [Nodes -> Stamps]
  BY <1>1, PlainStates
<1>3. Resumed(c) = [nodes |-> st, vars |-> c.vars]
  BY <1>1 DEF Resumed
<1> QED
  BY <1>1, <1>2, <1>3, ContextsAreOfStamps

LEMMA PolledTyped ==
  ASSUME NEW n \in Nodes, NEW s \in Stamps
  PROVE  Polled(n, s) \in Stamps
<1>1. FailureResult(n) \in Stamps
  <2>1. /\ PolicyOf[n] \in Policies /\ "ignore" \in Policies
        /\ "SKIPPED" \in NodeStatuses /\ "FAILED" \in NodeStatuses
    BY GraphAssumption DEF Policies, NodeStatuses
  <2>2. State("SKIPPED", "ignore", 0) \in Stamps /\ State("FAILED", PolicyOf[n], 0) \in Stamps
    BY <2>1, PlainStates, StateTyped
  <2> QED
    BY <2>2, PlainStates DEF FailureResult
<1> QED
  BY <1>1, PlainStates DEF Polled

LEMMA MarkedTyped ==
  ASSUME NEW st \in [Nodes -> Stamps]
  PROVE  MarkSkipped(st) \in [Nodes -> Stamps]
  BY PlainStates DEF MarkSkipped, Marked

\* An actor goes to a place of its code, with a copy c, nodes S to dispatch
\* and a task d in its hands.
Moves(a, step, c, S, d) ==
  /\ step \in Places /\ c \in Contexts /\ S \subseteq Nodes
  /\ S = {} <=> step # "dispatch"
  /\ HeldRightly(d, step, tasks')
  /\ pc' = [pc EXCEPT ![a] = step]
  /\ \/ copy' = copy /\ c = copy[a]
     \/ copy' = [copy EXCEPT ![a] = c]
  /\ \/ todo' = todo /\ S = todo[a]
     \/ todo' = [todo EXCEPT ![a] = S]
  /\ \/ doing' = doing /\ d = doing[a]
     \/ doing' = [doing EXCEPT ![a] = d]

LEMMA ActorStep ==
  ASSUME Backing, Backing', Typing, Rows', \A n \in Nodes : Len(tasks[n]) <= Len(tasks'[n]),
         NEW a \in Actors, NEW step, NEW c, NEW S, NEW d, Moves(a, step, c, S, d)
  PROVE  Typing'
<1>1. pc' \in [Actors -> Places] /\ copy' \in [Actors -> Contexts] /\ todo' = [b \in Actors |-> todo'[b]]
  BY DEF Typing, Moves
<1>2. ASSUME NEW b \in Actors PROVE ActorTyped(b)'
  <2>1. CASE b = a
    <3>1. pc'[b] = step /\ todo'[b] = S /\ doing'[b] = d
      BY <2>1 DEF Typing, Backing, Shape, Moves
    <3> QED
      BY <3>1 DEF ActorTyped, Moves
  <2>2. CASE b # a
    <3>1. pc'[b] = pc[b] /\ todo'[b] = todo[b] /\ doing'[b] = doing[b]
      BY <2>2 DEF Typing, Backing, Shape, Moves
    <3>2. \A n \in Nodes : Len(tasks[n]) \in Nat /\ Len(tasks'[n]) \in Nat /\ Len(tasks[n]) <= Len(tasks'[n])
      BY DEF Backing, Shape
    <3>3. \A n \in Nodes : 1 .. Len(tasks[n]) \subseteq 1 .. Len(tasks'[n])
      BY <3>2
    <3> QED
      BY <3>1, <3>3 DEF Typing, ActorTyped, HeldRightly
  <2> QED
    BY <2>1, <2>2
<1> QED
  BY <1>1, <1>2 DEF Typing

LEMMA WorkerTyped ==
  ASSUME Backing, Backing', Typing, NEW a \in Actors,
         TaskEnds(a) \/ TaskRequeued(a) \/ \E n \in Tasked : TaskTaken(a, n)
  PROVE  Typing'
<1>1. tasks' \in [Nodes -> Seq(TaskStatuses)] /\ tasks \in [Nodes -> Seq(TaskStatuses)]
  BY DEF Backing, Shape
<1>2. /\ copy[a] \in Contexts /\ todo[a] = {}
      /\ pc[a] \in {"working", "idle"} /\ ActorTyped(a)
      /\ copy' = copy /\ todo' = todo /\ {} \in SUBSET Nodes
  BY DEF TaskEnds, TaskRequeued, TaskTaken, Typing, ActorTyped
<1>3. /\ \A n \in Nodes : Len(tasks'[n]) = Len(tasks[n])
      /\ Rows'
  <2>1. PICK n, k, x : tasks' = [tasks EXCEPT ![n][k] = x]
    <3>1. CASE TaskEnds(a)
      BY <3>1 DEF TaskEnds
    <3>2. CASE TaskRequeued(a)
      BY <3>2 DEF TaskRequeued
    <3>3. CASE \E n \in Tasked : TaskTaken(a, n)
      <4>1. PICK n \in Tasked : TaskTaken(a, n)
        BY <3>3
      <4>2. PICK k \in 1 .. Len(tasks[n]) : tasks' = [tasks EXCEPT ![n][k] = "RUNNING"]
        BY <4>1 DEF TaskTaken
      <4> QED
        BY <4>2
    <3> QED
      BY <3>1, <3>2, <3>3
  <2>2. ASSUME NEW m \in Nodes PROVE Len(tasks'[m]) = Len(tasks[m])
    <3>1. tasks[m] \in Seq(TaskStatuses) /\ tasks'[m] \in Seq(TaskStatuses)
      BY <1>1
    <3>2. tasks'[m] = tasks[m] \/ tasks'[m] = [tasks[m] EXCEPT ![k] = x]
      BY <1>1, <2>1
    <3>3. DOMAIN tasks'[m] = DOMAIN tasks[m]
      BY <3>2
    <3> QED
      BY <3>1, <3>3
  <2>3. UNCHANGED <<run, due, context, cancel, crashes>>
    BY DEF TaskEnds, TaskRequeued, TaskTaken
  <2> QED
    BY <2>2, <2>3 DEF Typing, Rows
<1>4. PICK step, d : Moves(a, step, copy[a], {}, d)
  <2>1. CASE TaskEnds(a) /\ Goto(a, "merge")
    <3>1. doing[a].node \in Setters /\ doing' = doing
      BY <2>1 DEF TaskEnds, Goto, Typing
    <3>2. HeldRightly(doing[a], "merge", tasks')
      BY <1>2, <1>3, <3>1 DEF ActorTyped, HeldRightly
    <3> QED
      BY <1>2, <2>1, <3>1, <3>2 DEF Goto, Places, Moves
  <2>2. CASE (TaskEnds(a) /\ ~Goto(a, "merge")) \/ TaskRequeued(a)
    <3>1. PICK step \in {"called", "idle"} : pc' = [pc EXCEPT ![a] = step]
      BY <2>2 DEF TaskEnds, TaskRequeued, Goto
    <3>2. doing' = [doing EXCEPT ![a] = NoTask] /\ HeldRightly(NoTask, step, tasks')
      BY <2>2, <3>1 DEF TaskEnds, TaskRequeued, Goto, HeldRightly
    <3> QED
      BY <1>2, <3>1, <3>2 DEF Places, Moves
  <2>3. CASE \E n \in Tasked : TaskTaken(a, n)
    <3>1. PICK n \in Tasked : \E k \in 1 .. Len(tasks[n]) :
            doing' = [doing EXCEPT ![a] = [node |-> n, k |-> k]] /\ pc' = [pc EXCEPT ![a] = "working"]
      BY <2>3 DEF TaskTaken, Goto
    <3>2. PICK k \in 1 .. Len(tasks[n]) :
            doing' = [doing EXCEPT ![a] = [node |-> n, k |-> k]] /\ pc' = [pc EXCEPT ![a] = "working"]
      BY <3>1
    <3>3. n \in Nodes /\ HeldRightly([node |-> n, k |-> k], "working", tasks')
      BY <1>3 DEF Tasked, HeldRightly
    <3> QED
      BY <1>2, <3>2, <3>3 DEF Places, Moves
  <2> QED
    BY <2>1, <2>2, <2>3
<1>5. \A n \in Nodes : Len(tasks[n]) <= Len(tasks'[n])
  BY <1>1, <1>3
<1> QED
  BY <1>3, <1>4, <1>5, ActorStep
LEMMA CallerTyped ==
  ASSUME Backing, Backing', Typing, NEW a \in Actors,
         \/ CronPicks(a) \/ MergeRead(a) \/ MergeWrite(a) \/ Read(a)
         \/ WriteRunning(a) \/ Suspend(a) \/ Save(a) \/ Crash(a)
  PROVE  Typing'
<1>1. /\ \A n \in Nodes : Len(tasks[n]) \in Nat
      /\ context \in Contexts /\ copy[a] \in Contexts /\ ActorTyped(a)
      /\ copy[a] = [nodes |-> copy[a].nodes, vars |-> copy[a].vars]
      /\ context = [nodes |-> context.nodes, vars |-> context.vars]
  <2>1. \A n \in Nodes : Len(tasks[n]) \in Nat
    BY DEF Backing, Shape
  <2>2. context \in Contexts /\ copy[a] \in Contexts /\ ActorTyped(a)
    BY DEF Typing, Rows
  <2>3. IsContext(copy[a]) /\ IsContext(context)
    BY DEF Backing, Shape
  <2> QED
    BY <2>1, <2>2, <2>3 DEF IsContext
<1>2. tasks' = tasks /\ \A n \in Nodes : Len(tasks[n]) <= Len(tasks'[n])
  BY <1>1 DEF CronPicks, MergeRead, MergeWrite, Read, WriteRunning, Suspend, Save, Crash
<1>3. Rows'
  <2>1. Outcome(copy[a].nodes) \in RunStatuses
    BY DEF Outcome, RunStatuses, Typing, Rows
  <2>2. crashes < MaxCrashes => crashes + 1 \in 0 .. MaxCrashes
    BY BoundAssumption DEF Typing, Rows
  <2>3. /\ run' \in RunStatuses /\ due' \in BOOLEAN /\ cancel' = cancel
        /\ context' \in Contexts /\ crashes' \in 0 .. MaxCrashes
    BY <1>1, <2>1, <2>2 DEF CronPicks, MergeRead, MergeWrite, Read, WriteRunning, Suspend, Save, Crash,
       Typing, Rows, RunStatuses
  <2> QED
    BY <1>2, <2>3 DEF Typing, Rows
<1>4. ASSUME NEW step PROVE HeldRightly(doing[a], step, tasks') <=> (step = "merge" => doing[a].node \in Setters)
  BY <1>1, <1>2 DEF ActorTyped, HeldRightly
<1>5. ASSUME NEW step, step # "merge" PROVE HeldRightly(NoTask, step, tasks')
  BY <1>5 DEF HeldRightly
<1>6. PICK step, c, d : Moves(a, step, c, {}, d)
  <2>1. CASE CronPicks(a) \/ WriteRunning(a)
    <3>1. PICK step \in {"called", "poll"} : pc' = [pc EXCEPT ![a] = step]
      BY <2>1 DEF CronPicks, WriteRunning, Goto
    <3>2. Moves(a, step, copy[a], {}, doing[a])
      BY <1>1, <1>4, <2>1, <3>1 DEF CronPicks, WriteRunning, Moves, ActorTyped, Places
    <3> QED
      BY <3>2
  <2>2. CASE MergeRead(a)
    <3>1. doing[a].node \in Setters
      BY <1>1, <2>2 DEF MergeRead, ActorTyped, HeldRightly
    <3>2. context.vars \cup {doing[a].node} \subseteq Setters /\ context.nodes \in [Nodes -> Stamps]
      BY <1>1, <3>1, ContextsAreOfStamps
    <3>3. [context EXCEPT !.vars = @ \cup {doing[a].node}] \in Contexts
      BY <1>1, <3>2, ContextsAreOfStamps
    <3>4. Moves(a, "merging", [context EXCEPT !.vars = @ \cup {doing[a].node}], {}, NoTask)
      BY <1>1, <1>5, <2>2, <3>3 DEF MergeRead, Moves, ActorTyped, Places, Goto
    <3> QED
      BY <3>4
  <2>3. CASE MergeWrite(a)
    <3>1. Moves(a, "called", Blank, {}, doing[a])
      BY <1>1, <1>4, <2>3, BlankTyped DEF MergeWrite, Moves, ActorTyped, Places, Goto
    <3> QED
      BY <3>1
  <2>4. CASE Read(a)
    <3>1. CASE run \in TerminalRun
      <4>1. Moves(a, "idle", copy[a], {}, doing[a])
        BY <1>1, <1>4, <2>4, <3>1 DEF Read, Moves, ActorTyped, Places, Goto
      <4> QED
        BY <4>1
    <3>2. CASE run \notin TerminalRun
      <4>1. PICK step \in {"starting", "poll"} : pc' = [pc EXCEPT ![a] = step]
        BY <2>4, <3>2 DEF Read, Goto
      <4>2. Moves(a, step, Resumed(context), {}, doing[a])
        BY <1>1, <1>4, <2>4, <3>2, <4>1, ResumedTyped DEF Read, Moves, ActorTyped, Places
      <4> QED
        BY <4>2
    <3> QED
      BY <3>1, <3>2
  <2>5. CASE Suspend(a) \/ Save(a)
    <3>1. Moves(a, "idle", Blank, {}, doing[a])
      BY <1>1, <1>4, <2>5, BlankTyped DEF Suspend, Save, Return, Moves, Places, Goto
    <3> QED
      BY <3>1
  <2>6. CASE Crash(a)
    <3>1. Moves(a, "idle", Blank, {}, NoTask)
      BY <1>1, <1>5, <2>6, BlankTyped DEF Crash, Return, Moves, Places, Goto
    <3> QED
      BY <3>1
  <2> QED
    BY <2>1, <2>2, <2>3, <2>4, <2>5, <2>6
<1> QED
  BY <1>2, <1>3, <1>6, ActorStep

LEMMA GenerationTyped ==
  ASSUME Backing, Backing', Typing, NEW a \in Actors, Generation(a)
  PROVE  Typing'
<1> DEFINE polled == [n \in Nodes |-> Polled(n, copy[a].nodes[n])]
           after  == MarkSkipped(polled)
           c      == [copy[a] EXCEPT !.nodes = after]
<1>1. /\ copy[a] \in Contexts /\ ActorTyped(a) /\ \A n \in Nodes : Len(tasks[n]) \in Nat
      /\ tasks' = tasks /\ copy' = [copy EXCEPT ![a] = c] /\ doing' = doing
      /\ UNCHANGED <<run, due, context, cancel, crashes>>
  BY DEF Generation, Typing, Rows, Backing, Shape
<1>2. copy[a].nodes \in [Nodes -> Stamps] /\ copy[a] = [nodes |-> copy[a].nodes, vars |-> copy[a].vars]
      /\ copy[a].vars \subseteq Setters
  BY <1>1, ContextsAreOfStamps
<1>3. polled \in [Nodes -> Stamps]
  BY <1>2, PolledTyped
<1>4. after \in [Nodes -> Stamps]
  BY <1>3, MarkedTyped
<1>5. c \in Contexts
  BY <1>2, <1>4, ContextsAreOfStamps
<1>6. ReadyNodes(polled) \subseteq Nodes
  BY DEF ReadyNodes, Pending
<1>7. PICK step \in {"dispatch", "poll", "save"} :
        /\ pc' = [pc EXCEPT ![a] = step]
        /\ todo' = [todo EXCEPT ![a] = ReadyNodes(polled)]
        /\ ReadyNodes(polled) = {} <=> step # "dispatch"
  BY DEF Generation, Goto
<1> HIDE DEF c
<1>8. Moves(a, step, c, ReadyNodes(polled), doing[a])
  BY <1>1, <1>5, <1>6, <1>7 DEF Moves, ActorTyped, HeldRightly, Places
<1>9. Rows' /\ \A n \in Nodes : Len(tasks[n]) <= Len(tasks'[n])
  BY <1>1 DEF Typing, Rows
<1> QED
  BY <1>8, <1>9, ActorStep

LEMMA DispatchTyped ==
  ASSUME Backing, Backing', Typing, NEW a \in Actors, Dispatch(a)
  PROVE  Typing'
<1>1. PICK n \in todo[a] :
        DispatchInline(a, n) \/ DispatchTask(a, n) \/ DispatchWait(a, n) \/ DispatchThrows(a, n)
  BY DEF Dispatch, Foremost
<1>2. /\ copy[a] \in Contexts /\ ActorTyped(a) /\ n \in Nodes
      /\ \A m \in Nodes : Len(tasks[m]) \in Nat /\ Len(tasks[m]) <= MaxTasks
      /\ doing' = doing /\ UNCHANGED <<run, due, context, cancel, crashes>>
      /\ todo = [b \in Actors |-> todo[b]]
      /\ tasks \in [Nodes -> Seq(TaskStatuses)]
  BY <1>1 DEF Dispatch, Typing, ActorTyped, Rows, Backing, Shape
<1>3. ASSUME NEW s \in Stamps PROVE [copy[a] EXCEPT !.nodes = [@ EXCEPT ![n] = s]] \in Contexts
  <2>1. copy[a].nodes \in [Nodes -> Stamps] /\ copy[a] = [nodes |-> copy[a].nodes, vars |-> copy[a].vars]
        /\ copy[a].vars \subseteq Setters
    BY <1>2, ContextsAreOfStamps
  <2>2. [copy[a].nodes EXCEPT ![n] = s] \in [Nodes -> Stamps]
    BY <2>1
  <2> QED
    BY <2>1, <2>2, ContextsAreOfStamps
<1>4. Rows' /\ \A m \in Nodes : Len(tasks[m]) <= Len(tasks'[m])
  <2>1. CASE DispatchTask(a, n)
    <3>1. tasks' = [tasks EXCEPT ![n] = Append(tasks[n], "QUEUED")] /\ Len(tasks[n]) < MaxTasks
      BY <2>1 DEF DispatchTask
    <3>2. Len(Append(tasks[n], "QUEUED")) = Len(tasks[n]) + 1
      BY <1>2 DEF TaskStatuses
    <3>3. \A m \in Nodes : Len(tasks'[m]) = IF m = n THEN Len(tasks[n]) + 1 ELSE Len(tasks[m])
      BY <1>2, <3>1, <3>2
    <3>4. \A m \in Nodes : Len(tasks'[m]) <= MaxTasks /\ Len(tasks[m]) <= Len(tasks'[m])
      BY <1>2, <3>1, <3>3, BoundAssumption
    <3> QED
      BY <1>2, <3>4 DEF Typing, Rows
  <2>2. CASE tasks' = tasks
    BY <1>2, <2>2 DEF Typing, Rows
  <2> QED
    BY <1>1, <2>1, <2>2 DEF DispatchInline, DispatchWait, DispatchThrows
<1>5. ASSUME NEW step, step # "merge" PROVE HeldRightly(doing[a], step, tasks')
  <2>1. \A m \in Nodes : 1 .. Len(tasks[m]) \subseteq 1 .. Len(tasks'[m])
    BY <1>2, <1>4 DEF Backing, Shape
  <2> QED
    BY <1>2, <1>5, <2>1 DEF ActorTyped, HeldRightly
<1>6. ASSUME NEW s \in Stamps, Dispatched(a, n, s)
      PROVE  \E step, c, S : Moves(a, step, c, S, doing[a])
  <2> DEFINE step == IF todo[a] = {n} THEN "poll" ELSE "dispatch"
             c    == [copy[a] EXCEPT !.nodes = [@ EXCEPT ![n] = s]]
  <2>1. c \in Contexts /\ copy' = [copy EXCEPT ![a] = c]
    BY <1>3, <1>6 DEF Dispatched
  <2>2. todo[a] \ {n} \subseteq Nodes /\ (todo[a] \ {n} = {} <=> step # "dispatch") /\ step \in Places
        /\ step # "merge"
    BY <1>1, <1>2 DEF ActorTyped, Places
  <2>3. pc' = [pc EXCEPT ![a] = step] /\ todo' = [todo EXCEPT ![a] = todo[a] \ {n}]
    BY <1>6 DEF Dispatched, Goto
  <2> HIDE DEF step, c
  <2>4. Moves(a, step, c, todo[a] \ {n}, doing[a])
    BY <1>2, <1>5, <2>1, <2>2, <2>3 DEF Moves
  <2> QED
    BY <2>4
<1>7. \E step, c, S : Moves(a, step, c, S, doing[a])
  <2>1. CASE DispatchInline(a, n)
    <3>1. JoinResult(n, copy[a].nodes) \in Stamps
      BY PlainStates DEF JoinResult
    <3>2. \A b \in BranchesOf[n] : State("SUCCEEDED", b, 0) \in Stamps
      BY <1>2, PlainStates, StateTyped DEF NodeStatuses
    <3>3. \E s \in Stamps : Dispatched(a, n, s)
      BY <2>1, <3>1, <3>2, PlainStates DEF DispatchInline
    <3> QED
      BY <1>6, <3>3
  <2>2. CASE DispatchTask(a, n)
    <3>1. Len(tasks[n]) + 1 \in 0 .. MaxTasks
      BY <1>2, <2>2, BoundAssumption DEF DispatchTask
    <3>2. State("RUNNING", "none", Len(tasks[n]) + 1) \in Stamps
      BY <3>1, StateTyped DEF NodeStatuses
    <3> QED
      BY <1>6, <2>2, <3>2 DEF DispatchTask
  <2>3. CASE DispatchWait(a, n)
    <3> DEFINE c == [copy[a] EXCEPT !.nodes = [@ EXCEPT ![n] = State("WAITING", "none", 0)]]
    <3>1. c \in Contexts
      BY <1>3, PlainStates
    <3>2. copy' = [copy EXCEPT ![a] = c] /\ todo' = [todo EXCEPT ![a] = {}] /\ pc' = [pc EXCEPT ![a] = "suspend"]
      BY <2>3 DEF DispatchWait, Goto
    <3> HIDE DEF c
    <3>3. Moves(a, "suspend", c, {}, doing[a])
      BY <1>2, <1>5, <3>1, <3>2 DEF Moves, Places
    <3> QED
      BY <3>3
  <2>4. CASE DispatchThrows(a, n)
    <3>1. Moves(a, "idle", Blank, {}, doing[a])
      BY <1>2, <1>5, <2>4, BlankTyped DEF DispatchThrows, Return, Goto, Moves, Places
    <3> QED
      BY <3>1
  <2> QED
    BY <1>1, <2>1, <2>2, <2>3, <2>4
<1> QED
  BY <1>4, <1>7, ActorStep

LEMMA OthersTyped ==
  ASSUME Backing, Backing', Typing,
         CancelCheck \/ CancelTasks \/ CancelWrite \/ ResumeAtPasses \/ UNCHANGED vars
  PROVE  Typing'
<1>1. /\ UNCHANGED <<context, pc, copy, todo, doing, crashes>>
      /\ run' \in RunStatuses /\ due' \in BOOLEAN /\ cancel' \in {"none", "checked", "jobs", "done"}
  BY DEF CancelCheck, CancelTasks, CancelWrite, ResumeAtPasses, vars, Typing, Rows, RunStatuses
<1>2. ASSUME NEW n \in Nodes PROVE Len(tasks'[n]) = Len(tasks[n])
  <2>1. CASE CancelTasks
    <3>1. tasks'[n] \in Seq(TaskStatuses) /\ tasks[n] \in Seq(TaskStatuses)
      BY DEF Backing, Shape
    <3>2. DOMAIN tasks'[n] = 1 .. Len(tasks[n])
      BY <2>1 DEF CancelTasks
    <3> QED
      BY <3>1, <3>2
  <2>2. CASE CancelCheck \/ CancelWrite \/ ResumeAtPasses \/ UNCHANGED vars
    BY <2>2 DEF CancelCheck, CancelWrite, ResumeAtPasses, vars
  <2> QED
    BY <2>1, <2>2
<1>3. Rows'
  BY <1>1, <1>2 DEF Typing, Rows
<1>4. \A a \in Actors : ActorTyped(a)'
  BY <1>1, <1>2 DEF Typing, ActorTyped, HeldRightly
<1> QED
  BY <1>1, <1>3, <1>4 DEF Typing

LEMMA TypingStep == Backing /\ Typing /\ [Next]_vars => Typing'
<1> SUFFICES ASSUME Backing, Typing, [Next]_vars PROVE Typing'
  OBVIOUS
<1>1. Backing'
  BY BackingStep
<1>2. ASSUME NEW a \in Actors, CronPicks(a) \/ Proceed(a) \/ Crash(a) PROVE Typing'
  BY <1>1, <1>2, WorkerTyped, CallerTyped, GenerationTyped, DispatchTyped DEF Proceed
<1>3. ASSUME NEW a \in Actors, NEW n \in Tasked, TaskTaken(a, n) PROVE Typing'
  BY <1>1, <1>3, WorkerTyped
<1>4. CASE CancelCheck \/ CancelTasks \/ CancelWrite \/ ResumeAtPasses \/ UNCHANGED vars
  BY <1>1, <1>4, OthersTyped
<1> QED
  BY <1>2, <1>3, <1>4 DEF Next

\* The context of a run and every copy of it are what run-state.ts reads and
\* writes, each node waits for a task there may be, and an actor has nodes to
\* dispatch exactly while it dispatches (advanceAutomationRun, tickGraph).
THEOREM TypeCorrect == Spec => []TypeOK
<1>1. Init => Backing /\ Typing
  <2> SUFFICES ASSUME Init PROVE Backing /\ Typing
    OBVIOUS
  <2>1. Backing
    BY BlankBacked DEF Init, Backing, Shape, Hands, AllBacked
  <2>2. Rows
    <3>1. \A n \in Nodes : Len(tasks[n]) <= MaxTasks
      BY BoundAssumption DEF Init
    <3>2. crashes \in 0 .. MaxCrashes
      BY BoundAssumption DEF Init
    <3> QED
      BY <3>1, <3>2, BlankTyped DEF Init, Rows, RunStatuses
  <2>3. \A a \in Actors : ActorTyped(a)
    BY DEF Init, ActorTyped, HeldRightly
  <2> QED
    BY <2>1, <2>2, <2>3, BlankTyped DEF Init, Typing, Places
<1>2. Backing /\ Typing => TypeOK
  <2> SUFFICES ASSUME Backing, Typing PROVE TypeOK
    OBVIOUS
  <2>1. \A n \in Nodes : \A k \in 1 .. Len(tasks[n]) : tasks[n][k] \in TaskStatuses
    BY DEF Backing, Shape
  <2> QED
    BY <2>1 DEF TypeOK, Typing, Rows, ActorTyped, HeldRightly, Places
<1> QED
  BY <1>1, <1>2, BackingStep, TypingStep, PTL DEF Spec

----------------------------------------------------------------------------
(* The scan of the graph.  OutOfReach chooses a set that agrees with itself; *)
(* it exists since a mark more can only put more nodes out of reach: the     *)
(* least of them is the meet of the sets closed under the scan.              *)

\* A mark settles a node, and opens no edge.
LEMMA MarksOnlyClose ==
  ASSUME NEW st, NEW S, NEW T, S \subseteq T, NEW n \in Nodes, Unreachable(n, Marked(st, S))
  PROVE  Unreachable(n, Marked(st, T))
<1> USE GraphAssumption DEF Marked, Into
<1>1. \A e \in Into(n) : e.source \in Nodes
  OBVIOUS
<1>2. AllIn(n, Marked(st, T))
  BY <1>1 DEF Unreachable, AllIn, Settled, State, Terminal
<1>3. ASSUME NEW e \in Into(n), EdgeIsSatisfied(e, Marked(st, T)[e.source])
      PROVE  FALSE
  <2>1. e.source \notin T \cap Pending(st)
    BY <1>1, <1>3 DEF EdgeIsSatisfied, State
  <2>2. Marked(st, T)[e.source] = Marked(st, S)[e.source]
    BY <1>1, <2>1
  <2> QED
    BY <1>3, <2>2 DEF Unreachable, Along
<1> QED
  BY <1>2, <1>3 DEF Unreachable, Along

LEMMA OutOfReachAgrees ==
  ASSUME NEW st
  PROVE  /\ OutOfReach(st) \subseteq Pending(st)
         /\ \A n \in Pending(st) :
              n \in OutOfReach(st) <=> Unreachable(n, Marked(st, OutOfReach(st) \cap Before[n]))
<1> DEFINE F(S) == {n \in Pending(st) : Unreachable(n, Marked(st, S \cap Before[n]))}
           Closed == {T \in SUBSET Pending(st) : F(T) \subseteq T}
           L == {n \in Pending(st) : \A T \in Closed : n \in T}
<1>1. ASSUME NEW S, NEW T, S \subseteq T PROVE F(S) \subseteq F(T)
  <2>1. \A n \in Pending(st) : n \in Nodes /\ S \cap Before[n] \subseteq T \cap Before[n]
    BY <1>1 DEF Pending
  <2> QED
    BY <2>1, MarksOnlyClose
<1>2. F(L) \subseteq L
  <2> SUFFICES ASSUME NEW n \in F(L), NEW T \in Closed PROVE n \in T
    OBVIOUS
  <2>1. L \subseteq T
    OBVIOUS
  <2>2. F(L) \subseteq F(T)
    BY <1>1, <2>1
  <2> QED
    BY <2>2
<1>3. F(L) \in Closed
  <2>1. F(F(L)) \subseteq F(L)
    BY <1>1, <1>2
  <2> QED
    BY <2>1
<1>4. L = F(L)
  BY <1>2, <1>3
<1>5. \E S \in SUBSET Pending(st) :
        \A n \in Pending(st) : n \in S <=> Unreachable(n, Marked(st, S \cap Before[n]))
  <2>1. L \in SUBSET Pending(st)
    OBVIOUS
  <2>2. \A n \in Pending(st) : n \in L <=> Unreachable(n, Marked(st, L \cap Before[n]))
    BY <1>4
  <2> QED
    BY <2>1, <2>2
<1> HIDE DEF L, F, Closed
<1> QED
  BY <1>5 DEF OutOfReach
----------------------------------------------------------------------------
(* AfterItsNeeds.  Along every view of the run, a node that has been reached *)
(* has its sources settled, and a settled node of an action or a child run   *)
(* is accounted for by a task that is over.  The nodes an advance has listed *)
(* are ready by what its copy says.                                          *)

OpensEarly(n) == TypeOf[n] = "join" /\ ModeOf[n] = "any"

Ordered(st) ==
  \A e \in Edges : st[e.target].status # "PENDING" /\ ~OpensEarly(e.target) => Settled(st[e.source])

Over(n, t) == \E k \in 1 .. Len(t[n]) : t[n][k] \notin OpenTask

Accounted(st, t) ==
  \A m \in Tasked : Settled(st[m]) => st[m] = State("SKIPPED", "none", 0) \/ Over(m, t)

InTurn(n, st) == n \in Nodes /\ st[n].status = "PENDING" /\ (OpensEarly(n) \/ AllIn(n, st))

Untouched == cancel \in {"none", "checked"}

NoneCancelled(t) == \A n \in Nodes : \A k \in 1 .. Len(t[n]) : t[n][k] # "CANCELLED"

AllAccounted ==
  /\ Accounted(context.nodes, tasks)
  /\ \A a \in Actors : Accounted(copy[a].nodes, tasks)

NeedsInv ==
  /\ Ordered(context.nodes)
  /\ \A a \in Actors : Ordered(copy[a].nodes)
  /\ todo = [a \in Actors |-> todo[a]]
  /\ \A a \in Actors : \A n \in todo[a] : pc[a] = "dispatch" /\ InTurn(n, copy[a].nodes)
  /\ Untouched => NoneCancelled(tasks) /\ AllAccounted

\* What is over stays over.
Lasting(t, u) ==
  \A n \in Nodes :
    /\ 1 .. Len(t[n]) \subseteq 1 .. Len(u[n])
    /\ \A k \in 1 .. Len(t[n]) : t[n][k] \notin OpenTask => u[n][k] \notin OpenTask

LEMMA AccountsLast ==
  ASSUME NEW st, NEW t, NEW u, Accounted(st, t), Lasting(t, u)
  PROVE  Accounted(st, u)
  BY DEF Accounted, Over, Lasting, Tasked

LEMMA BlankFits == Ordered(Blank.nodes) /\ \A t : Accounted(Blank.nodes, t)
  BY GraphAssumption DEF Ordered, Accounted, Blank, Fresh, State, Settled, Terminal, Tasked

LEMMA ResumedFits ==
  ASSUME NEW c, IsContext(c), NEW t, Ordered(c.nodes)
  PROVE  /\ Ordered(Resumed(c).nodes)
         /\ Accounted(c.nodes, t) => Accounted(Resumed(c).nodes, t)
  BY GraphAssumption DEF IsContext, Resumed, Ordered, Accounted, State, Settled, Terminal, Tasked

LEMMA PolledFits ==
  ASSUME NEW st, st = [n \in Nodes |-> st[n]], Ordered(st), BackedBy(st, tasks)
  PROVE  LET polled == [n \in Nodes |-> Polled(n, st[n])]
         IN  Ordered(polled) /\ (Accounted(st, tasks) => Accounted(polled, tasks))
<1> DEFINE polled == [n \in Nodes |-> Polled(n, st[n])]
<1>1. \A n \in Nodes : FailureResult(n).status \in {"FAILED", "SKIPPED"}
  BY DEF FailureResult, State
<1>2. \A n \in Nodes : /\ Settled(st[n]) => polled[n] = st[n]
                       /\ polled[n].status # "PENDING" <=> st[n].status # "PENDING"
  BY <1>1 DEF Polled, State, Settled, Terminal
<1>3. Ordered(polled)
  BY <1>2, GraphAssumption DEF Ordered
<1>4. ASSUME Accounted(st, tasks), NEW m \in Tasked, Settled(polled[m])
      PROVE  polled[m] = State("SKIPPED", "none", 0) \/ Over(m, tasks)
  <2>1. m \in Nodes /\ polled[m] = Polled(m, st[m])
    BY DEF Tasked
  <2>2. CASE st[m].status # "RUNNING" \/ tasks[m][st[m].task] \in OpenTask
    BY <1>4, <2>1, <2>2 DEF Polled, Accounted
  <2>3. CASE st[m].status = "RUNNING" /\ tasks[m][st[m].task] \notin OpenTask
    BY <2>3 DEF BackedBy, Over
  <2> QED
    BY <2>2, <2>3
<1> QED
  BY <1>3, <1>4 DEF Accounted

LEMMA MarkedFits ==
  ASSUME NEW st, NEW t, st = [n \in Nodes |-> st[n]], Ordered(st)
  PROVE  /\ Ordered(MarkSkipped(st))
         /\ Accounted(st, t) => Accounted(MarkSkipped(st), t)
         /\ \A n \in ReadyNodes(st) : InTurn(n, MarkSkipped(st))
<1> DEFINE S == OutOfReach(st)
           after == MarkSkipped(st)
<1>1. S \subseteq Pending(st) /\ \A n \in Pending(st) : n \in S <=> Unreachable(n, Marked(st, S \cap Before[n]))
  BY OutOfReachAgrees
<1> HIDE DEF S
<1>2. after = Marked(st, S)
  BY DEF MarkSkipped, S
<1>3. \A n \in Nodes : /\ n \in S => after[n] = State("SKIPPED", "none", 0)
                       /\ n \notin S => after[n] = st[n]
  BY <1>1, <1>2 DEF Marked
<1>4. ASSUME NEW T, NEW n \in Nodes, AllIn(n, Marked(st, S \cap T)) PROVE AllIn(n, after)
  <2> SUFFICES ASSUME NEW e \in Into(n) PROVE Settled(after[e.source])
    BY DEF AllIn
  <2>1. e.source \in Nodes /\ Settled(Marked(st, S \cap T)[e.source])
    BY <1>4, GraphAssumption DEF AllIn, Into
  <2>2. CASE e.source \in S
    BY <1>3, <2>1, <2>2 DEF Settled, State, Terminal
  <2>3. CASE e.source \notin S
    BY <1>3, <2>1, <2>3 DEF Marked
  <2> QED
    BY <2>2, <2>3
<1>5. \A n \in Nodes : Settled(st[n]) => Settled(after[n])
  BY <1>3 DEF Settled, State, Terminal
<1>6. Ordered(after)
  <2> SUFFICES ASSUME NEW e \in Edges, after[e.target].status # "PENDING", ~OpensEarly(e.target)
               PROVE  Settled(after[e.source])
    BY DEF Ordered
  <2>1. e.target \in Nodes /\ e.source \in Nodes /\ e \in Into(e.target)
    BY GraphAssumption DEF Into
  <2>2. CASE e.target \in S
    <3>1. AllIn(e.target, after)
      BY <1>1, <1>4, <2>1, <2>2 DEF Unreachable
    <3> QED
      BY <2>1, <3>1 DEF AllIn
  <2>3. CASE e.target \notin S
    BY <1>3, <1>5, <2>1, <2>3 DEF Ordered
  <2> QED
    BY <2>2, <2>3
<1>7. Accounted(st, t) => Accounted(after, t)
  BY <1>3 DEF Accounted, Tasked
<1>8. ASSUME NEW n \in ReadyNodes(st) PROVE InTurn(n, after)
  <2>1. n \in Pending(st) /\ n \in Nodes /\ Ready(n, Marked(st, S \cap Before[n]))
    BY DEF ReadyNodes, Pending, S
  <2>2. n \notin S
    BY <1>1, <2>1 DEF Ready, Unreachable
  <2>3. after[n].status = "PENDING"
    BY <1>3, <2>1, <2>2 DEF Pending
  <2>4. OpensEarly(n) \/ AllIn(n, Marked(st, S \cap Before[n]))
    BY <2>1 DEF Ready, OpensEarly, AllIn
  <2> QED
    BY <1>4, <2>1, <2>3, <2>4 DEF InTurn
<1> QED
  BY <1>6, <1>7, <1>8

\* A step of one actor that leaves it with copy c and ready nodes T.
LEMMA ViewsStep ==
  ASSUME Backing, NeedsInv, NEW a \in Actors, NEW c, NEW T, NEW step,
         copy' = [copy EXCEPT ![a] = c],
         todo' = [todo EXCEPT ![a] = T],
         pc' = [pc EXCEPT ![a] = step],
         context' = context \/ context' = copy[a],
         Ordered(c.nodes),
         \A n \in T : step = "dispatch" /\ InTurn(n, c.nodes),
         cancel' = cancel,
         Untouched => /\ NoneCancelled(tasks')
                      /\ Lasting(tasks, tasks')
                      /\ AllAccounted => Accounted(c.nodes, tasks')
  PROVE  NeedsInv'
<1>1. \A b \in Actors : /\ copy'[b] = IF b = a THEN c ELSE copy[b]
                        /\ todo'[b] = IF b = a THEN T ELSE todo[b]
                        /\ pc'[b] = IF b = a THEN step ELSE pc[b]
  BY DEF NeedsInv, Backing, Shape
<1>2. Ordered(context.nodes)' /\ \A b \in Actors : Ordered(copy'[b].nodes)
  BY <1>1 DEF NeedsInv
<1>3. /\ (todo = [b \in Actors |-> todo[b]])'
      /\ \A b \in Actors : \A n \in todo'[b] : pc'[b] = "dispatch" /\ InTurn(n, copy'[b].nodes)
  BY <1>1 DEF NeedsInv
<1>4. ASSUME Untouched'
      PROVE  NoneCancelled(tasks') /\ AllAccounted'
  <2>1. Untouched /\ AllAccounted
    BY <1>4 DEF NeedsInv, Untouched
  <2>2. /\ Lasting(tasks, tasks') /\ Accounted(c.nodes, tasks')
        /\ Accounted(context.nodes, tasks) /\ \A b \in Actors : Accounted(copy[b].nodes, tasks)
    BY <2>1 DEF AllAccounted
  <2>3. Accounted(context.nodes, tasks') /\ \A b \in Actors : Accounted(copy[b].nodes, tasks')
    BY <2>2, AccountsLast
  <2>4. Accounted(context'.nodes, tasks') /\ \A b \in Actors : Accounted(copy'[b].nodes, tasks')
    BY <1>1, <2>2, <2>3
  <2> QED
    BY <2>1, <2>4 DEF AllAccounted
<1> QED
  BY <1>2, <1>3, <1>4 DEF NeedsInv

LEMMA NothingChanges == ASSUME NEW t PROVE Lasting(t, t)
  BY DEF Lasting

\* Such a step that changes no task.
LEMMA ViewsOnlyStep ==
  ASSUME Backing, NeedsInv, NEW a \in Actors, NEW c, NEW T, NEW step,
         copy' = [copy EXCEPT ![a] = c],
         todo' = [todo EXCEPT ![a] = T],
         pc' = [pc EXCEPT ![a] = step],
         context' = context \/ context' = copy[a],
         Ordered(c.nodes),
         \A n \in T : step = "dispatch" /\ InTurn(n, c.nodes),
         cancel' = cancel, tasks' = tasks,
         Untouched /\ AllAccounted => Accounted(c.nodes, tasks)
  PROVE  NeedsInv'
<1>1. Untouched => NoneCancelled(tasks') /\ Lasting(tasks, tasks')
  BY NothingChanges DEF NeedsInv
<1> QED
  BY <1>1, ViewsStep

\* Such a step that keeps the actor's copy, and takes it to a place where no
\* node is listed.
LEMMA TasksOnlyStep ==
  ASSUME Backing, NeedsInv, NEW a \in Actors, NEW step,
         copy' = copy, todo' = todo, context' = context, cancel' = cancel,
         pc' = [pc EXCEPT ![a] = step], pc[a] # "dispatch",
         Untouched => NoneCancelled(tasks') /\ Lasting(tasks, tasks')
  PROVE  NeedsInv'
<1>1. /\ copy' = [copy EXCEPT ![a] = copy[a]]
      /\ todo' = [todo EXCEPT ![a] = todo[a]]
  BY DEF NeedsInv, Backing, Shape
<1>2. todo[a] = {} /\ Ordered(copy[a].nodes)
  BY DEF NeedsInv
<1>3. ASSUME Untouched, AllAccounted PROVE Accounted(copy[a].nodes, tasks')
  BY <1>3, AccountsLast DEF AllAccounted
<1> QED
  BY <1>1, <1>2, <1>3, ViewsStep

LEMMA WorkersFit ==
  ASSUME Backing, NeedsInv, NEW a \in Actors,
         TaskEnds(a) \/ TaskRequeued(a) \/ \E n \in Tasked : TaskTaken(a, n)
  PROVE  NeedsInv'
<1>1. tasks \in [Nodes -> Seq(TaskStatuses)]
  BY DEF Backing, Shape
<1>2. ASSUME NEW n \in Nodes, NEW k \in 1 .. Len(tasks[n]), NEW x \in TaskStatuses, x # "CANCELLED",
             tasks[n][k] \in OpenTask, tasks' = [tasks EXCEPT ![n][k] = x], NoneCancelled(tasks)
      PROVE  NoneCancelled(tasks') /\ Lasting(tasks, tasks')
  <2>1. tasks[n][k] # "SUCCEEDED"
    BY <1>2 DEF OpenTask
  <2>2. Changed(tasks, tasks', n, k, x)
    BY <1>1, <1>2, <2>1, OneTaskChanges
  <2> QED
    BY <1>2, <2>2 DEF Changed, NoneCancelled, Lasting
<1>3. CASE TaskEnds(a) \/ TaskRequeued(a)
  <2>1. pc[a] = "working"
    BY <1>3 DEF TaskEnds, TaskRequeued
  <2>2. /\ doing[a].node \in Nodes
        /\ doing[a].k \in 1 .. Len(tasks[doing[a].node])
        /\ tasks[doing[a].node][doing[a].k] \in {"RUNNING", "CANCELLED"}
    BY <2>1 DEF Backing, Hands, Tasked
  <2>3. PICK x \in {"SUCCEEDED", "DEAD_LETTERED", "QUEUED"} :
          tasks' = [tasks EXCEPT ![doing[a].node][doing[a].k] = x]
    BY <1>3 DEF TaskEnds, TaskRequeued
  <2>4. x \in TaskStatuses /\ x # "CANCELLED"
    BY DEF TaskStatuses
  <2>5. ASSUME Untouched PROVE NoneCancelled(tasks') /\ Lasting(tasks, tasks')
    <3>1. NoneCancelled(tasks) /\ tasks[doing[a].node][doing[a].k] \in OpenTask
      BY <2>2, <2>5 DEF NeedsInv, NoneCancelled, OpenTask
    <3> QED
      BY <1>2, <2>2, <2>3, <2>4, <3>1
  <2>6. PICK step : pc' = [pc EXCEPT ![a] = step]
    BY <1>3 DEF TaskEnds, TaskRequeued, Goto
  <2>7. copy' = copy /\ todo' = todo /\ context' = context /\ cancel' = cancel
    BY <1>3 DEF TaskEnds, TaskRequeued
  <2> QED
    BY <2>1, <2>5, <2>6, <2>7, TasksOnlyStep
<1>4. CASE \E n \in Tasked : TaskTaken(a, n)
  <2>1. PICK n \in Tasked : TaskTaken(a, n)
    BY <1>4
  <2>2. n \in Nodes /\ "RUNNING" \in TaskStatuses
    BY DEF Tasked, TaskStatuses
  <2>3. PICK k \in 1 .. Len(tasks[n]) :
          tasks[n][k] = "QUEUED" /\ tasks' = [tasks EXCEPT ![n][k] = "RUNNING"]
    BY <2>1 DEF TaskTaken
  <2>4. ASSUME Untouched PROVE NoneCancelled(tasks') /\ Lasting(tasks, tasks')
    <3>1. NoneCancelled(tasks) /\ tasks[n][k] \in OpenTask
      BY <2>3, <2>4 DEF NeedsInv, OpenTask
    <3> QED
      BY <1>2, <2>2, <2>3, <3>1
  <2>5. /\ pc' = [pc EXCEPT ![a] = "working"] /\ pc[a] = "idle"
        /\ copy' = copy /\ todo' = todo /\ context' = context /\ cancel' = cancel
    BY <2>1 DEF TaskTaken, Goto
  <2> QED
    BY <2>4, <2>5, TasksOnlyStep
<1> QED
  BY <1>3, <1>4

LEMMA CallersFit ==
  ASSUME Backing, NeedsInv, NEW a \in Actors,
         CronPicks(a) \/ WriteRunning(a) \/ MergeRead(a) \/ MergeWrite(a) \/ Read(a) \/ Crash(a)
  PROVE  NeedsInv'
<1>1. tasks' = tasks /\ cancel' = cancel
  BY DEF CronPicks, WriteRunning, MergeRead, MergeWrite, Read, Crash
<1>2. Untouched => NoneCancelled(tasks') /\ Lasting(tasks, tasks')
  BY <1>1, NothingChanges DEF NeedsInv
<1>3. /\ todo = [todo EXCEPT ![a] = todo[a]]
      /\ Ordered(context.nodes) /\ IsContext(context)
      /\ AllAccounted => Accounted(context.nodes, tasks)
      /\ IsContext(copy[a])
  BY DEF NeedsInv, Backing, Shape, AllAccounted
<1>4. CASE CronPicks(a) \/ WriteRunning(a)
  <2>1. /\ pc[a] # "dispatch" /\ copy' = copy /\ todo' = todo /\ context' = context
        /\ \E step : pc' = [pc EXCEPT ![a] = step]
    BY <1>4 DEF CronPicks, WriteRunning, Goto
  <2> QED
    BY <1>1, <1>2, <2>1, TasksOnlyStep
<1>5. CASE MergeRead(a)
  <2> DEFINE c == [context EXCEPT !.vars = @ \cup {doing[a].node}]
  <2>1. c.nodes = context.nodes
    BY <1>3 DEF IsContext
  <2>2. /\ copy' = [copy EXCEPT ![a] = c] /\ todo' = [todo EXCEPT ![a] = todo[a]]
        /\ pc' = [pc EXCEPT ![a] = "merging"] /\ context' = context /\ todo[a] = {}
    BY <1>3, <1>5 DEF MergeRead, Goto, NeedsInv
  <2> HIDE DEF c
  <2> QED
    BY <1>1, <1>3, <2>1, <2>2, ViewsOnlyStep
<1>6. CASE MergeWrite(a)
  <2>1. /\ copy' = [copy EXCEPT ![a] = Blank] /\ todo' = [todo EXCEPT ![a] = todo[a]]
        /\ pc' = [pc EXCEPT ![a] = "called"] /\ context' = copy[a] /\ todo[a] = {}
    BY <1>3, <1>6 DEF MergeWrite, Goto, NeedsInv
  <2> QED
    BY <1>1, <2>1, BlankFits, ViewsOnlyStep
<1>7. CASE Read(a)
  <2>1. /\ todo' = [todo EXCEPT ![a] = todo[a]] /\ todo' = todo /\ todo[a] = {} /\ context' = context
        /\ pc[a] # "dispatch"
    BY <1>3, <1>7 DEF Read, NeedsInv
  <2>2. CASE run \in TerminalRun
    <3>1. pc' = [pc EXCEPT ![a] = "idle"] /\ copy' = copy
      BY <1>7, <2>2 DEF Read, Goto
    <3> QED
      BY <1>1, <1>2, <2>1, <3>1, TasksOnlyStep
  <2>3. CASE run \notin TerminalRun
    <3>1. /\ copy' = [copy EXCEPT ![a] = Resumed(context)]
          /\ \E step : pc' = [pc EXCEPT ![a] = step]
      BY <1>7, <2>3 DEF Read, Goto
    <3>2. /\ Ordered(Resumed(context).nodes)
          /\ AllAccounted => Accounted(Resumed(context).nodes, tasks)
      BY <1>3, ResumedFits
    <3> QED
      BY <1>1, <2>1, <3>1, <3>2, ViewsOnlyStep
  <2> QED
    BY <2>2, <2>3
<1>8. CASE Crash(a)
  <2>1. /\ copy' = [copy EXCEPT ![a] = Blank] /\ todo' = [todo EXCEPT ![a] = {}]
        /\ pc' = [pc EXCEPT ![a] = "idle"] /\ context' = context
    BY <1>8 DEF Crash, Return, Goto
  <2> QED
    BY <1>1, <2>1, BlankFits, ViewsOnlyStep
<1> QED
  BY <1>4, <1>5, <1>6, <1>7, <1>8

LEMMA GenerationFits ==
  ASSUME Backing, NeedsInv, NEW a \in Actors, Generation(a)
  PROVE  NeedsInv'
<1> DEFINE before == copy[a].nodes
           polled == [n \in Nodes |-> Polled(n, before[n])]
           after == MarkSkipped(polled)
           ready == ReadyNodes(polled)
           c == [copy[a] EXCEPT !.nodes = after]
           step == IF ready # {} THEN "dispatch" ELSE IF after # before THEN "poll" ELSE "save"
<1>1. /\ IsContext(copy[a]) /\ BackedBy(before, tasks) /\ Ordered(before)
      /\ AllAccounted => Accounted(before, tasks)
      /\ copy = [b \in Actors |-> copy[b]]
  BY DEF Backing, Shape, AllBacked, NeedsInv, AllAccounted
<1>2. Ordered(polled) /\ (AllAccounted => Accounted(polled, tasks))
  BY <1>1, PolledFits DEF IsContext
<1>3. polled = [n \in Nodes |-> polled[n]]
  OBVIOUS
<1>4. /\ copy' = [copy EXCEPT ![a].nodes = after] /\ todo' = [todo EXCEPT ![a] = ready]
      /\ pc' = [pc EXCEPT ![a] = step] /\ context' = context /\ tasks' = tasks /\ cancel' = cancel
  BY DEF Generation, Goto
<1> HIDE DEF polled
<1>5. /\ Ordered(after) /\ (AllAccounted => Accounted(after, tasks))
      /\ \A n \in ready : InTurn(n, after)
  BY <1>2, <1>3, MarkedFits
<1> HIDE DEF after, ready
<1>6. copy' = [copy EXCEPT ![a] = c] /\ c.nodes = after
  BY <1>1, <1>4 DEF IsContext
<1>7. \A n \in ready : step = "dispatch" /\ InTurn(n, c.nodes)
  BY <1>5, <1>6
<1> HIDE DEF c, step
<1> QED
  BY <1>4, <1>5, <1>6, <1>7, ViewsOnlyStep

\* A listed node is given its state: those it follows are settled, and no
\* other node has gone past it.
LEMMA NodeSetFits ==
  ASSUME NEW st, NEW n, NEW s, NEW t, st = [m \in Nodes |-> st[m]], Ordered(st), InTurn(n, st)
  PROVE  LET new == [st EXCEPT ![n] = s]
         IN  /\ Ordered(new)
             /\ \A m \in Nodes \ {n} : InTurn(m, st) => InTurn(m, new)
             /\ Accounted(st, t) /\ ~(n \in Tasked /\ Settled(s)) => Accounted(new, t)
<1> DEFINE new == [st EXCEPT ![n] = s]
<1>1. n \in Nodes /\ ~Settled(st[n]) /\ st[n].status = "PENDING"
  BY DEF InTurn, Settled, Terminal
<1>2. \A m \in Nodes : new[m] = IF m = n THEN s ELSE st[m]
  BY <1>1
<1>3. \A m \in Nodes : Settled(st[m]) => Settled(new[m])
  BY <1>1, <1>2
<1>4. \A m \in Nodes : AllIn(m, st) => AllIn(m, new)
  BY <1>3, GraphAssumption DEF AllIn, Into
<1>5. Ordered(new)
  <2> SUFFICES ASSUME NEW e \in Edges, new[e.target].status # "PENDING", ~OpensEarly(e.target)
               PROVE  Settled(new[e.source])
    BY DEF Ordered
  <2>1. e.target \in Nodes /\ e.source \in Nodes /\ e \in Into(e.target)
    BY GraphAssumption DEF Into
  <2>2. CASE e.target = n
    BY <1>3, <2>1, <2>2 DEF InTurn, AllIn
  <2>3. CASE e.target # n
    BY <1>2, <1>3, <2>1, <2>3 DEF Ordered
  <2> QED
    BY <2>2, <2>3
<1>6. \A m \in Nodes \ {n} : InTurn(m, st) => InTurn(m, new)
  BY <1>2, <1>4 DEF InTurn
<1>7. Accounted(st, t) /\ ~(n \in Tasked /\ Settled(s)) => Accounted(new, t)
  BY <1>2 DEF Accounted, Tasked
<1> QED
  BY <1>5, <1>6, <1>7

LEMMA DispatchFits ==
  ASSUME Backing, NeedsInv, NEW a \in Actors, Dispatch(a)
  PROVE  NeedsInv'
<1>1. PICK n \in todo[a] : DispatchInline(a, n) \/ DispatchTask(a, n) \/ DispatchWait(a, n) \/ DispatchThrows(a, n)
  BY DEF Dispatch, Foremost
<1>2. context' = context /\ cancel' = cancel
  BY DEF Dispatch
<1>3. /\ IsContext(copy[a]) /\ Ordered(copy[a].nodes)
      /\ \A m \in todo[a] : InTurn(m, copy[a].nodes)
      /\ AllAccounted => Accounted(copy[a].nodes, tasks)
      /\ copy = [b \in Actors |-> copy[b]]
      /\ tasks \in [Nodes -> Seq(TaskStatuses)]
  BY DEF NeedsInv, Backing, Shape, AllAccounted
<1>4. ASSUME NEW s, NEW T, NEW step, T \subseteq todo[a] \ {n}, T # {} => step = "dispatch",
             copy' = [copy EXCEPT ![a].nodes[n] = s],
             todo' = [todo EXCEPT ![a] = T], pc' = [pc EXCEPT ![a] = step],
             ~(n \in Tasked /\ Settled(s)),
             Untouched => NoneCancelled(tasks') /\ Lasting(tasks, tasks')
      PROVE  NeedsInv'
  <2> DEFINE c == [copy[a] EXCEPT !.nodes[n] = s]
             new == [copy[a].nodes EXCEPT ![n] = s]
  <2>1. copy' = [copy EXCEPT ![a] = c] /\ c.nodes = new
    BY <1>3, <1>4 DEF IsContext
  <2>2. InTurn(n, copy[a].nodes) /\ copy[a].nodes = [m \in Nodes |-> copy[a].nodes[m]]
    BY <1>3 DEF IsContext
  <2>3. /\ Ordered(new)
        /\ \A m \in Nodes \ {n} : InTurn(m, copy[a].nodes) => InTurn(m, new)
        /\ Accounted(copy[a].nodes, tasks) => Accounted(new, tasks)
    BY <1>3, <1>4, <2>2, NodeSetFits
  <2>4. \A m \in T : step = "dispatch" /\ InTurn(m, new)
    BY <1>3, <1>4, <2>3 DEF InTurn
  <2>5. ASSUME Untouched, AllAccounted PROVE Accounted(new, tasks')
    BY <1>3, <1>4, <2>3, <2>5, AccountsLast
  <2> HIDE DEF c, new
  <2>6. /\ copy' = [copy EXCEPT ![a] = c] /\ todo' = [todo EXCEPT ![a] = T]
        /\ pc' = [pc EXCEPT ![a] = step]
        /\ Ordered(c.nodes) /\ \A m \in T : step = "dispatch" /\ InTurn(m, c.nodes)
    BY <1>4, <2>1, <2>3, <2>4
  <2>7. Untouched => /\ NoneCancelled(tasks') /\ Lasting(tasks, tasks')
                     /\ AllAccounted => Accounted(c.nodes, tasks')
    BY <1>4, <2>1, <2>5
  <2> QED
    BY <1>2, <2>6, <2>7, ViewsStep
<1>5. tasks' = tasks => (Untouched => NoneCancelled(tasks') /\ Lasting(tasks, tasks'))
  BY NothingChanges DEF NeedsInv
<1> DEFINE step == IF todo[a] = {n} THEN "poll" ELSE "dispatch"
<1>6. todo[a] \ {n} # {} => step = "dispatch"
  OBVIOUS
<1> HIDE DEF step
<1>7. CASE DispatchInline(a, n)
  <2>1. n \notin Tasked /\ tasks' = tasks
    BY <1>7 DEF DispatchInline, Tasked
  <2>2. PICK s : Dispatched(a, n, s)
    BY <1>7 DEF DispatchInline
  <2>3. /\ copy' = [copy EXCEPT ![a].nodes[n] = s]
        /\ todo' = [todo EXCEPT ![a] = todo[a] \ {n}]
        /\ pc' = [pc EXCEPT ![a] = step]
    BY <2>2 DEF Dispatched, Goto, step
  <2> QED
    BY <1>4, <1>5, <1>6, <2>1, <2>3
<1>8. CASE DispatchTask(a, n)
  <2> DEFINE s == State("RUNNING", "none", Len(tasks[n]) + 1)
  <2>1. ~Settled(s) /\ n \in Nodes
    BY <1>8 DEF State, Settled, Terminal, DispatchTask, Tasked
  <2>2. /\ copy' = [copy EXCEPT ![a].nodes[n] = s]
        /\ todo' = [todo EXCEPT ![a] = todo[a] \ {n}]
        /\ pc' = [pc EXCEPT ![a] = step]
        /\ tasks' = [tasks EXCEPT ![n] = Append(@, "QUEUED")]
    BY <1>8 DEF DispatchTask, Dispatched, Goto, step
  <2> HIDE DEF s
  <2>3. /\ tasks' \in [Nodes -> Seq(TaskStatuses)]
        /\ \A m \in Nodes : /\ 1 .. Len(tasks[m]) \subseteq 1 .. Len(tasks'[m])
                            /\ \A i \in 1 .. Len(tasks[m]) : tasks'[m][i] = tasks[m][i]
    BY <1>3, <2>1, <2>2, OneTaskMore
  <2>4. Lasting(tasks, tasks')
    BY <2>3 DEF Lasting
  <2>5. ASSUME Untouched PROVE NoneCancelled(tasks')
    <3>1. NoneCancelled(tasks)
      BY <2>5 DEF NeedsInv
    <3> SUFFICES ASSUME NEW m \in Nodes, NEW k \in 1 .. Len(tasks'[m]) PROVE tasks'[m][k] # "CANCELLED"
      BY DEF NoneCancelled
    <3>2. CASE m = n
      <4>1. tasks'[n] = Append(tasks[n], "QUEUED") /\ tasks[n] \in Seq(TaskStatuses)
        BY <1>3, <2>1, <2>2
      <4>2. k \in 1 .. Len(tasks[n]) \/ tasks'[n][k] = "QUEUED"
        BY <3>2, <4>1
      <4> QED
        BY <2>1, <2>3, <3>1, <3>2, <4>2 DEF NoneCancelled
    <3>3. CASE m # n
      <4>1. tasks'[m] = tasks[m]
        BY <1>3, <2>2, <3>3
      <4> QED
        BY <3>1, <4>1 DEF NoneCancelled
    <3> QED
      BY <3>2, <3>3
  <2> QED
    BY <1>4, <1>6, <2>1, <2>2, <2>4, <2>5
<1>9. CASE DispatchWait(a, n)
  <2>1. n \notin Tasked /\ tasks' = tasks
    BY <1>9 DEF DispatchWait, Tasked
  <2>2. /\ copy' = [copy EXCEPT ![a].nodes[n] = State("WAITING", "none", 0)]
        /\ todo' = [todo EXCEPT ![a] = {}]
        /\ pc' = [pc EXCEPT ![a] = "suspend"]
    BY <1>9 DEF DispatchWait, Goto
  <2> QED
    BY <1>4, <1>5, <2>1, <2>2
<1>10. CASE DispatchThrows(a, n)
  <2>1. /\ copy' = [copy EXCEPT ![a] = Blank] /\ todo' = [todo EXCEPT ![a] = {}]
        /\ pc' = [pc EXCEPT ![a] = "idle"] /\ tasks' = tasks
    BY <1>10 DEF DispatchThrows, Return, Goto
  <2> QED
    BY <1>2, <2>1, BlankFits, ViewsOnlyStep
<1> QED
  BY <1>1, <1>7, <1>8, <1>9, <1>10

LEMMA WriteBackFits ==
  ASSUME Backing, NeedsInv, NEW a \in Actors, Suspend(a) \/ Save(a)
  PROVE  NeedsInv'
<1>1. /\ copy' = [copy EXCEPT ![a] = Blank] /\ todo' = [todo EXCEPT ![a] = {}]
      /\ pc' = [pc EXCEPT ![a] = "idle"] /\ context' = copy[a]
      /\ tasks' = tasks /\ cancel' = cancel
  BY DEF Suspend, Save, Return, Goto
<1> QED
  BY <1>1, BlankFits, ViewsOnlyStep

LEMMA NeedsStep == Backing /\ NeedsInv /\ [Next]_vars => NeedsInv'
<1> SUFFICES ASSUME Backing, NeedsInv, [Next]_vars
             PROVE  NeedsInv'
  OBVIOUS
<1>1. CASE \E a \in Actors : CronPicks(a) \/ Proceed(a) \/ Crash(a)
  BY <1>1, CallersFit, WorkersFit, GenerationFits, DispatchFits, WriteBackFits DEF Proceed
<1>2. CASE \E a \in Actors, n \in Tasked : TaskTaken(a, n)
  BY <1>2, WorkersFit
<1>3. CASE CancelTasks \/ CancelWrite
  <2>1. copy' = copy /\ context' = context /\ todo' = todo /\ pc' = pc /\ ~Untouched'
    BY <1>3 DEF CancelTasks, CancelWrite, Untouched
  <2> QED
    BY <2>1 DEF NeedsInv
<1>4. CASE CancelCheck \/ ResumeAtPasses \/ UNCHANGED vars
  <2>1. /\ copy' = copy /\ context' = context /\ todo' = todo /\ pc' = pc /\ tasks' = tasks
        /\ Untouched' => Untouched
    BY <1>4 DEF CancelCheck, ResumeAtPasses, vars, Untouched
  <2> QED
    BY <2>1 DEF NeedsInv, AllAccounted
<1> QED
  BY <1>1, <1>2, <1>3, <1>4 DEF Next

\* Along a view in order, what a node that has been reached needs is settled:
\* the nodes still PENDING are closed under the edges that gate.
LEMMA NeedsAreSettled ==
  ASSUME NEW st, Ordered(st), NEW n \in Nodes, st[n].status # "PENDING", NEW m \in Needs[n]
  PROVE  Settled(st[m])
<1> DEFINE S == {x \in Nodes : st[x].status = "PENDING"}
<1>1. m \in Nodes /\ ((Gated[m] \subseteq S /\ \A x \in S : Gated[x] \subseteq S) => n \in S)
  BY DEF Needs
<1>2. ASSUME NEW x \in Nodes, ~Settled(st[x]) PROVE Gated[x] \subseteq S
  <2> SUFFICES ASSUME NEW y \in Gated[x] PROVE y \in S
    OBVIOUS
  <2>1. PICK e \in Edges : e.source = x /\ e.target = y
    BY DEF Gated
  <2>2. y \in Nodes /\ ~OpensEarly(y)
    BY <2>1, GraphAssumption DEF Gated, OpensEarly
  <2> QED
    BY <1>2, <2>1, <2>2 DEF Ordered
<1>3. \A x \in S : Gated[x] \subseteq S
  BY <1>2 DEF Settled, Terminal
<1> QED
  BY <1>1, <1>2, <1>3

\* computeReadyNodes, isNodeReady, pollActionNode: whatever advances of a run
\* overlap, and on whichever copy they work, none of them has gone on to a node
\* before a task of each node it has to follow is over or that node was found
\* out of reach, as long as no cancellation has touched the run's jobs.
THEOREM NeedsComeFirst == Spec => []AfterItsNeeds
<1>1. Init => Backing
  <2> SUFFICES ASSUME Init PROVE Backing
    OBVIOUS
  <2> QED
    BY BlankBacked DEF Init, Backing, Shape, Hands, AllBacked
<1>2. Init => NeedsInv
  <2> SUFFICES ASSUME Init PROVE NeedsInv
    OBVIOUS
  <2>1. NoneCancelled(tasks)
    BY DEF Init, NoneCancelled
  <2> QED
    BY <2>1, BlankFits DEF Init, NeedsInv, AllAccounted
<1>3. NeedsInv => AfterItsNeeds
  <2> SUFFICES ASSUME NeedsInv, Untouched, NEW st \in Views, NEW n \in Nodes, st[n].status # "PENDING",
                      NEW m \in Tasked \cap Needs[n]
               PROVE  st[m] = State("SKIPPED", "none", 0) \/ Over(m, tasks)
    BY DEF AfterItsNeeds, Untouched, Over
  <2>1. Ordered(st) /\ Accounted(st, tasks)
    BY DEF NeedsInv, AllAccounted, Views
  <2>2. Settled(st[m])
    BY <2>1, NeedsAreSettled
  <2> QED
    BY <2>1, <2>2 DEF Accounted
<1> QED
  BY <1>1, <1>2, <1>3, BackingStep, NeedsStep, PTL DEF Spec
----------------------------------------------------------------------------
(* One process that no dispatch and no crash stops half-way: the nodes an    *)
(* advance finds PENDING have no task, those RUNNING exactly one, and those  *)
(* settled none that is open, in the context or in the copy that is about to *)
(* replace it.                                                              *)

Alone == (\E a : Actors = {a}) /\ Faulty = {} /\ MaxCrashes = 0

Holding(a) == pc[a] \in {"merging", "starting", "poll", "dispatch", "suspend", "save"}
View(a) == IF Holding(a) THEN copy[a] ELSE context

LoneNode(n, s, t) ==
  /\ Len(t) \in {0, 1}
  /\ n \notin Tasked \/ s.status = "PENDING" \/ s = State("SKIPPED", "none", 0) => Len(t) = 0
  /\ n \in Tasked =>
       /\ s.status \in {"PENDING", "RUNNING"} \cup Terminal
       /\ s.status = "RUNNING" => Len(t) = 1
       /\ Settled(s) => \A k \in 1 .. Len(t) : t[k] \notin OpenTask

LoneNodes(st, t) == \A n \in Nodes : LoneNode(n, st[n], t[n])

KeptIn(variables, t, n) == \A k \in 1 .. Len(t[n]) : t[n][k] = "SUCCEEDED" => n \in variables

Kept(a) ==
  \A n \in Setters \cap Nodes :
    (pc[a] = "merge" /\ doing[a].node = n) \/ KeptIn(View(a).vars, tasks, n)

AtWork(a) ==
  pc[a] \in {"working", "merge"} =>
    doing[a].node \in Tasked /\ context.nodes[doing[a].node].status = "RUNNING"

LoneInv ==
  /\ crashes = 0
  /\ \A a \in Actors :
       /\ LoneNodes(View(a).nodes, tasks)
       /\ Kept(a) /\ AtWork(a)
       /\ run = "SUCCEEDED" => pc[a] = "idle" /\ AllSettled(context.nodes)

\* A step that changes no task, and no variable of the view.
LEMMA LoneQuietStep ==
  ASSUME LoneInv, NEW a, Actors = {a}, crashes' = crashes, tasks' = tasks,
         LoneNodes(View(a)'.nodes, tasks), View(a)'.vars = View(a).vars,
         pc[a] # "merge", pc'[a] \notin {"working", "merge"},
         run' = "SUCCEEDED" => pc'[a] = "idle" /\ AllSettled(context'.nodes)
  PROVE  LoneInv'
<1>1. Kept(a)'
  <2>1. \A n \in Setters \cap Nodes : KeptIn(View(a).vars, tasks, n)
    BY DEF LoneInv, Kept
  <2> QED
    BY <2>1 DEF Kept
<1>2. AtWork(a)'
  BY DEF AtWork
<1> QED
  BY <1>1, <1>2 DEF LoneInv

\* A task of a node that runs may be whatever it is, open or not.
LEMMA LoneTaskChanges ==
  ASSUME NEW st, LoneNodes(st, tasks), NEW n \in Tasked, st[n].status = "RUNNING",
         NEW k, NEW x, Changed(tasks, tasks', n, k, x)
  PROVE  LoneNodes(st, tasks')
<1> SUFFICES ASSUME NEW m \in Nodes PROVE LoneNode(m, st[m], tasks'[m])
  BY DEF LoneNodes
<1>1. LoneNode(m, st[m], tasks[m]) /\ Len(tasks'[m]) = Len(tasks[m])
  BY DEF LoneNodes, Changed
<1>2. CASE m = n
  BY <1>1, <1>2 DEF LoneNode, Settled, Terminal, State
<1>3. CASE m # n
  <2>1. \A i \in 1 .. Len(tasks[m]) : tasks'[m][i] = tasks[m][i]
    BY <1>3 DEF Changed
  <2> QED
    BY <1>1, <2>1 DEF LoneNode
<1> QED
  BY <1>2, <1>3

LEMMA LoneResumes ==
  ASSUME NEW c, IsContext(c), LoneNodes(c.nodes, tasks)
  PROVE  LoneNodes(Resumed(c).nodes, tasks) /\ Resumed(c).vars = c.vars
<1>1. /\ \A n \in Nodes : n \in Tasked => Resumed(c).nodes[n] = c.nodes[n]
      /\ Resumed(c).vars = c.vars
  BY DEF IsContext, Resumed, Tasked
<1> QED
  BY <1>1 DEF LoneNodes, LoneNode

LEMMA LonePolls ==
  ASSUME NEW st, LoneNodes(st, tasks), BackedBy(st, tasks)
  PROVE  LoneNodes([n \in Nodes |-> Polled(n, st[n])], tasks)
<1> DEFINE polled == [n \in Nodes |-> Polled(n, st[n])]
<1> SUFFICES ASSUME NEW n \in Nodes PROVE LoneNode(n, polled[n], tasks[n])
  BY DEF LoneNodes
<1>1. LoneNode(n, st[n], tasks[n]) /\ polled[n] = Polled(n, st[n])
  BY DEF LoneNodes
<1>2. CASE n \notin Tasked
  BY <1>1, <1>2 DEF LoneNode
<1>3. CASE n \in Tasked /\ (st[n].status # "RUNNING" \/ tasks[n][st[n].task] \in OpenTask)
  BY <1>1, <1>3 DEF Polled
<1>4. CASE n \in Tasked /\ st[n].status = "RUNNING" /\ tasks[n][st[n].task] \notin OpenTask
  <2>1. Len(tasks[n]) = 1 /\ st[n].task \in 1 .. Len(tasks[n])
    BY <1>1, <1>4 DEF LoneNode, BackedBy
  <2>2. \A k \in 1 .. Len(tasks[n]) : tasks[n][k] \notin OpenTask
    BY <1>4, <2>1
  <2>3. polled[n] = State("SUCCEEDED", "none", 0) \/ polled[n] = FailureResult(n)
    BY <1>1, <1>4 DEF Polled
  <2>4. polled[n].status \in Terminal /\ polled[n] # State("SKIPPED", "none", 0)
    BY <2>3 DEF FailureResult, State, Terminal
  <2>5. polled[n].status # "PENDING" /\ polled[n].status # "RUNNING"
    BY <2>4 DEF Terminal
  <2> QED
    BY <1>4, <2>1, <2>2, <2>4, <2>5 DEF LoneNode
<1> QED
  BY <1>2, <1>3, <1>4

LEMMA LoneMarks ==
  ASSUME NEW st, LoneNodes(st, tasks)
  PROVE  LoneNodes(MarkSkipped(st), tasks)
<1> SUFFICES ASSUME NEW n \in Nodes PROVE LoneNode(n, MarkSkipped(st)[n], tasks[n])
  BY DEF LoneNodes
<1>1. LoneNode(n, st[n], tasks[n])
  BY DEF LoneNodes
<1>2. \/ MarkSkipped(st)[n] = st[n]
      \/ MarkSkipped(st)[n] = State("SKIPPED", "none", 0) /\ st[n].status = "PENDING"
  BY DEF MarkSkipped, Marked, Pending
<1>3. State("SKIPPED", "none", 0).status = "SKIPPED"
  BY DEF State
<1> QED
  BY <1>1, <1>2, <1>3 DEF LoneNode, Terminal

\* The steps of an advance.
LEMMA LoneAdvance ==
  ASSUME Alone, Backing, NeedsInv, LoneInv, NEW a, Actors = {a},
         \/ CronPicks(a) \/ MergeWrite(a) \/ Read(a) \/ WriteRunning(a)
         \/ Generation(a) \/ Suspend(a) \/ Save(a)
  PROVE  LoneInv'
<1>1. /\ crashes' = crashes /\ tasks' = tasks
      /\ a \in Actors
  BY DEF CronPicks, MergeWrite, Read, WriteRunning, Generation, Suspend, Save
<1>2. /\ LoneNodes(View(a).nodes, tasks)
      /\ run = "SUCCEEDED" => pc[a] = "idle" /\ AllSettled(context.nodes)
      /\ pc = [b \in Actors |-> pc[b]] /\ copy = [b \in Actors |-> copy[b]]
      /\ IsContext(context) /\ IsContext(copy[a]) /\ BackedBy(copy[a].nodes, tasks)
  BY <1>1 DEF LoneInv, Backing, Shape, AllBacked
<1>3. CASE CronPicks(a)
  <2>1. /\ pc[a] = "idle" /\ pc'[a] = "called" /\ context' = context
        /\ run' = run /\ run # "SUCCEEDED"
    BY <1>1, <1>2, <1>3 DEF CronPicks, Goto
  <2>2. View(a)' = context /\ View(a) = context
    BY <2>1 DEF View, Holding
  <2> QED
    BY <1>1, <1>2, <2>1, <2>2, LoneQuietStep
<1>4. CASE MergeWrite(a)
  <2>1. /\ pc[a] = "merging" /\ pc'[a] = "called" /\ context' = copy[a]
        /\ run' = run
    BY <1>1, <1>2, <1>4 DEF MergeWrite, Goto
  <2>2. View(a)' = copy[a] /\ View(a) = copy[a]
    BY <2>1 DEF View, Holding
  <2> QED
    BY <1>1, <1>2, <2>1, <2>2, LoneQuietStep
<1>5. CASE Read(a)
  <2>1. pc[a] = "called" /\ context' = context /\ run' = run
    BY <1>5 DEF Read
  <2>2. View(a) = context /\ LoneNodes(Resumed(context).nodes, tasks) /\ Resumed(context).vars = context.vars
    BY <1>2, <2>1, LoneResumes DEF View, Holding
  <2>3. \/ pc'[a] = "idle"
        \/ pc'[a] \in {"starting", "poll"} /\ copy'[a] = Resumed(context)
    BY <1>1, <1>2, <1>5 DEF Read, Goto
  <2>4. pc'[a] \notin {"merge", "working"}
    BY <2>3
  <2>5. View(a)' = context \/ View(a)' = Resumed(context)
    BY <2>1, <2>3 DEF View, Holding
  <2> QED
    BY <1>1, <1>2, <2>1, <2>2, <2>4, <2>5, LoneQuietStep
<1>6. CASE WriteRunning(a)
  <2>1. pc[a] = "starting" /\ pc'[a] = "poll" /\ context' = context /\ run' = "RUNNING" /\ copy' = copy
    BY <1>1, <1>2, <1>6 DEF WriteRunning, Goto
  <2>2. View(a)' = copy[a] /\ View(a) = copy[a]
    BY <2>1 DEF View, Holding
  <2> QED
    BY <1>1, <1>2, <2>1, <2>2, LoneQuietStep
<1>7. CASE Generation(a)
  <2> DEFINE before == copy[a].nodes
             polled == [n \in Nodes |-> Polled(n, before[n])]
             after == MarkSkipped(polled)
  <2>1. /\ pc[a] = "poll" /\ pc'[a] \in {"dispatch", "poll", "save"}
        /\ copy'[a] = [copy[a] EXCEPT !.nodes = after] /\ run' = run
    BY <1>1, <1>2, <1>7 DEF Generation, Goto
  <2>2. View(a) = copy[a] /\ LoneNodes(polled, tasks)
    BY <1>2, <2>1, LonePolls DEF View, Holding
  <2>3. LoneNodes(after, tasks)
    BY <2>2, LoneMarks
  <2> HIDE DEF after
  <2>4. View(a)'.nodes = after /\ View(a)'.vars = copy[a].vars
    BY <1>2, <2>1 DEF View, Holding, IsContext
  <2> QED
    BY <1>1, <1>2, <2>1, <2>2, <2>3, <2>4, LoneQuietStep
<1>8. CASE Suspend(a) \/ Save(a)
  <2>1. /\ pc[a] \in {"suspend", "save"} /\ pc'[a] = "idle" /\ context' = copy[a]
        /\ run' \in {"WAITING", Outcome(copy[a].nodes)}
    BY <1>1, <1>2, <1>8 DEF Suspend, Save, Return, Goto
  <2>2. View(a) = copy[a] /\ View(a)' = copy[a]
    BY <2>1 DEF View, Holding
  <2>3. run' = "SUCCEEDED" => AllSettled(copy[a].nodes)
    BY <1>2, <2>1 DEF Outcome
  <2> QED
    BY <1>1, <1>2, <2>1, <2>2, <2>3, LoneQuietStep
<1> QED
  BY <1>3, <1>4, <1>5, <1>6, <1>7, <1>8

LEMMA LoneDispatch ==
  ASSUME Alone, Backing, NeedsInv, LoneInv, NEW a, Actors = {a}, Dispatch(a)
  PROVE  LoneInv'
<1>1. PICK n \in todo[a] : DispatchInline(a, n) \/ DispatchTask(a, n) \/ DispatchWait(a, n)
  BY DEF Dispatch, Foremost, DispatchThrows, Alone
<1>2. /\ a \in Actors /\ crashes' = crashes /\ run' = run /\ context' = context
      /\ pc[a] = "dispatch"
  BY DEF Dispatch
<1>3. /\ n \in Nodes /\ copy[a].nodes[n].status = "PENDING"
      /\ pc = [b \in Actors |-> pc[b]] /\ copy = [b \in Actors |-> copy[b]]
      /\ IsContext(copy[a]) /\ tasks \in [Nodes -> Seq(TaskStatuses)]
      /\ run # "SUCCEEDED"
  BY <1>1, <1>2 DEF NeedsInv, InTurn, Backing, Shape, LoneInv
<1>4. View(a) = copy[a] /\ LoneNodes(copy[a].nodes, tasks)
  BY <1>2 DEF View, Holding, LoneInv
<1>5. Len(tasks[n]) = 0
  BY <1>3, <1>4 DEF LoneNodes, LoneNode
<1>6. ASSUME NEW s, NEW step \in {"poll", "dispatch", "suspend"},
             copy' = [copy EXCEPT ![a].nodes[n] = s], pc' = [pc EXCEPT ![a] = step]
      PROVE  /\ View(a)'.nodes = [copy[a].nodes EXCEPT ![n] = s]
             /\ \A m \in Nodes : View(a)'.nodes[m] = IF m = n THEN s ELSE copy[a].nodes[m]
             /\ View(a)'.vars = copy[a].vars
             /\ pc'[a] = step
  BY <1>2, <1>3, <1>6 DEF View, Holding, IsContext
<1> DEFINE step == IF todo[a] = {n} THEN "poll" ELSE "dispatch"
<1>7. step \in {"poll", "dispatch", "suspend"}
  OBVIOUS
<1> HIDE DEF step
<1>8. CASE DispatchInline(a, n) \/ DispatchWait(a, n)
  <2>1. n \notin Tasked /\ tasks' = tasks
    BY <1>8 DEF DispatchInline, DispatchWait, Tasked
  <2>2. PICK s, to : /\ to \in {"poll", "dispatch", "suspend"}
                     /\ copy' = [copy EXCEPT ![a].nodes[n] = s] /\ pc' = [pc EXCEPT ![a] = to]
    <3>1. CASE DispatchInline(a, n)
      <4>1. PICK s : Dispatched(a, n, s)
        BY <3>1 DEF DispatchInline
      <4>2. copy' = [copy EXCEPT ![a].nodes[n] = s] /\ pc' = [pc EXCEPT ![a] = step]
        BY <4>1 DEF Dispatched, Goto, step
      <4> QED
        BY <1>7, <4>2
    <3>2. CASE DispatchWait(a, n)
      <4>1. /\ copy' = [copy EXCEPT ![a].nodes[n] = State("WAITING", "none", 0)]
            /\ pc' = [pc EXCEPT ![a] = "suspend"]
        BY <3>2 DEF DispatchWait, Goto
      <4> HIDE DEF State
      <4> QED
        BY <4>1
    <3> QED
      BY <1>8, <3>1, <3>2
  <2>3. /\ \A m \in Nodes : View(a)'.nodes[m] = IF m = n THEN s ELSE copy[a].nodes[m]
        /\ View(a)'.vars = copy[a].vars /\ pc'[a] \in {"poll", "dispatch", "suspend"}
    BY <1>6, <2>2
  <2>4. LoneNodes(View(a)'.nodes, tasks)
    BY <1>4, <1>5, <2>1, <2>3 DEF LoneNodes, LoneNode
  <2> QED
    BY <1>2, <1>3, <1>4, <2>1, <2>3, <2>4, LoneQuietStep
<1>9. CASE DispatchTask(a, n)
  <2> DEFINE s == State("RUNNING", "none", Len(tasks[n]) + 1)
  <2>1. /\ copy' = [copy EXCEPT ![a].nodes[n] = s] /\ pc' = [pc EXCEPT ![a] = step]
        /\ tasks' = [tasks EXCEPT ![n] = Append(@, "QUEUED")] /\ n \in Tasked
    BY <1>9 DEF DispatchTask, Dispatched, Goto, step
  <2>2. s.status = "RUNNING"
    BY DEF State
  <2> HIDE DEF s
  <2>3. /\ \A m \in Nodes : View(a)'.nodes[m] = IF m = n THEN s ELSE copy[a].nodes[m]
        /\ View(a)'.vars = copy[a].vars /\ pc'[a] \in {"poll", "dispatch", "suspend"}
    BY <1>6, <1>7, <2>1
  <2>4. /\ tasks'[n] = Append(tasks[n], "QUEUED") /\ tasks[n] \in Seq(TaskStatuses)
        /\ \A m \in Nodes \ {n} : tasks'[m] = tasks[m]
    BY <1>3, <2>1
  <2>5. Len(tasks'[n]) = 1 /\ tasks'[n][1] = "QUEUED"
    BY <1>5, <2>4
  <2>6. LoneNodes(View(a)'.nodes, tasks')
    <3> SUFFICES ASSUME NEW m \in Nodes PROVE LoneNode(m, View(a)'.nodes[m], tasks'[m])
      BY DEF LoneNodes
    <3>1. CASE m = n
      BY <2>1, <2>2, <2>3, <2>5, <3>1 DEF LoneNode, Settled, Terminal, State
    <3>2. CASE m # n
      BY <1>4, <2>3, <2>4, <3>2 DEF LoneNodes
    <3> QED
      BY <3>1, <3>2
  <2>7. ASSUME NEW m \in Setters \cap Nodes PROVE KeptIn(View(a)'.vars, tasks', m)
    <3>1. KeptIn(copy[a].vars, tasks, m)
      BY <1>2, <1>4 DEF LoneInv, Kept
    <3> QED
      BY <2>3, <2>4, <2>5, <3>1 DEF KeptIn
  <2>8. Kept(a)' /\ AtWork(a)'
    BY <2>3, <2>7 DEF Kept, AtWork
  <2> QED
    BY <1>2, <1>3, <2>6, <2>8 DEF LoneInv
<1> QED
  BY <1>1, <1>8, <1>9

\* The steps of a worker, and of a cancellation.
LEMMA LoneWorker ==
  ASSUME Alone, Backing, LoneInv, NEW a, Actors = {a},
         TaskEnds(a) \/ TaskRequeued(a) \/ MergeRead(a) \/ \E n \in Tasked : TaskTaken(a, n)
  PROVE  LoneInv'
<1>1. /\ a \in Actors /\ crashes' = crashes /\ run' = run /\ context' = context
  BY DEF TaskEnds, TaskRequeued, MergeRead, TaskTaken
<1>2. /\ LoneNodes(View(a).nodes, tasks) /\ Kept(a) /\ AtWork(a)
      /\ run = "SUCCEEDED" => pc[a] = "idle" /\ AllSettled(context.nodes)
      /\ pc = [b \in Actors |-> pc[b]] /\ copy = [b \in Actors |-> copy[b]]
      /\ doing = [b \in Actors |-> doing[b]]
      /\ IsContext(context) /\ tasks \in [Nodes -> Seq(TaskStatuses)]
  BY <1>1 DEF LoneInv, Backing, Shape
<1>3. CASE TaskEnds(a) \/ TaskRequeued(a)
  <2> DEFINE n == doing[a].node
             k == doing[a].k
  <2>1. pc[a] = "working"
    BY <1>3 DEF TaskEnds, TaskRequeued
  <2>2. /\ n \in Tasked /\ n \in Nodes /\ context.nodes[n].status = "RUNNING"
        /\ k \in 1 .. Len(tasks[n]) /\ tasks[n][k] # "SUCCEEDED"
    BY <1>1, <1>2, <2>1 DEF AtWork, Backing, Hands, Tasked
  <2>3. PICK x \in {"SUCCEEDED", "DEAD_LETTERED", "QUEUED"} :
          /\ tasks' = [tasks EXCEPT ![n][k] = x]
          /\ \/ pc'[a] = "merge" /\ doing'[a] = doing[a]
             \/ pc'[a] \in {"called", "idle"} /\ (n \notin Setters \/ x # "SUCCEEDED")
    BY <1>1, <1>2, <1>3 DEF TaskEnds, TaskRequeued, Goto
  <2>4. x \in TaskStatuses
    BY DEF TaskStatuses
  <2>5. Changed(tasks, tasks', n, k, x)
    BY <1>2, <2>2, <2>3, <2>4, OneTaskChanges
  <2>6. View(a) = context /\ View(a)' = context
    BY <1>1, <2>1, <2>3 DEF View, Holding
  <2>7. LoneNodes(context.nodes, tasks')
    BY <1>2, <2>2, <2>5, <2>6, LoneTaskChanges
  <2>8. AtWork(a)'
    BY <1>1, <2>2, <2>3 DEF AtWork
  <2>9. Kept(a)'
    <3> SUFFICES ASSUME NEW m \in Setters \cap Nodes, ~(pc'[a] = "merge" /\ doing'[a].node = m)
                 PROVE  KeptIn(context.vars, tasks', m)
      BY <2>6 DEF Kept
    <3>1. KeptIn(context.vars, tasks, m)
      BY <1>2, <2>1, <2>6 DEF Kept
    <3>2. m = n => x # "SUCCEEDED"
      BY <2>3
    <3>3. Len(tasks'[m]) = Len(tasks[m])
          /\ \A i \in 1 .. Len(tasks[m]) : tasks'[m][i] = "SUCCEEDED" => tasks[m][i] = "SUCCEEDED"
      BY <2>5, <3>2 DEF Changed
    <3> QED
      BY <3>1, <3>3 DEF KeptIn
  <2>10. run # "SUCCEEDED"
    BY <1>2, <2>1
  <2> QED
    BY <1>1, <2>6, <2>7, <2>8, <2>9, <2>10 DEF LoneInv
<1>4. CASE MergeRead(a)
  <2>1. /\ pc[a] = "merge" /\ pc'[a] = "merging" /\ tasks' = tasks
        /\ copy'[a] = [context EXCEPT !.vars = @ \cup {doing[a].node}]
    BY <1>1, <1>2, <1>4 DEF MergeRead, Goto
  <2>2. View(a) = context /\ View(a)'.nodes = context.nodes
        /\ View(a)'.vars = context.vars \cup {doing[a].node}
    BY <1>2, <2>1 DEF View, Holding, IsContext
  <2>3. Kept(a)' /\ AtWork(a)'
    BY <1>2, <2>1, <2>2 DEF Kept, KeptIn, AtWork
  <2> QED
    BY <1>1, <1>2, <2>1, <2>2, <2>3 DEF LoneInv
<1>5. CASE \E n \in Tasked : TaskTaken(a, n)
  <2>1. PICK n \in Tasked : TaskTaken(a, n)
    BY <1>5
  <2>2. PICK k \in 1 .. Len(tasks[n]) :
          /\ tasks[n][k] = "QUEUED"
          /\ tasks' = [tasks EXCEPT ![n][k] = "RUNNING"]
          /\ doing' = [doing EXCEPT ![a] = [node |-> n, k |-> k]]
    BY <2>1 DEF TaskTaken
  <2>3. pc[a] = "idle" /\ pc'[a] = "working" /\ doing'[a].node = n /\ n \in Nodes
    BY <1>1, <1>2, <2>1, <2>2 DEF TaskTaken, Goto, Tasked
  <2>4. View(a) = context /\ View(a)' = context
    BY <1>1, <2>3 DEF View, Holding
  <2>5. LoneNode(n, context.nodes[n], tasks[n]) /\ Len(tasks[n]) # 0
    BY <1>2, <2>2, <2>3, <2>4 DEF LoneNodes, LoneNode
  <2>6. context.nodes[n].status = "RUNNING"
    BY <2>2, <2>5 DEF LoneNode, Settled, OpenTask
  <2>7. "RUNNING" \in TaskStatuses /\ tasks[n][k] # "SUCCEEDED"
    BY <2>2 DEF TaskStatuses
  <2>8. Changed(tasks, tasks', n, k, "RUNNING")
    BY <1>2, <2>2, <2>3, <2>7, OneTaskChanges
  <2>9. LoneNodes(context.nodes, tasks')
    BY <1>2, <2>4, <2>6, <2>8, LoneTaskChanges
  <2>10. AtWork(a)'
    BY <1>1, <2>3, <2>6 DEF AtWork
  <2>11. ASSUME NEW m \in Setters \cap Nodes PROVE KeptIn(context.vars, tasks', m)
    <3>1. KeptIn(context.vars, tasks, m)
      BY <1>2, <2>3, <2>4 DEF Kept
    <3> QED
      BY <2>8, <3>1 DEF Changed, KeptIn
  <2>12. run # "SUCCEEDED"
    BY <1>2, <2>3, <2>6 DEF AllSettled, Settled, Terminal
  <2> QED
    BY <1>1, <2>4, <2>9, <2>10, <2>11, <2>12 DEF LoneInv, Kept
<1> QED
  BY <1>3, <1>4, <1>5

LEMMA LoneCancellation ==
  ASSUME Backing, LoneInv, CancelCheck \/ CancelTasks \/ CancelWrite \/ ResumeAtPasses \/ UNCHANGED vars
  PROVE  LoneInv'
<1>1. /\ pc' = pc /\ copy' = copy /\ context' = context /\ doing' = doing /\ crashes' = crashes
      /\ run' = "SUCCEEDED" => run = "SUCCEEDED"
  BY DEF CancelCheck, CancelTasks, CancelWrite, ResumeAtPasses, vars
<1>2. \A a \in Actors : View(a)' = View(a) /\ AtWork(a)' = AtWork(a)
  BY <1>1 DEF View, Holding, AtWork
<1>3. \A n \in Nodes :
        /\ Len(tasks'[n]) = Len(tasks[n])
        /\ \A k \in 1 .. Len(tasks[n]) :
             tasks'[n][k] = tasks[n][k] \/ (tasks[n][k] \in OpenTask /\ tasks'[n][k] = "CANCELLED")
  <2> SUFFICES ASSUME NEW n \in Nodes
               PROVE  /\ Len(tasks'[n]) = Len(tasks[n])
                      /\ \A k \in 1 .. Len(tasks[n]) :
                           tasks'[n][k] = tasks[n][k] \/ (tasks[n][k] \in OpenTask /\ tasks'[n][k] = "CANCELLED")
    OBVIOUS
  <2>1. CASE CancelTasks
    <3>1. tasks[n] \in Seq(TaskStatuses) /\ Len(tasks[n]) \in Nat
      BY DEF Backing, Shape
    <3>2. tasks'[n] = [k \in 1 .. Len(tasks[n]) |->
            IF TypeOf[n] = "action" /\ tasks[n][k] \in OpenTask THEN "CANCELLED" ELSE tasks[n][k]]
      BY <2>1 DEF CancelTasks
    <3>3. tasks'[n] \in [1 .. Len(tasks[n]) -> TaskStatuses]
      BY <3>1, <3>2 DEF TaskStatuses
    <3>4. tasks'[n] \in Seq(TaskStatuses) /\ Len(tasks'[n]) = Len(tasks[n])
      BY <3>1, <3>3
    <3> QED
      BY <3>2, <3>4
  <2>2. CASE CancelCheck \/ CancelWrite \/ ResumeAtPasses \/ UNCHANGED vars
    BY <2>2 DEF CancelCheck, CancelWrite, ResumeAtPasses, vars
  <2> QED
    BY <2>1, <2>2
<1>4. ASSUME NEW st, LoneNodes(st, tasks) PROVE LoneNodes(st, tasks')
  <2> SUFFICES ASSUME NEW n \in Nodes PROVE LoneNode(n, st[n], tasks'[n])
    BY DEF LoneNodes
  <2>1. LoneNode(n, st[n], tasks[n])
    BY <1>4 DEF LoneNodes
  <2> QED
    BY <1>3, <2>1 DEF LoneNode, OpenTask
<1>5. ASSUME NEW V, NEW n \in Nodes, KeptIn(V, tasks, n) PROVE KeptIn(V, tasks', n)
  BY <1>3, <1>5 DEF KeptIn
<1>6. \A a \in Actors : Kept(a)'
  <2> SUFFICES ASSUME NEW a \in Actors PROVE Kept(a)'
    OBVIOUS
  <2>1. Kept(a)
    BY DEF LoneInv
  <2> QED
    BY <1>1, <1>2, <1>5, <2>1 DEF Kept
<1> QED
  BY <1>1, <1>2, <1>4, <1>6 DEF LoneInv

LEMMA LoneStep == Alone /\ Backing /\ NeedsInv /\ LoneInv /\ [Next]_vars => LoneInv'
<1> SUFFICES ASSUME Alone, Backing, NeedsInv, LoneInv, [Next]_vars
             PROVE  LoneInv'
  OBVIOUS
<1>1. PICK a : Actors = {a}
  BY DEF Alone
<1>2. CASE CronPicks(a) \/ Proceed(a) \/ \E n \in Tasked : TaskTaken(a, n)
  BY <1>1, <1>2, LoneAdvance, LoneDispatch, LoneWorker DEF Proceed
<1>3. CASE Crash(a)
  BY <1>3 DEF Crash, LoneInv, Alone
<1>4. CASE CancelCheck \/ CancelTasks \/ CancelWrite \/ ResumeAtPasses \/ UNCHANGED vars
  BY <1>4, LoneCancellation
<1> QED
  BY <1>1, <1>2, <1>3, <1>4 DEF Next

LEMMA LoneInvariance ==
  ASSUME Alone
  PROVE  Spec => []LoneInv
<1>1. Init => Backing /\ NeedsInv
  <2> SUFFICES ASSUME Init PROVE Backing /\ NeedsInv
    OBVIOUS
  <2>1. Backing
    BY BlankBacked DEF Init, Backing, Shape, Hands, AllBacked
  <2>2. NoneCancelled(tasks)
    BY DEF Init, NoneCancelled
  <2> QED
    BY <2>1, <2>2, BlankFits DEF Init, NeedsInv, AllAccounted
<1>2. Init => LoneInv
  <2> SUFFICES ASSUME Init PROVE LoneInv
    OBVIOUS
  <2>1. \A n \in Nodes : tasks[n] = <<>> /\ Blank.nodes[n].status = "PENDING"
    BY DEF Init, Blank, Fresh, State
  <2>2. \A a \in Actors : View(a) = Blank /\ pc[a] = "idle"
    BY DEF Init, View, Holding
  <2>3. LoneNodes(Blank.nodes, tasks)
    BY <2>1 DEF LoneNodes, LoneNode, Settled, Terminal
  <2>4. \A a \in Actors : Kept(a) /\ AtWork(a)
    BY <2>1, <2>2 DEF Kept, KeptIn, AtWork
  <2> QED
    BY <2>2, <2>3, <2>4 DEF Init, LoneInv
<1>3. Backing /\ NeedsInv /\ LoneInv /\ [Next]_vars => LoneInv'
  BY LoneStep
<1> QED
  BY <1>1, <1>2, <1>3, BackingStep, NeedsStep, PTL DEF Spec

\* advanceAutomationRun is idempotent as long as one process at a time works on
\* the run and none of its advances is lost: however often it is called, and
\* whenever the user cancels, no node gets a second job or child run.
THEOREM LoneAdvanceIsIdempotent == Alone => (Spec => []OneTaskPerNode)
<1> SUFFICES ASSUME Alone PROVE Spec => []OneTaskPerNode
  OBVIOUS
<1>1. LoneInv => OneTaskPerNode
  <2> SUFFICES ASSUME LoneInv, NEW n \in Nodes PROVE Len(tasks[n]) <= 1
    BY DEF OneTaskPerNode
  <2>1. PICK a : a \in Actors
    BY DEF Alone
  <2>2. LoneNode(n, View(a).nodes[n], tasks[n])
    BY <2>1 DEF LoneInv, LoneNodes
  <2>3. Len(tasks[n]) \in {0, 1}
    BY <2>2 DEF LoneNode
  <2>4. \A x \in {0, 1} : x <= 1
    OBVIOUS
  <2> QED
    BY <2>3, <2>4
<1>2. Spec => []LoneInv
  BY LoneInvariance
<1> QED
  BY <1>1, <1>2, PTL

\* executeOneJob, advanceAutomationRun: of such a run that SUCCEEDED, no job or
\* child run is left open, and every variable that a handler returned is kept.
THEOREM LoneSuccessIsComplete == Alone => (Spec => []SuccessIsComplete)
<1> SUFFICES ASSUME Alone PROVE Spec => []SuccessIsComplete
  OBVIOUS
<1>1. LoneInv => SuccessIsComplete
  <2> SUFFICES ASSUME LoneInv, run = "SUCCEEDED", NEW n \in Nodes, NEW k \in 1 .. Len(tasks[n])
               PROVE  /\ tasks[n][k] \notin OpenTask
                      /\ (n \in Setters /\ tasks[n][k] = "SUCCEEDED") => n \in context.vars
    BY DEF SuccessIsComplete
  <2>1. PICK a \in Actors : pc[a] = "idle" /\ AllSettled(context.nodes)
    BY DEF Alone, LoneInv
  <2>2. LoneNodes(context.nodes, tasks) /\ (n \in Setters => KeptIn(context.vars, tasks, n))
    BY <2>1 DEF LoneInv, Kept, View, Holding
  <2>3. LoneNode(n, context.nodes[n], tasks[n])
    BY <2>2 DEF LoneNodes
  <2>4. n \in Tasked /\ Settled(context.nodes[n])
    BY <2>1, <2>3 DEF LoneNode, AllSettled
  <2> QED
    BY <2>2, <2>3, <2>4 DEF LoneNode, KeptIn
<1>2. Spec => []LoneInv
  BY LoneInvariance
<1> QED
  BY <1>1, <1>2, PTL
=============================================================================
