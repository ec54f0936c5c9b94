------------------------ MODULE IterationNodeProofs ------------------------
(***************************************************************************)
(* Safety of a loop or map node for every body, collection, limit and set  *)
(* of actors.  The context is overwritten from copies read at any time, so *)
(* each invariant speaks of the context and of every copy alike (Views).   *)
(*                                                                         *)
(* VerdictIsBacked: what each of them says of a body node is what a job of *)
(* it did (Tells); and jobs that are over stay so, since each is in the    *)
(* hands of one actor at most (Hands).                                     *)
(*                                                                         *)
(* WithinLimit: each of them has Room items under way at most (Narrow).  A   *)
(* job that is not over is awaited by the copy of an advance under way, or,  *)
(* when there is none, by the saved context; or the copy that awaited it was *)
(* overwritten or lost, and then its items are put down (Accounted).  The    *)
(* copies that count and those put down are no more than one and the         *)
(* overlaps and losses, each with Room items.                                *)
(***************************************************************************)
EXTENDS IterationNode, FiniteSetTheorems, TLAPS

TaskStatuses == OpenTask \cup {"SUCCEEDED", "DEAD_LETTERED"}
Places == {"idle", "working", "called", "starting", "poll", "tick", "dispatch", "save"}
NodePlaces == {"PENDING", "RUNNING", "SUCCEEDED", "FAILED"}
Tags == {"none", "ignore"} \cup Policies \cup UNION {BranchesOf[n] : n \in Conditions}
States == [status : NodeStatuses \ {"WAITING"}, tag : Tags, task : Nat]
Bodies == [Nodes -> States]
Contexts == [node : NodePlaces, started : 0 .. NumItems, done : SUBSET Items, subs : [Items -> Bodies]]
Calls == [items : SUBSET Items, ready : SUBSET Nodes, gen : 0 .. MaxGenerations, moved : BOOLEAN]
Jobs == Items \X Actions \X Nat

\* t: the jobs of one item; did a job of node n end so?
Did(t, n, outcome) == \E k \in DOMAIN t[n] : t[n][k] = outcome

\* What state s of node n says is true of the jobs t and the choices p.
Tells(n, s, t, p) ==
  /\ s.status = "RUNNING" => n \in Actions /\ s.task \in DOMAIN t[n]
  /\ s.status = "SUCCEEDED" => /\ s.tag = IF n \in Conditions THEN p[n] ELSE "none"
                               /\ n \in Actions => Did(t, n, "SUCCEEDED")
  /\ s.status = "FAILED" => n \in Actions /\ s.tag = PolicyOf[n] /\ Did(t, n, "DEAD_LETTERED")
  /\ s.status = "SKIPPED" => s.tag = "none" \/ (s.tag = "ignore" /\ n \in Actions)
  /\ s.tag = "ignore" /\ n \in Actions => Did(t, n, "DEAD_LETTERED")

True(st, t, p) == \A n \in Nodes : Tells(n, st[n], t, p)

Through(st) == AllSettled(st) /\ ~SubgraphHasFailure(st)

IsView(c) ==
  /\ c \in Contexts
  /\ c.done \subseteq 1 .. c.started
  /\ \A i \in Items : i > c.started => c.subs[i] = FreshBody
  /\ \A i \in c.done : Through(c.subs[i])
  /\ c.node = "SUCCEEDED" => c.done = Items
  /\ c.node = "FAILED" => \E i \in Items : SubgraphHasFailure(c.subs[i])

TrueView(c, t) == \A i \in Items : True(c.subs[i], t[i], picks[i])

Views == IsView(context) /\ \A a \in Actors : IsView(copy[a])

AllTrue == TrueView(context, tasks) /\ \A a \in Actors : TrueView(copy[a], tasks)

Types ==
  /\ kind \in Kinds /\ picks \in [Items -> Choices]
  /\ run \in {"QUEUED", "RUNNING"} \cup TerminalRun
  /\ tasks \in [Items -> [Nodes -> Seq(TaskStatuses)]]
  /\ \A i \in Items, n \in Nodes : Len(tasks[i][n]) <= IF n \in Actions THEN MaxTasks ELSE 0
  /\ pc \in [Actors -> Places]
  /\ copy \in [Actors -> Contexts]
  /\ call \in [Actors -> Calls]
  /\ doing \in [Actors -> SUBSET Jobs]
  /\ overlaps \in Nat /\ lost \in Nat /\ overlaps + lost <= MaxUpsets

\* An actor at work has a job of its own, that is RUNNING.
Hands ==
  /\ \A a \in Actors : doing[a] # {} <=> pc[a] = "working"
  /\ \A a \in Actors : \A j, k \in doing[a] : j = k
  /\ \A a \in Actors : \A j \in doing[a] : /\ j[3] \in DOMAIN tasks[j[1]][j[2]]
                                           /\ tasks[j[1]][j[2]][j[3]] = "RUNNING"
  /\ \A a, b \in Actors : a # b => doing[a] \cap doing[b] = {}

\* The items left to an actor in this generation are under way in its copy,
\* and the nodes left to dispatch untouched.
Fits(place, k, c) ==
  /\ place \in {"tick", "dispatch"} <=> k.items # {}
  /\ place = "dispatch" <=> k.ready # {}
  /\ k.items \subseteq Active(c)
  /\ \A n \in k.ready : c.subs[First(k.items)][n].status = "PENDING"

Calling == \A a \in Actors : Fits(pc[a], call[a], copy[a])

Shape == Types /\ Hands /\ Views /\ AllTrue /\ Calling

----------------------------------------------------------------------------
(* Sets of items *)

LEMMA LeastItem ==
  ASSUME NEW S, S \subseteq Nat, S # {}
  PROVE  First(S) \in S /\ \A i \in S : First(S) <= i
<1> DEFINE R == OpToRel(<, Nat)
<1>1. R = {ss \in Nat \X Nat : ss[1] < ss[2]}
  BY DEF OpToRel
<1>2. IsWellFoundedOn(R, Nat)
  BY NatLessThanWellFounded
<1> HIDE DEF R
<1>3. \E x \in S : \A y \in S : ~(<<y, x>> \in R)
  BY <1>2, WFMin
<1>4. \E x \in S : \A y \in S : x <= y
  <2>1. PICK x \in S : \A y \in S : ~(<<y, x>> \in R)
    BY <1>3
  <2>2. ASSUME NEW y \in S PROVE x <= y
    <3>1. x \in Nat /\ y \in Nat /\ <<y, x>> \notin R
      BY <2>1
    <3>2. ~(y < x)
      BY <1>1, <3>1
    <3> QED
      BY <3>1, <3>2
  <2> QED
    BY <2>2
<1> QED
  BY <1>4 DEF First
----------------------------------------------------------------------------
(* The scan of the graph.  OutOfReach chooses a set that agrees with itself; *)
(* it exists since a mark more can only put more nodes out of reach: the     *)
(* least of them is the meet of the sets closed under the scan.              *)

\* A mark settles a node, and opens no edge.
LEMMA MarksOnlyClose ==
  ASSUME NEW st, NEW S, NEW T, S \subseteq T, NEW n \in Nodes, Unreachable(n, Marked(st, S))
  PROVE  Unreachable(n, Marked(st, T))
<1> USE GraphAssumption DEF Marked, Into
<1>1. \A e \in Into(n) : e.source \in Nodes
  OBVIOUS
<1>2. AllIn(n, Marked(st, T))
  BY <1>1 DEF Unreachable, AllIn, Settled, State, Terminal
<1>3. ASSUME NEW e \in Into(n), EdgeIsSatisfied(e, Marked(st, T)[e.source])
      PROVE  FALSE
  <2>1. e.source \notin T \cap Pending(st)
    BY <1>1, <1>3 DEF EdgeIsSatisfied, State
  <2>2. Marked(st, T)[e.source] = Marked(st, S)[e.source]
    BY <1>1, <2>1
  <2> QED
    BY <1>3, <2>2 DEF Unreachable, Along
<1> QED
  BY <1>2, <1>3 DEF Unreachable, Along

LEMMA OutOfReachAgrees ==
  ASSUME NEW st
  PROVE  /\ OutOfReach(st) \subseteq Pending(st)
         /\ \A n \in Pending(st) :
              n \in OutOfReach(st) <=> Unreachable(n, Marked(st, OutOfReach(st) \cap Before[n]))
<1> DEFINE F(S) == {n \in Pending(st) : Unreachable(n, Marked(st, S \cap Before[n]))}
           Closed == {T \in SUBSET Pending(st) : F(T) \subseteq T}
           L == {n \in Pending(st) : \A T \in Closed : n \in T}
<1>1. ASSUME NEW S, NEW T, S \subseteq T PROVE F(S) \subseteq F(T)
  <2>1. \A n \in Pending(st) : n \in Nodes /\ S \cap Before[n] \subseteq T \cap Before[n]
    BY <1>1 DEF Pending
  <2> QED
    BY <2>1, MarksOnlyClose
<1>2. F(L) \subseteq L
  <2> SUFFICES ASSUME NEW n \in F(L), NEW T \in Closed PROVE n \in T
    OBVIOUS
  <2>1. L \subseteq T
    OBVIOUS
  <2>2. F(L) \subseteq F(T)
    BY <1>1, <2>1
  <2> QED
    BY <2>2
<1>3. F(L) \in Closed
  <2>1. F(F(L)) \subseteq F(L)
    BY <1>1, <1>2
  <2> QED
    BY <2>1
<1>4. L = F(L)
  BY <1>2, <1>3
<1>5. \E S \in SUBSET Pending(st) :
        \A n \in Pending(st) : n \in S <=> Unreachable(n, Marked(st, S \cap Before[n]))
  <2>1. L \in SUBSET Pending(st)
    OBVIOUS
  <2>2. \A n \in Pending(st) : n \in L <=> Unreachable(n, Marked(st, L \cap Before[n]))
    BY <1>4
  <2> QED
    BY <2>1, <2>2
<1> HIDE DEF L, F, Closed
<1> QED
  BY <1>5 DEF OutOfReach
----------------------------------------------------------------------------
(* The body of one item *)

LEMMA Kind ==
  /\ Actions \subseteq Nodes /\ Conditions \subseteq Nodes /\ Actions \cap Conditions = {}
  /\ \A n \in Nodes : TypeOf[n] # "join" /\ TypeOf[n] # "subautomation"
  /\ \A n \in Nodes : PolicyOf[n] \in Policies
  BY GraphAssumption, IterationAssumption DEF Actions, Conditions

LEMMA FreshFits ==
  /\ FreshBody \in Bodies
  /\ \A n \in Nodes : FreshBody[n].status = "PENDING"
  /\ \A t, p : True(FreshBody, t, p)
<1>1. Fresh \in States /\ Fresh.status = "PENDING" /\ Fresh.tag = "none"
  BY DEF Fresh, State, States, NodeStatuses, Tags
<1> QED
  BY <1>1 DEF FreshBody, Bodies, True, Tells

\* From t to u no job disappears, and what is over stays over.
Lasting(t, u) ==
  \A n \in Nodes :
    /\ DOMAIN t[n] \subseteq DOMAIN u[n]
    /\ \A k \in DOMAIN t[n] : t[n][k] \notin OpenTask => u[n][k] = t[n][k]

LEMMA DidLasts ==
  ASSUME NEW t, NEW u, Lasting(t, u), NEW n \in Nodes, NEW outcome \in {"SUCCEEDED", "DEAD_LETTERED"},
         Did(t, n, outcome)
  PROVE  Did(u, n, outcome)
  BY DEF Did, Lasting, OpenTask

LEMMA TrueLasts ==
  ASSUME NEW st, NEW t, NEW u, NEW p, Lasting(t, u), True(st, t, p)
  PROVE  True(st, u, p)
  BY DidLasts, Kind DEF True, Tells, Lasting

LEMMA PolledFits ==
  ASSUME Types, NEW i \in Items, NEW st \in Bodies, True(st, tasks[i], picks[i])
  PROVE  LET polled == [n \in Nodes |-> Polled(i, n, st[n])]
         IN  /\ polled \in Bodies /\ True(polled, tasks[i], picks[i])
             /\ \A n \in Nodes : st[n].status # "RUNNING" => polled[n] = st[n]
<1> DEFINE polled == [n \in Nodes |-> Polled(i, n, st[n])]
           t == tasks[i]
           p == picks[i]
<1>1. ASSUME NEW n \in Nodes
      PROVE  /\ polled[n] \in States /\ Tells(n, polled[n], t, p)
             /\ st[n].status # "RUNNING" => polled[n] = st[n]
  <2>1. st[n] \in States /\ Tells(n, st[n], t, p)
    BY DEF Bodies, True
  <2>2. CASE st[n].status # "RUNNING" \/ t[n][st[n].task] \in OpenTask
    BY <2>1, <2>2 DEF Polled
  <2>3. CASE st[n].status = "RUNNING" /\ t[n][st[n].task] \notin OpenTask
    <3>1. n \in Actions /\ st[n].task \in DOMAIN t[n] /\ n \notin Conditions
      BY <2>1, <2>3, Kind DEF Tells
    <3>2. t[n] \in Seq(TaskStatuses)
      BY DEF Types
    <3>3. t[n][st[n].task] \in {"SUCCEEDED", "DEAD_LETTERED"}
      BY <2>3, <3>1, <3>2 DEF TaskStatuses
    <3>4. CASE t[n][st[n].task] = "SUCCEEDED"
      <4>1. polled[n] = State("SUCCEEDED", "none", 0) /\ Did(t, n, "SUCCEEDED")
        BY <2>3, <3>1, <3>4 DEF Polled, Did
      <4> QED
        BY <2>3, <3>1, <4>1 DEF State, States, NodeStatuses, Tags, Tells
    <3>5. CASE t[n][st[n].task] = "DEAD_LETTERED"
      <4>1. polled[n] = FailureResult(n) /\ Did(t, n, "DEAD_LETTERED")
        BY <2>3, <3>1, <3>5 DEF Polled, Did
      <4>2. polled[n] = IF PolicyOf[n] = "ignore" THEN State("SKIPPED", "ignore", 0)
                                                  ELSE State("FAILED", PolicyOf[n], 0)
        BY <4>1, Kind DEF FailureResult
      <4> QED
        BY <2>3, <3>1, <4>1, <4>2, Kind DEF State, States, NodeStatuses, Tags, Tells
    <3> QED
      BY <3>3, <3>4, <3>5
  <2> QED
    BY <2>2, <2>3
<1> QED
  BY <1>1 DEF Bodies, True

LEMMA MarkedFits ==
  ASSUME NEW st \in Bodies, NEW t, NEW p, True(st, t, p)
  PROVE  /\ MarkSkipped(st) \in Bodies /\ True(MarkSkipped(st), t, p)
         /\ \A n \in ReadyNodes(st) : n \in Nodes /\ MarkSkipped(st)[n].status = "PENDING"
         /\ \A n \in Nodes : st[n].status # "PENDING" => MarkSkipped(st)[n] = st[n]
<1> DEFINE S == OutOfReach(st)
           after == MarkSkipped(st)
           skip == State("SKIPPED", "none", 0)
<1>1. S \subseteq Pending(st) /\ \A n \in Pending(st) : n \in S <=> Unreachable(n, Marked(st, S \cap Before[n]))
  BY OutOfReachAgrees
<1>2. after = Marked(st, S)
  BY DEF MarkSkipped
<1> HIDE DEF S
<1>3. \A n \in Nodes : after[n] = IF n \in S THEN skip ELSE st[n]
  BY <1>1, <1>2 DEF Marked
<1>4. skip \in States /\ \A n \in Nodes : Tells(n, skip, t, p)
  BY DEF State, States, NodeStatuses, Tags, Tells
<1>5. after = [n \in Nodes |-> after[n]]
  BY <1>2 DEF Marked
<1>6. after \in Bodies /\ True(after, t, p)
  BY <1>3, <1>4, <1>5 DEF Bodies, True
<1>7. ASSUME NEW n \in ReadyNodes(st) PROVE n \in Nodes /\ after[n].status = "PENDING"
  <2>1. n \in Nodes /\ n \in Pending(st) /\ Ready(n, Marked(st, S \cap Before[n])) /\ st[n].status = "PENDING"
    BY DEF ReadyNodes, Pending, S
  <2>2. n \notin S
    BY <1>1, <2>1 DEF Ready, Unreachable
  <2> QED
    BY <1>3, <2>1, <2>2
<1>8. \A n \in Nodes : st[n].status # "PENDING" => after[n] = st[n]
  BY <1>1, <1>3 DEF Pending
<1> QED
  BY <1>6, <1>7, <1>8
----------------------------------------------------------------------------
(* Steps of one actor *)

\* Actor a goes on to place with copy c and call k.
Turns(a, c, k, place) ==
  /\ copy' = [copy EXCEPT ![a] = c]
  /\ call' = [call EXCEPT ![a] = k]
  /\ pc' = [pc EXCEPT ![a] = place]

TasksLast == \A i \in Items : Lasting(tasks[i], tasks'[i])

\* What the step leaves actor a with is a sound view of the jobs.
Sound(a, c, k, place) ==
  /\ c \in Contexts /\ k \in Calls /\ place \in Places
  /\ IsView(c) /\ Fits(place, k, c)
  /\ \A i \in Items : True(c.subs[i], tasks'[i], picks[i])

LEMMA TurnFits ==
  ASSUME Shape, NEW a \in Actors, NEW c, NEW k, NEW place, Turns(a, c, k, place), Sound(a, c, k, place),
         picks' = picks, TasksLast, context' = context \/ context' = copy[a]
  PROVE  /\ copy' \in [Actors -> Contexts] /\ call' \in [Actors -> Calls] /\ pc' \in [Actors -> Places]
         /\ Views' /\ AllTrue' /\ Calling'
<1>1. /\ copy' \in [Actors -> Contexts] /\ call' \in [Actors -> Calls] /\ pc' \in [Actors -> Places]
      /\ copy'[a] = c /\ call'[a] = k /\ pc'[a] = place
      /\ \A b \in Actors \ {a} : copy'[b] = copy[b] /\ call'[b] = call[b] /\ pc'[b] = pc[b]
  BY DEF Shape, Types, Turns, Sound
<1>2. Views'
  <2>1. IsView(c) /\ IsView(context) /\ \A b \in Actors : IsView(copy[b])
    BY DEF Shape, Views, Sound
  <2>2. \A b \in Actors : IsView(copy'[b])
    BY <1>1, <2>1
  <2>3. IsView(context')
    BY <2>1
  <2> QED
    BY <2>2, <2>3 DEF Views
<1>3. AllTrue'
  <2>1. ASSUME NEW d, TrueView(d, tasks)
        PROVE  \A i \in Items : True(d.subs[i], tasks'[i], picks[i])
    <3> SUFFICES ASSUME NEW i \in Items PROVE True(d.subs[i], tasks'[i], picks[i])
      OBVIOUS
    <3>1. True(d.subs[i], tasks[i], picks[i]) /\ Lasting(tasks[i], tasks'[i])
      BY <2>1 DEF TrueView, TasksLast
    <3> QED
      BY <3>1, TrueLasts
  <2>2. \A b \in Actors \ {a} : \A i \in Items : True(copy[b].subs[i], tasks'[i], picks[i])
    BY <2>1 DEF Shape, AllTrue
  <2>3. \A i \in Items : True(context'.subs[i], tasks'[i], picks[i])
    BY <2>1 DEF Shape, AllTrue
  <2>4. \A b \in Actors : \A i \in Items : True(copy'[b].subs[i], tasks'[i], picks[i])
    BY <1>1, <2>2 DEF Sound
  <2> QED
    BY <2>3, <2>4 DEF AllTrue, TrueView
<1>4. Calling'
  BY <1>1 DEF Shape, Calling, Sound
<1> QED
  BY <1>1, <1>2, <1>3, <1>4

\* A step that touches no job, of an actor that has none before or after it.
LEMMA QuietTurn ==
  ASSUME Shape, NEW a \in Actors, NEW c, NEW k, NEW place, Turns(a, c, k, place), Sound(a, c, k, place),
         place # "working", UNCHANGED <<kind, picks, tasks>>,
         \/ pc[a] # "working" /\ doing' = doing
         \/ doing' = [doing EXCEPT ![a] = {}],
         run' \in {"QUEUED", "RUNNING"} \cup TerminalRun,
         overlaps' \in Nat, lost' \in Nat, overlaps' + lost' <= MaxUpsets,
         context' = context \/ context' = copy[a]
  PROVE  Shape'
<1>1. TasksLast
  BY DEF TasksLast, Lasting
<1>2. /\ copy' \in [Actors -> Contexts] /\ call' \in [Actors -> Calls] /\ pc' \in [Actors -> Places]
      /\ Views' /\ AllTrue' /\ Calling'
  BY <1>1, TurnFits
<1>3. /\ doing' \in [Actors -> SUBSET Jobs]
      /\ \A b \in Actors \ {a} : doing'[b] = doing[b] /\ pc'[b] = pc[b]
      /\ doing'[a] = {} /\ pc'[a] # "working"
  BY DEF Shape, Types, Hands, Turns
<1>4. Hands'
  BY <1>3 DEF Shape, Hands
<1>5. Types'
  BY <1>2, <1>3 DEF Shape, Types
<1> QED
  BY <1>2, <1>4, <1>5 DEF Shape

----------------------------------------------------------------------------
(* Views *)

LEMMA ActiveItems ==
  ASSUME NEW c \in Contexts
  PROVE  /\ Active(c) \subseteq Items /\ Items \subseteq Nat /\ c.started \in Nat
         /\ \A i \in Items : i \in Active(c) <=> i <= c.started /\ i \notin c.done
  BY IterationAssumption DEF Active, Contexts, Items

LEMMA BlankFits ==
  /\ Blank \in Contexts /\ NoCall \in Calls /\ IsView(Blank)
  /\ \A i \in Items : \A t, p : True(Blank.subs[i], t, p)
  /\ \A place \in Places \ {"tick", "dispatch"} : Fits(place, NoCall, Blank)
<1>1. Blank \in Contexts /\ NoCall \in Calls
  BY FreshFits, IterationAssumption DEF Blank, NoCall, Contexts, Calls, NodePlaces
<1>2. IsView(Blank)
  BY <1>1 DEF Blank, IsView
<1>3. \A i \in Items : \A t, p : True(Blank.subs[i], t, p)
  BY FreshFits DEF Blank
<1>4. \A place \in Places \ {"tick", "dispatch"} : Fits(place, NoCall, Blank)
  BY DEF NoCall, Fits
<1> QED
  BY <1>1, <1>2, <1>3, <1>4

\* A failure of a body stays when only nodes that have none change.
LEMMA FailureStays ==
  ASSUME NEW st, NEW su, \A n \in Nodes : st[n].status = "FAILED" => su[n].status = "FAILED",
         SubgraphHasFailure(st)
  PROVE  SubgraphHasFailure(su)
  BY DEF SubgraphHasFailure

\* The body of an item under way changes.
LEMMA BodyFits ==
  ASSUME NEW c \in Contexts, IsView(c), NEW i \in Active(c), NEW st \in Bodies,
         \A n \in Nodes : c.subs[i][n].status = "FAILED" => st[n].status = "FAILED"
  PROVE  LET d == [c EXCEPT !.subs[i] = st]
         IN  /\ d \in Contexts /\ IsView(d) /\ Active(d) = Active(c) /\ d.subs[i] = st
             /\ \A j \in Items \ {i} : d.subs[j] = c.subs[j]
<1> DEFINE d == [c EXCEPT !.subs[i] = st]
<1>1. i \in Items /\ i <= c.started /\ i \notin c.done
  BY ActiveItems
<1>2. /\ d \in Contexts /\ d.subs[i] = st /\ \A j \in Items \ {i} : d.subs[j] = c.subs[j]
      /\ d.node = c.node /\ d.started = c.started /\ d.done = c.done
  BY <1>1 DEF Contexts
<1> HIDE DEF d
<1>3. \A j \in Items : SubgraphHasFailure(c.subs[j]) => SubgraphHasFailure(d.subs[j])
  BY <1>1, <1>2, FailureStays
<1>4. \A j \in Items : j > d.started => d.subs[j] = FreshBody
  <2> SUFFICES ASSUME NEW j \in Items, j > c.started PROVE d.subs[j] = FreshBody
    BY <1>2
  <2>1. j # i
    BY <1>1, ActiveItems
  <2> QED
    BY <1>2, <2>1 DEF IsView
<1>5. d.done \subseteq Items /\ \A j \in d.done : Through(d.subs[j])
  BY <1>1, <1>2 DEF IsView, Contexts
<1>6. IsView(d)
  BY <1>2, <1>3, <1>4, <1>5 DEF IsView
<1>7. Active(d) = Active(c)
  BY <1>2 DEF Active
<1> QED
  BY <1>2, <1>6, <1>7 DEF d
----------------------------------------------------------------------------
(* Starting items *)

LEMMA RoomFits == ASSUME Types PROVE Room \in Nat \ {0}
  BY IterationAssumption DEF Types, Room

LEMMA ActiveFinite ==
  ASSUME NEW c \in Contexts
  PROVE  IsFiniteSet(Active(c)) /\ Cardinality(Active(c)) \in Nat
<1>1. IsFiniteSet(1 .. c.started)
  BY ActiveItems, FS_Interval
<1>2. IsFiniteSet(Active(c))
  BY <1>1, FS_Difference DEF Active
<1> QED
  BY <1>2, FS_CardinalityType

LEMMA StartFits ==
  ASSUME Types, NEW c \in Contexts, IsView(c)
  PROVE  /\ Start(c) \in Contexts /\ IsView(Start(c)) /\ Start(c).subs = c.subs
         /\ c.done # Items => Active(Start(c)) # {}
         /\ Cardinality(Active(c)) <= Room => Cardinality(Active(Start(c))) <= Room
<1> DEFINE free == Room - Cardinality(Active(c))
           s == c.started
           u == IF free <= 0 THEN s ELSE IF s + free < NumItems THEN s + free ELSE NumItems
           d == Start(c)
<1>1. Room \in Nat \ {0} /\ Cardinality(Active(c)) \in Nat /\ IsFiniteSet(Active(c)) /\ NumItems \in Nat
  BY RoomFits, ActiveFinite, IterationAssumption
<1>2. s \in 0 .. NumItems /\ c.done \subseteq Items
  BY DEF Contexts
<1>3. u \in s .. NumItems /\ (free > 0 => u <= s + free) /\ (free <= 0 => u = s) /\ (free > 0 /\ u = s => s = NumItems)
  BY <1>1, <1>2
<1>4. d = [c EXCEPT !.started = u]
  BY DEF Start
<1> HIDE DEF u, d
<1>5. d \in Contexts /\ d.subs = c.subs /\ d.done = c.done /\ d.node = c.node /\ d.started = u
  BY <1>1, <1>2, <1>3, <1>4 DEF Contexts
<1>6. IsView(d)
  <2>1. d.done \subseteq 1 .. d.started
    BY <1>2, <1>3, <1>5 DEF IsView
  <2>2. \A i \in Items : i > d.started => d.subs[i] = FreshBody
    BY <1>2, <1>3, <1>5 DEF IsView, Items
  <2> QED
    BY <1>5, <2>1, <2>2 DEF IsView
<1>7. ASSUME c.done # Items PROVE Active(d) # {}
  <2>1. CASE Active(c) = {}
    <3>1. c.done = 1 .. s
      BY <2>1 DEF IsView, Active
    <3>2. s # NumItems
      BY <1>7, <3>1 DEF Items
    <3>3. Cardinality(Active(c)) = 0
      BY <2>1, FS_EmptySet
    <3>4. u > s
      BY <1>1, <1>2, <1>3, <3>2, <3>3
    <3>5. u \in Active(d)
      BY <1>2, <1>3, <1>5, <3>1, <3>4 DEF Active
    <3> QED
      BY <3>5
  <2>2. CASE Active(c) # {}
    <3>1. Active(c) \subseteq Active(d)
      BY <1>2, <1>3, <1>5 DEF Active
    <3> QED
      BY <2>2, <3>1
  <2> QED
    BY <2>1, <2>2
<1>8. ASSUME Cardinality(Active(c)) <= Room PROVE Cardinality(Active(d)) <= Room
  <2> DEFINE new == s + 1 .. u
  <2>1. Active(d) \subseteq Active(c) \cup new
    BY <1>2, <1>3, <1>5 DEF Active
  <2>2. IsFiniteSet(new) /\ Cardinality(new) = u - s
    <3>1. s \in Int /\ u \in Int /\ s <= u
      BY <1>1, <1>2, <1>3
    <3>2. /\ IsFiniteSet(new)
          /\ Cardinality(new) = IF s + 1 > u THEN 0 ELSE u - (s + 1) + 1
      BY <3>1, FS_Interval
    <3> QED
      BY <3>1, <3>2
  <2>3. IsFiniteSet(Active(c) \cup new)
        /\ Cardinality(Active(c) \cup new) = Cardinality(Active(c)) + Cardinality(new) - Cardinality(Active(c) \cap new)
    BY <1>1, <2>2, FS_Union
  <2>4. Cardinality(Active(c) \cap new) \in Nat
    BY <1>1, FS_Intersection, FS_CardinalityType
  <2>5. Cardinality(Active(d)) <= Cardinality(Active(c) \cup new)
    BY <2>1, <2>3, FS_Subset
  <2>6. Cardinality(Active(d)) \in Nat /\ Cardinality(Active(c) \cup new) \in Nat
    BY <1>5, <2>3, ActiveFinite, FS_CardinalityType
  <2> HIDE DEF new
  <2>7. Cardinality(Active(c) \cup new) <= Cardinality(Active(c)) + (u - s)
    BY <1>1, <1>2, <1>3, <2>2, <2>3, <2>4
  <2> QED
    BY <1>1, <1>2, <1>3, <1>8, <2>5, <2>6, <2>7
<1> QED
  BY <1>5, <1>6, <1>7, <1>8 DEF d

----------------------------------------------------------------------------
(* Shape *)

\* What a step of actor a starts from.
LEMMA Here ==
  ASSUME Shape, NEW a \in Actors
  PROVE  /\ copy[a] \in Contexts /\ call[a] \in Calls /\ pc[a] \in Places
         /\ IsView(copy[a]) /\ Fits(pc[a], call[a], copy[a])
         /\ \A i \in Items : True(copy[a].subs[i], tasks[i], picks[i])
         /\ context \in Contexts /\ IsView(context)
         /\ \A i \in Items : True(context.subs[i], tasks[i], picks[i])
         /\ copy = [copy EXCEPT ![a] = copy[a]] /\ call = [call EXCEPT ![a] = call[a]]
         /\ pc[a] # "working" => doing[a] = {}
         /\ run \in {"QUEUED", "RUNNING"} \cup TerminalRun
         /\ overlaps \in Nat /\ lost \in Nat /\ overlaps + lost <= MaxUpsets
  BY DEF Shape, Types, Views, IsView, AllTrue, TrueView, Calling, Hands

LEMMA CallerShape ==
  ASSUME Shape, NEW a \in Actors, CronPicks(a) \/ WriteRunning(a)
  PROVE  Shape'
<1>1. /\ pc[a] \in {"idle", "starting"} /\ UNCHANGED <<kind, picks, tasks, context, copy, call, doing, overlaps, lost>>
      /\ run' \in {run, "RUNNING"}
  BY DEF CronPicks, WriteRunning
<1>2. PICK place \in {"called", "poll"} : pc' = [pc EXCEPT ![a] = place]
  BY DEF CronPicks, WriteRunning, Goto
<1>3. Turns(a, copy[a], call[a], place)
  BY <1>1, <1>2, Here DEF Turns
<1>4. Sound(a, copy[a], call[a], place)
  <2>1. call[a].items = {} /\ call[a].ready = {}
    BY <1>1, Here DEF Fits
  <2> QED
    BY <1>1, <2>1, Here DEF Sound, Fits, Places
<1> QED
  BY <1>1, <1>3, <1>4, Here, QuietTurn

LEMMA ReadShape ==
  ASSUME Shape, NEW a \in Actors, Read(a)
  PROVE  Shape'
<1>1. pc[a] = "called" /\ UNCHANGED <<kind, picks, run, context, tasks, doing, lost>>
  BY DEF Read
<1>2. call[a].items = {} /\ call[a].ready = {}
  BY <1>1, Here DEF Fits
<1>3. CASE run \in TerminalRun
  <2>1. Turns(a, copy[a], call[a], "idle") /\ overlaps' = overlaps
    BY <1>3, Here DEF Read, Turns, Goto
  <2>2. Sound(a, copy[a], call[a], "idle")
    BY <1>1, <1>2, Here DEF Sound, Fits, Places
  <2> QED
    BY <1>1, <2>1, <2>2, Here, QuietTurn
<1>4. CASE run \notin TerminalRun
  <2> DEFINE c == [context EXCEPT !.node = "RUNNING"]
             k == [call[a] EXCEPT !.gen = IF context.node = "PENDING" THEN 2 ELSE 0]
  <2>1. PICK place \in {"starting", "poll"} : Turns(a, c, k, place)
    BY <1>4, Here DEF Read, DispatchNode, Turns, Goto
  <2>2. /\ c \in Contexts /\ c.subs = context.subs /\ c.done = context.done
        /\ c.started = context.started /\ c.node = "RUNNING"
    BY Here DEF Contexts, NodePlaces
  <2>3. IsView(c)
    BY <2>2, Here DEF IsView
  <2>4. k \in Calls /\ k.items = {} /\ k.ready = {}
    BY <1>2, Here, IterationAssumption DEF Calls
  <2>5. Fits(place, k, c)
    BY <2>4 DEF Fits
  <2>6. Sound(a, c, k, place)
    BY <1>1, <2>2, <2>3, <2>4, <2>5, Here DEF Sound, Places
  <2>7. overlaps' \in Nat /\ overlaps' + lost <= MaxUpsets
    <3>1. overlaps' = overlaps \/ (overlaps + lost < MaxUpsets /\ overlaps' = overlaps + 1)
      BY <1>4 DEF Read
    <3> QED
      BY <3>1, Here, IterationAssumption
  <2> HIDE DEF c, k
  <2> QED
    BY <1>1, <2>1, <2>6, <2>7, Here, QuietTurn
<1> QED
  BY <1>3, <1>4

LEMMA PollShape ==
  ASSUME Shape, NEW a \in Actors, Poll(a)
  PROVE  Shape'
<1>1. pc[a] = "poll" /\ UNCHANGED <<kind, picks, run, context, tasks, doing, overlaps, lost>>
  BY DEF Poll
<1>2. call[a].items = {} /\ call[a].ready = {}
  BY <1>1, Here DEF Fits
<1>3. CASE call[a].gen = MaxGenerations
  <2>1. Turns(a, copy[a], call[a], "save")
    BY <1>3, Here DEF Poll, Turns, Goto
  <2>2. Sound(a, copy[a], call[a], "save")
    BY <1>1, <1>2, Here DEF Sound, Fits, Places
  <2> QED
    BY <1>1, <2>1, <2>2, Here, QuietTurn
<1>4. CASE call[a].gen # MaxGenerations /\ copy[a].done = Items
  <2> DEFINE c == [copy[a] EXCEPT !.node = "SUCCEEDED"]
  <2>1. Turns(a, c, call[a], "save")
    BY <1>4, Here DEF Poll, Turns, Goto
  <2>2. /\ c \in Contexts /\ c.subs = copy[a].subs /\ c.done = copy[a].done
        /\ c.started = copy[a].started /\ c.node = "SUCCEEDED"
    BY Here DEF Contexts, NodePlaces
  <2>3. IsView(c)
    BY <1>4, <2>2, Here DEF IsView
  <2>4. Sound(a, c, call[a], "save")
    BY <1>1, <1>2, <2>2, <2>3, Here DEF Sound, Fits, Places
  <2> HIDE DEF c
  <2> QED
    BY <1>1, <2>1, <2>4, Here, QuietTurn
<1>5. CASE call[a].gen # MaxGenerations /\ copy[a].done # Items
  <2> DEFINE c == Start(copy[a])
             k == [items |-> Active(c), ready |-> {}, gen |-> call[a].gen + 1, moved |-> FALSE]
  <2>1. Turns(a, c, k, "tick")
    BY <1>5, Here DEF Poll, Turns, Goto
  <2>2. c \in Contexts /\ IsView(c) /\ c.subs = copy[a].subs /\ Active(c) # {}
    BY <1>5, Here, StartFits DEF Shape
  <2> HIDE DEF c
  <2>3. k \in Calls /\ k.items = Active(c) /\ k.ready = {}
    <3>1. call[a].gen + 1 \in 0 .. MaxGenerations
      BY <1>5, Here, IterationAssumption DEF Calls
    <3>2. Active(c) \in SUBSET Items
      BY <2>2, ActiveItems
    <3> QED
      BY <3>1, <3>2 DEF Calls
  <2>4. Fits("tick", k, c)
    BY <2>2, <2>3 DEF Fits
  <2> HIDE DEF k
  <2>5. Sound(a, c, k, "tick")
    BY <1>1, <2>2, <2>3, <2>4, Here DEF Sound, Places
  <2> QED
    BY <1>1, <2>1, <2>5, Here, QuietTurn
<1> QED
  BY <1>3, <1>4, <1>5

LEMMA LoseShape ==
  ASSUME Shape, NEW a \in Actors, Lose(a)
  PROVE  Shape'
<1>1. /\ Turns(a, Blank, NoCall, "idle") /\ UNCHANGED <<kind, picks, run, context, tasks, overlaps>>
      /\ doing' = [doing EXCEPT ![a] = {}] /\ lost' = lost + 1 /\ overlaps + lost < MaxUpsets
  BY DEF Lose, Return, Goto, Turns
<1>2. Sound(a, Blank, NoCall, "idle")
  BY BlankFits DEF Sound, Places
<1>3. lost' \in Nat /\ overlaps' + lost' <= MaxUpsets
  BY <1>1, Here, IterationAssumption
<1> QED
  BY <1>1, <1>2, <1>3, Here, QuietTurn

LEMMA SaveShape ==
  ASSUME Shape, NEW a \in Actors, Save(a)
  PROVE  Shape'
<1>1. /\ Turns(a, Blank, NoCall, "idle") /\ UNCHANGED <<kind, picks, doing, tasks, overlaps, lost>>
      /\ pc[a] = "save" /\ context' = copy[a]
      /\ run' \in {run} \cup TerminalRun
  BY DEF Save, Return, Goto, Turns
<1>2. Sound(a, Blank, NoCall, "idle")
  BY BlankFits DEF Sound, Places
<1> QED
  BY <1>1, <1>2, Here, QuietTurn

\* The item whose turn it is.
LEMMA ItemInTurn ==
  ASSUME Shape, NEW a \in Actors, pc[a] \in {"tick", "dispatch"}
  PROVE  /\ First(call[a].items) \in call[a].items /\ First(call[a].items) \in Active(copy[a])
         /\ First(call[a].items) \in Items /\ call[a].items \subseteq Active(copy[a])
<1>1. call[a].items # {} /\ call[a].items \subseteq Active(copy[a])
  BY Here DEF Fits
<1>2. call[a].items \subseteq Items /\ call[a].items \subseteq Nat
  BY Here, ActiveItems DEF Calls
<1> QED
  BY <1>1, <1>2, LeastItem

\* The next item, after i, in a copy that may count i as done.
LEMMA NextShape ==
  ASSUME Shape, NEW a \in Actors, pc[a] = "tick", NEW c \in Contexts, IsView(c), NEW moved \in BOOLEAN,
         c.done = copy[a].done \/ c.done = copy[a].done \cup {First(call[a].items)},
         c.started = copy[a].started,
         \A j \in Items : True(c.subs[j], tasks[j], picks[j]),
         NextItem(a, c, moved), UNCHANGED <<kind, picks, run, context, tasks, doing, overlaps, lost>>
  PROVE  Shape'
<1> DEFINE i == First(call[a].items)
           rest == call[a].items \ {i}
           over == rest = {} /\ kind = "map" /\ c.done = Items
           d == IF over THEN [c EXCEPT !.node = "SUCCEEDED"] ELSE c
           k == [call[a] EXCEPT !.items = rest, !.moved = moved]
           place == IF rest # {} THEN "tick" ELSE IF moved /\ ~over THEN "poll" ELSE "save"
<1>1. Turns(a, d, k, place)
  BY Here DEF NextItem, Turns, Goto
<1>2. /\ d \in Contexts /\ d.subs = c.subs /\ d.done = c.done /\ d.started = c.started
      /\ d.node = (IF over THEN "SUCCEEDED" ELSE c.node)
  BY DEF Contexts, NodePlaces
<1>3. IsView(d)
  BY <1>2 DEF IsView
<1>4. k \in Calls /\ k.items = rest /\ k.ready = {}
  <2>1. call[a].ready = {} /\ call[a] \in Calls
    BY Here DEF Fits
  <2> QED
    BY <2>1 DEF Calls
<1>5. rest \subseteq Active(d)
  BY <1>2, ItemInTurn DEF Active
<1>6. place \in {"tick", "poll", "save"} /\ (place = "tick" <=> rest # {})
  OBVIOUS
<1> HIDE DEF i, rest, d, k, place
<1>7. Fits(place, k, d)
  BY <1>4, <1>5, <1>6 DEF Fits
<1>8. Sound(a, d, k, place)
  BY <1>2, <1>3, <1>4, <1>6, <1>7 DEF Sound, Places
<1> QED
  BY <1>1, <1>6, <1>8, Here, QuietTurn

LEMMA LeaveShape ==
  ASSUME Shape, NEW a \in Actors, pc[a] = "tick", NEW i, i = First(call[a].items),
         LeaveItem(a, i, copy[a]), UNCHANGED <<kind, picks, run, context, tasks, doing, overlaps, lost>>
  PROVE  Shape'
<1> DEFINE c == copy[a]
<1>1. i \in Active(c) /\ i \in Items /\ c \in Contexts /\ IsView(c) /\ call[a] \in Calls
      /\ i <= c.started /\ i >= 1
      /\ \A j \in Items : True(c.subs[j], tasks[j], picks[j])
  BY Here, ItemInTurn, ActiveItems DEF Items
<1>2. CASE ~AllSettled(c.subs[i])
  <2>1. NextItem(a, c, call[a].moved) /\ call[a].moved \in BOOLEAN
    BY <1>1, <1>2 DEF LeaveItem, Calls
  <2> QED
    BY <1>1, <2>1, NextShape
<1>3. CASE AllSettled(c.subs[i]) /\ SubgraphHasFailure(c.subs[i])
  <2> DEFINE d == [c EXCEPT !.node = "FAILED"]
             k == [call[a] EXCEPT !.items = {}]
  <2>1. Turns(a, d, k, "save")
    BY <1>3, Here DEF LeaveItem, Turns, Goto
  <2>2. d \in Contexts /\ d.subs = c.subs /\ d.done = c.done /\ d.started = c.started /\ d.node = "FAILED"
    BY <1>1 DEF Contexts, NodePlaces
  <2>3. IsView(d)
    BY <1>1, <1>3, <2>2 DEF IsView
  <2>4. k \in Calls /\ k.items = {} /\ k.ready = {}
    BY <1>1, Here DEF Calls, Fits
  <2> HIDE DEF d, k
  <2>5. Sound(a, d, k, "save")
    BY <1>1, <2>2, <2>3, <2>4 DEF Sound, Fits, Places
  <2> QED
    BY <2>1, <2>5, Here, QuietTurn
<1>4. CASE AllSettled(c.subs[i]) /\ ~SubgraphHasFailure(c.subs[i])
  <2> DEFINE d == [c EXCEPT !.done = @ \cup {i}]
  <2>1. NextItem(a, d, TRUE)
    BY <1>4 DEF LeaveItem
  <2>2. /\ d \in Contexts /\ d.subs = c.subs /\ d.done = c.done \cup {i} /\ d.started = c.started
        /\ d.node = c.node
    BY <1>1 DEF Contexts
  <2> HIDE DEF d
  <2>3. d.done \subseteq 1 .. d.started
    BY <1>1, <2>2 DEF IsView, Active
  <2>4. i \notin c.done
    BY <1>1 DEF Active
  <2>5. IsView(d)
    BY <1>1, <1>4, <2>2, <2>3, <2>4 DEF IsView, Through
  <2>6. \A j \in Items : True(d.subs[j], tasks[j], picks[j])
    BY <1>1, <2>2
  <2> QED
    BY <2>1, <2>2, <2>5, <2>6, NextShape
<1> QED
  BY <1>2, <1>3, <1>4

\* What a generation makes of the body of the item, before its dispatches.
LEMMA ScanFits ==
  ASSUME Shape, NEW a \in Actors, pc[a] = "tick"
  PROVE  LET i      == First(call[a].items)
             before == copy[a].subs[i]
             polled == [n \in Nodes |-> Polled(i, n, before[n])]
             st     == MarkSkipped(polled)
             c      == [copy[a] EXCEPT !.subs[i] = st]
         IN  /\ before \in Bodies /\ polled \in Bodies /\ st \in Bodies
             /\ True(before, tasks[i], picks[i]) /\ True(polled, tasks[i], picks[i])
             /\ c \in Contexts /\ IsView(c) /\ Active(c) = Active(copy[a])
             /\ c.subs[i] = st
             /\ \A j \in Items \ {i} : c.subs[j] = copy[a].subs[j]
             /\ \A j \in Items : True(c.subs[j], tasks[j], picks[j])
             /\ \A n \in ReadyNodes(polled) : n \in Nodes /\ st[n].status = "PENDING"
             /\ \A n \in Nodes : before[n].status = "FAILED" => st[n].status = "FAILED"
             /\ c.subs[i] = before => c = copy[a]
<1> DEFINE i      == First(call[a].items)
           before == copy[a].subs[i]
           polled == [n \in Nodes |-> Polled(i, n, before[n])]
           st     == MarkSkipped(polled)
           c      == [copy[a] EXCEPT !.subs[i] = st]
<1>1. i \in Active(copy[a]) /\ i \in Items /\ copy[a] \in Contexts /\ IsView(copy[a])
      /\ \A j \in Items : True(copy[a].subs[j], tasks[j], picks[j])
  BY Here, ItemInTurn
<1>2. before \in Bodies /\ True(before, tasks[i], picks[i])
  BY <1>1 DEF Contexts
<1> HIDE DEF before
<1>3. /\ polled \in Bodies /\ True(polled, tasks[i], picks[i])
      /\ \A n \in Nodes : before[n].status # "RUNNING" => polled[n] = before[n]
  BY <1>1, <1>2, PolledFits DEF Shape
<1> HIDE DEF polled
<1>4. /\ st \in Bodies /\ True(st, tasks[i], picks[i])
      /\ \A n \in ReadyNodes(polled) : n \in Nodes /\ st[n].status = "PENDING"
      /\ \A n \in Nodes : polled[n].status # "PENDING" => st[n] = polled[n]
  BY <1>3, MarkedFits
<1>5. \A n \in Nodes : before[n].status = "FAILED" => st[n].status = "FAILED"
  BY <1>3, <1>4
<1> HIDE DEF st
<1>6. /\ c \in Contexts /\ IsView(c) /\ Active(c) = Active(copy[a]) /\ c.subs[i] = st
      /\ \A j \in Items \ {i} : c.subs[j] = copy[a].subs[j]
  BY <1>1, <1>4, <1>5, BodyFits DEF before
<1>7. \A j \in Items : True(c.subs[j], tasks[j], picks[j])
  BY <1>1, <1>4, <1>6
<1>8. c.subs[i] = before => c = copy[a]
  BY <1>1, <1>6 DEF Contexts, before
<1> QED
  BY <1>2, <1>3, <1>4, <1>5, <1>6, <1>7, <1>8 DEF before, polled, st

LEMMA TickShape ==
  ASSUME Shape, NEW a \in Actors, Tick(a)
  PROVE  Shape'
<1> DEFINE i      == First(call[a].items)
           before == copy[a].subs[i]
           polled == [n \in Nodes |-> Polled(i, n, before[n])]
           st     == MarkSkipped(polled)
           c      == [copy[a] EXCEPT !.subs[i] = st]
           ready  == ReadyNodes(polled)
           k      == [call[a] EXCEPT !.ready = ready, !.moved = TRUE]
           place  == IF ready = {} THEN "tick" ELSE "dispatch"
<1>1. pc[a] = "tick" /\ UNCHANGED <<kind, picks, run, context, tasks, doing, overlaps, lost>>
  BY DEF Tick
<1>2. IF ready = {} /\ c.subs[i] = before THEN LeaveItem(a, i, c) ELSE Turns(a, c, k, place)
  <2>1. IF ready = {} /\ c.subs[i] = before THEN LeaveItem(a, i, c)
        ELSE /\ copy' = [copy EXCEPT ![a] = c]
             /\ call' = [call EXCEPT ![a].ready = ready, ![a].moved = TRUE]
             /\ Goto(a, place)
    BY DEF Tick
  <2>2. [call EXCEPT ![a].ready = ready, ![a].moved = TRUE] = [call EXCEPT ![a] = k]
    <3> HIDE DEF ready
    <3> QED
      OBVIOUS
  <2> HIDE DEF c, k, ready, place, before
  <2> QED
    BY <2>1, <2>2 DEF Turns, Goto
<1>3. /\ c \in Contexts /\ IsView(c) /\ Active(c) = Active(copy[a]) /\ c.subs[i] = st
      /\ \A j \in Items : True(c.subs[j], tasks[j], picks[j])
      /\ \A n \in ready : n \in Nodes /\ st[n].status = "PENDING"
      /\ c.subs[i] = before => c = copy[a]
  BY <1>1, ScanFits
<1> HIDE DEF before, polled, st, c, ready
<1>4. CASE ready = {} /\ c.subs[i] = before
  BY <1>1, <1>2, <1>3, <1>4, LeaveShape
<1>5. CASE ~(ready = {} /\ c.subs[i] = before)
  <2>1. k \in Calls /\ k.items = call[a].items /\ k.ready = ready
    BY <1>3, Here DEF Calls
  <2>2. call[a].items # {} /\ call[a].items \subseteq Active(c)
    BY <1>1, <1>3, Here DEF Fits
  <2>3. place \in {"tick", "dispatch"} /\ (place = "dispatch" <=> ready # {})
    OBVIOUS
  <2> HIDE DEF k, place
  <2>4. Fits(place, k, c)
    BY <1>3, <2>1, <2>2, <2>3 DEF Fits, i
  <2>5. Sound(a, c, k, place)
    BY <1>1, <1>3, <2>1, <2>3, <2>4 DEF Sound, Places
  <2> QED
    BY <1>1, <1>2, <1>5, <2>3, <2>5, Here, QuietTurn
<1> QED
  BY <1>4, <1>5

\* The jobs of an actor, of which it has none that another one has, stay its.
LEMMA HandsKept ==
  ASSUME Hands, NEW a \in Actors, pc[a] # "working", NEW place, place # "working",
         pc' = [pc EXCEPT ![a] = place], pc \in [Actors -> Places], doing' = doing,
         \A b \in Actors : \A j \in doing[b] :
            /\ j[3] \in DOMAIN tasks'[j[1]][j[2]]
            /\ tasks'[j[1]][j[2]][j[3]] = "RUNNING"
  PROVE  Hands'
<1>1. \A b \in Actors : pc'[b] = IF b = a THEN place ELSE pc[b]
  OBVIOUS
<1> QED
  BY <1>1 DEF Hands

\* A job is added to those of node n of item i, and what that leaves.
Adds(i, n) ==
  /\ Len(tasks[i][n]) < MaxTasks
  /\ tasks' = [tasks EXCEPT ![i][n] = Append(@, "QUEUED")]

Added(i, n) ==
  /\ tasks' \in [Items -> [Nodes -> Seq(TaskStatuses)]]
  /\ \A j \in Items, m \in Nodes : Len(tasks'[j][m]) <= IF m \in Actions THEN MaxTasks ELSE 0
  /\ \A j \in Items, m \in Nodes :
       /\ DOMAIN tasks[j][m] \subseteq DOMAIN tasks'[j][m]
       /\ \A k \in DOMAIN tasks[j][m] : tasks'[j][m][k] = tasks[j][m][k]
  /\ Len(tasks[i][n]) + 1 \in DOMAIN tasks'[i][n]
  /\ \A j \in Items, m \in Nodes : j # i \/ m # n => tasks'[j][m] = tasks[j][m]

LEMMA JobAdded ==
  ASSUME Types, NEW i \in Items, NEW n \in Actions, Adds(i, n)
  PROVE  Added(i, n)
<1> USE DEF Adds
<1> DEFINE s == tasks[i][n]
           r == Append(s, "QUEUED")
<1>1. s \in Seq(TaskStatuses) /\ n \in Nodes
  BY Kind DEF Types
<1>2. /\ r \in Seq(TaskStatuses) /\ Len(r) = Len(s) + 1
      /\ \A k \in DOMAIN s : k \in DOMAIN r /\ r[k] = s[k]
      /\ Len(s) + 1 \in DOMAIN r /\ Len(s) \in Nat
  BY <1>1 DEF TaskStatuses, OpenTask
<1>3. \A j \in Items, m \in Nodes : tasks'[j][m] = IF j = i /\ m = n THEN r ELSE tasks[j][m]
  BY <1>1 DEF Types
<1>4. tasks' \in [Items -> [Nodes -> Seq(TaskStatuses)]]
  <2>1. [tasks[i] EXCEPT ![n] = r] \in [Nodes -> Seq(TaskStatuses)]
    BY <1>2 DEF Types
  <2>2. tasks' = [tasks EXCEPT ![i] = [tasks[i] EXCEPT ![n] = r]]
    OBVIOUS
  <2> HIDE DEF r
  <2> QED
    BY <2>1, <2>2 DEF Types
<1> HIDE DEF r
<1>5. ASSUME NEW j \in Items, NEW m \in Nodes
      PROVE  Len(tasks'[j][m]) <= IF m \in Actions THEN MaxTasks ELSE 0
  BY <1>2, <1>3, IterationAssumption DEF Types
<1>6. ASSUME NEW j \in Items, NEW m \in Nodes
      PROVE  /\ DOMAIN tasks[j][m] \subseteq DOMAIN tasks'[j][m]
             /\ \A k \in DOMAIN tasks[j][m] : tasks'[j][m][k] = tasks[j][m][k]
  BY <1>2, <1>3
<1> QED
  BY <1>1, <1>2, <1>3, <1>4, <1>5, <1>6 DEF Added

LEMMA DispatchShape ==
  ASSUME Shape, NEW a \in Actors, DispatchBody(a)
  PROVE  Shape'
<1> DEFINE i == First(call[a].items)
<1>1. pc[a] = "dispatch" /\ UNCHANGED <<kind, picks, run, context, doing, overlaps, lost>>
  BY DEF DispatchBody
<1>2. PICK n \in Foremost(call[a].ready) :
        /\ \/ /\ n \notin Actions /\ UNCHANGED tasks
              /\ copy' = [copy EXCEPT ![a].subs[i][n] = State("SUCCEEDED", IF n \in Conditions THEN picks[i][n] ELSE "none", 0)]
           \/ /\ n \in Actions /\ Len(tasks[i][n]) < MaxTasks
              /\ tasks' = [tasks EXCEPT ![i][n] = Append(@, "QUEUED")]
              /\ copy' = [copy EXCEPT ![a].subs[i][n] = State("RUNNING", "none", Len(tasks[i][n]) + 1)]
        /\ call' = [call EXCEPT ![a].ready = @ \ {n}]
        /\ Goto(a, IF call[a].ready = {n} THEN "tick" ELSE "dispatch")
  BY DEF DispatchBody
<1> DEFINE s == IF n \in Actions THEN State("RUNNING", "none", Len(tasks[i][n]) + 1)
                ELSE State("SUCCEEDED", IF n \in Conditions THEN picks[i][n] ELSE "none", 0)
           st == [copy[a].subs[i] EXCEPT ![n] = s]
           c == [copy[a] EXCEPT !.subs[i] = st]
           k == [call[a] EXCEPT !.ready = @ \ {n}]
           place == IF call[a].ready = {n} THEN "tick" ELSE "dispatch"
<1>3. /\ n \in call[a].ready /\ n \in Nodes /\ copy[a].subs[i][n].status = "PENDING"
      /\ i \in Active(copy[a]) /\ i \in Items /\ copy[a] \in Contexts /\ call[a] \in Calls
      /\ IsView(copy[a]) /\ Fits("dispatch", call[a], copy[a])
      /\ \A j \in Items : True(copy[a].subs[j], tasks[j], picks[j])
  BY <1>1, Here, ItemInTurn DEF Foremost, Fits, Calls
<1>4. Turns(a, c, k, place)
  <2>1. copy' = [copy EXCEPT ![a].subs[i][n] = s]
    BY <1>2
  <2>2. [copy EXCEPT ![a].subs[i][n] = s] = [copy EXCEPT ![a] = c]
    <3> HIDE DEF s, i
    <3> QED
      OBVIOUS
  <2>3. call' = [call EXCEPT ![a] = k]
    BY <1>2
  <2> HIDE DEF c, k, place
  <2> QED
    BY <1>2, <2>1, <2>2, <2>3 DEF Turns, Goto, place
<1>5. /\ TasksLast /\ Hands' /\ Types
      /\ tasks' \in [Items -> [Nodes -> Seq(TaskStatuses)]]
      /\ \A j \in Items, m \in Nodes : Len(tasks'[j][m]) <= IF m \in Actions THEN MaxTasks ELSE 0
      /\ n \in Actions => Len(tasks[i][n]) + 1 \in DOMAIN tasks'[i][n]
  <2>0. /\ Types /\ Hands /\ place # "working" /\ pc' = [pc EXCEPT ![a] = place] /\ pc \in [Actors -> Places]
        /\ doing \in [Actors -> SUBSET Jobs]
    BY <1>4 DEF Shape, Turns, Types
  <2> HIDE DEF place, c, k, s
  <2>1. CASE n \notin Actions
    <3>1. tasks' = tasks
      BY <1>2, <2>1
    <3>2. TasksLast
      BY <3>1 DEF TasksLast, Lasting
    <3>3. \A b \in Actors : \A j \in doing[b] :
            /\ j[3] \in DOMAIN tasks'[j[1]][j[2]]
            /\ tasks'[j[1]][j[2]][j[3]] = "RUNNING"
      BY <2>0, <3>1 DEF Hands
    <3>4. Hands'
      BY <1>1, <2>0, <3>3, HandsKept
    <3> QED
      BY <2>0, <2>1, <3>1, <3>2, <3>4 DEF Types
  <2>2. CASE n \in Actions
    <3>1. /\ tasks' \in [Items -> [Nodes -> Seq(TaskStatuses)]]
          /\ \A j \in Items, m \in Nodes : Len(tasks'[j][m]) <= IF m \in Actions THEN MaxTasks ELSE 0
          /\ \A j \in Items, m \in Nodes :
               /\ DOMAIN tasks[j][m] \subseteq DOMAIN tasks'[j][m]
               /\ \A l \in DOMAIN tasks[j][m] : tasks'[j][m][l] = tasks[j][m][l]
          /\ Len(tasks[i][n]) + 1 \in DOMAIN tasks'[i][n]
      <4>1. Adds(i, n)
        BY <1>2, <2>2 DEF Adds
      <4> HIDE DEF i
      <4>2. Added(i, n)
        BY <1>3, <2>0, <2>2, <4>1, JobAdded
      <4> QED
        BY <4>2 DEF Added
    <3>2. TasksLast
      BY <3>1 DEF TasksLast, Lasting
    <3>3. \A b \in Actors : \A j \in doing[b] :
            /\ j[3] \in DOMAIN tasks'[j[1]][j[2]]
            /\ tasks'[j[1]][j[2]][j[3]] = "RUNNING"
      <4> SUFFICES ASSUME NEW b \in Actors, NEW j \in doing[b]
                   PROVE  /\ j[3] \in DOMAIN tasks'[j[1]][j[2]]
                          /\ tasks'[j[1]][j[2]][j[3]] = "RUNNING"
        OBVIOUS
      <4>1. j[1] \in Items /\ j[2] \in Nodes /\ j[3] \in DOMAIN tasks[j[1]][j[2]]
            /\ tasks[j[1]][j[2]][j[3]] = "RUNNING"
        BY <2>0, Kind DEF Hands, Jobs
      <4> QED
        BY <3>1, <4>1
    <3>4. Hands'
      BY <1>1, <2>0, <3>3, HandsKept
    <3> QED
      BY <2>0, <3>1, <3>2, <3>4
  <2> QED
    BY <2>1, <2>2
<1>6. s \in States /\ Tells(n, s, tasks'[i], picks[i]) /\ s.status # "FAILED"
  <2>1. n \in Conditions => picks[i][n] \in UNION {BranchesOf[m] : m \in Conditions}
    BY <1>3, <1>5 DEF Types, Choices
  <2>2. tasks[i][n] \in Seq(TaskStatuses)
    BY <1>3, <1>5 DEF Types
  <2>3. CASE n \in Actions
    <3>1. s = State("RUNNING", "none", Len(tasks[i][n]) + 1) /\ Len(tasks[i][n]) + 1 \in Nat
      BY <2>2, <2>3
    <3> HIDE DEF s, i
    <3> QED
      BY <1>5, <2>3, <3>1 DEF State, States, NodeStatuses, Tags, Tells
  <2>4. CASE n \notin Actions
    <3>1. s = State("SUCCEEDED", IF n \in Conditions THEN picks[i][n] ELSE "none", 0)
      BY <2>4
    <3> HIDE DEF s, i
    <3> QED
      BY <2>1, <2>4, <3>1 DEF State, States, NodeStatuses, Tags, Tells
  <2> QED
    BY <2>3, <2>4
<1>7. \A j \in Items : True(copy[a].subs[j], tasks'[j], picks[j])
  BY <1>3, <1>5, TrueLasts DEF TasksLast
<1> HIDE DEF s, i
<1>8. /\ st \in Bodies /\ True(st, tasks'[i], picks[i])
      /\ \A m \in Nodes : copy[a].subs[i][m].status = "FAILED" => st[m].status = "FAILED"
      /\ \A m \in Nodes \ {n} : st[m] = copy[a].subs[i][m]
  <2>1. copy[a].subs[i] \in Bodies
    BY <1>3 DEF Contexts
  <2>2. st \in Bodies /\ \A m \in Nodes : st[m] = IF m = n THEN s ELSE copy[a].subs[i][m]
    BY <1>3, <1>6, <2>1 DEF Bodies
  <2> HIDE DEF st
  <2>3. True(st, tasks'[i], picks[i])
    BY <1>3, <1>6, <1>7, <2>2 DEF True
  <2> QED
    BY <1>3, <2>2, <2>3
<1> HIDE DEF st
<1>9. c \in Contexts /\ IsView(c) /\ Active(c) = Active(copy[a]) /\ c.subs[i] = st
      /\ \A j \in Items \ {i} : c.subs[j] = copy[a].subs[j]
  <2>1. \A m \in Nodes : copy[a].subs[i][m].status = "FAILED" => st[m].status = "FAILED"
    BY <1>8
  <2> QED
    BY <1>3, <1>8, <2>1, BodyFits, Zenon
<1> HIDE DEF c
<1>10. k \in Calls /\ k.items = call[a].items /\ k.ready = call[a].ready \ {n}
  BY <1>3 DEF Calls
<1> HIDE DEF k
<1>11. place \in {"tick", "dispatch"} /\ (place = "dispatch" <=> k.ready # {})
  BY <1>3, <1>10
<1> HIDE DEF place
<1>12. Fits(place, k, c)
  <2>1. k.items # {} /\ k.items \subseteq Active(c)
    BY <1>3, <1>9, <1>10 DEF Fits
  <2>2. ASSUME NEW m \in k.ready PROVE c.subs[First(k.items)][m].status = "PENDING"
    <3>1. First(k.items) = i /\ c.subs[i] = st
      BY <1>9, <1>10 DEF i
    <3>2. m \in call[a].ready /\ m \in Nodes /\ m # n
      BY <1>3, <1>10 DEF Calls
    <3>3. copy[a].subs[i][m].status = "PENDING"
      BY <1>3, <3>2 DEF Fits, i
    <3> QED
      BY <1>8, <3>1, <3>2, <3>3
  <2> QED
    BY <1>11, <2>1, <2>2 DEF Fits
<1>13. Sound(a, c, k, place)
  <2>1. \A j \in Items : True(c.subs[j], tasks'[j], picks[j])
    BY <1>7, <1>8, <1>9
  <2> QED
    BY <1>9, <1>10, <1>11, <1>12, <2>1 DEF Sound, Places
<1>14. /\ copy' \in [Actors -> Contexts] /\ call' \in [Actors -> Calls] /\ pc' \in [Actors -> Places]
       /\ Views' /\ AllTrue' /\ Calling'
  BY <1>1, <1>4, <1>5, <1>13, TurnFits
<1>15. Types'
  BY <1>1, <1>5, <1>14 DEF Types
<1> QED
  BY <1>5, <1>14, <1>15 DEF Shape

\* The status of an open job changes.
Moves(i, n, k, s) ==
  /\ k \in DOMAIN tasks[i][n] /\ tasks[i][n][k] \in OpenTask
  /\ tasks' = [tasks EXCEPT ![i][n][k] = s]

LEMMA JobMoves ==
  ASSUME Types, NEW i \in Items, NEW n \in Actions, NEW k, NEW s \in TaskStatuses, Moves(i, n, k, s)
  PROVE  /\ TasksLast
         /\ tasks' \in [Items -> [Nodes -> Seq(TaskStatuses)]]
         /\ \A j \in Items, m \in Nodes : Len(tasks'[j][m]) <= IF m \in Actions THEN MaxTasks ELSE 0
         /\ \A j \in Items, m \in Nodes : DOMAIN tasks'[j][m] = DOMAIN tasks[j][m]
         /\ \A j \in Items, m \in Nodes : \A l \in DOMAIN tasks[j][m] :
              tasks'[j][m][l] = IF j = i /\ m = n /\ l = k THEN s ELSE tasks[j][m][l]
<1> DEFINE q == tasks[i][n]
           r == [q EXCEPT ![k] = s]
<1>1. q \in Seq(TaskStatuses) /\ n \in Nodes
  BY Kind DEF Types
<1>2. /\ r \in Seq(TaskStatuses) /\ Len(r) = Len(q) /\ DOMAIN r = DOMAIN q
      /\ \A l \in DOMAIN q : r[l] = IF l = k THEN s ELSE q[l]
  BY <1>1 DEF Moves
<1>3. /\ tasks' \in [Items -> [Nodes -> Seq(TaskStatuses)]]
      /\ \A j \in Items, m \in Nodes : tasks'[j][m] = IF j = i /\ m = n THEN r ELSE tasks[j][m]
  <2>1. tasks' = [tasks EXCEPT ![i] = [tasks[i] EXCEPT ![n] = r]]
    BY DEF Moves
  <2> HIDE DEF r
  <2>2. tasks[i] \in [Nodes -> Seq(TaskStatuses)]
    BY DEF Types
  <2>3. /\ [tasks[i] EXCEPT ![n] = r] \in [Nodes -> Seq(TaskStatuses)]
        /\ \A m \in Nodes : [tasks[i] EXCEPT ![n] = r][m] = IF m = n THEN r ELSE tasks[i][m]
    BY <1>2, <2>2
  <2>4. tasks \in [Items -> [Nodes -> Seq(TaskStatuses)]]
    BY DEF Types
  <2>5. tasks' \in [Items -> [Nodes -> Seq(TaskStatuses)]]
    BY <2>1, <2>3, <2>4
  <2>6. \A j \in Items : tasks'[j] = IF j = i THEN [tasks[i] EXCEPT ![n] = r] ELSE tasks[j]
    BY <2>1, <2>4
  <2> QED
    BY <2>3, <2>5, <2>6
<1> HIDE DEF r
<1>4. \A j \in Items, m \in Nodes : Len(tasks'[j][m]) <= IF m \in Actions THEN MaxTasks ELSE 0
  <2>1. \A j \in Items, m \in Nodes : Len(tasks[j][m]) <= IF m \in Actions THEN MaxTasks ELSE 0
    BY DEF Types
  <2>2. \A j \in Items, m \in Nodes : Len(tasks'[j][m]) = Len(tasks[j][m])
    BY <1>2, <1>3
  <2> QED
    BY <2>1, <2>2
<1>5. \A j \in Items, m \in Nodes : DOMAIN tasks'[j][m] = DOMAIN tasks[j][m]
  BY <1>2, <1>3
<1>6. \A j \in Items, m \in Nodes : \A l \in DOMAIN tasks[j][m] :
        tasks'[j][m][l] = IF j = i /\ m = n /\ l = k THEN s ELSE tasks[j][m][l]
  BY <1>2, <1>3
<1>7. TasksLast
  BY <1>5, <1>6 DEF TasksLast, Lasting, Moves
<1> QED
  BY <1>3, <1>4, <1>5, <1>6, <1>7

\* An actor goes to or from its work on a job.
LEMMA WorkerTurn ==
  ASSUME Shape, NEW a \in Actors, NEW place \in {"working", "called"}, pc[a] \in {"idle", "working"},
         pc' = [pc EXCEPT ![a] = place], doing' \in [Actors -> SUBSET Jobs], Hands', TasksLast,
         tasks' \in [Items -> [Nodes -> Seq(TaskStatuses)]],
         \A j \in Items, m \in Nodes : Len(tasks'[j][m]) <= IF m \in Actions THEN MaxTasks ELSE 0,
         UNCHANGED <<kind, picks, run, context, copy, call, overlaps, lost>>
  PROVE  Shape'
<1>1. Turns(a, copy[a], call[a], place)
  BY Here DEF Turns
<1>2. \A i \in Items : True(copy[a].subs[i], tasks'[i], picks[i])
  BY Here, TrueLasts DEF TasksLast
<1>3. Sound(a, copy[a], call[a], place)
  <2>1. call[a].items = {} /\ call[a].ready = {}
    BY Here DEF Fits
  <2> QED
    BY <1>2, <2>1, Here DEF Sound, Fits, Places
<1>4. /\ copy' \in [Actors -> Contexts] /\ call' \in [Actors -> Calls] /\ pc' \in [Actors -> Places]
      /\ Views' /\ AllTrue' /\ Calling'
  BY <1>1, <1>3, TurnFits
<1>5. Types'
  BY <1>4 DEF Shape, Types
<1> QED
  BY <1>4, <1>5 DEF Shape

LEMMA TaskTakenShape ==
  ASSUME Shape, NEW a \in Actors, NEW i \in Items, NEW n \in Actions, TaskTaken(a, i, n)
  PROVE  Shape'
<1>1. pc[a] = "idle" /\ UNCHANGED <<kind, picks, run, context, copy, call, overlaps, lost>>
      /\ pc' = [pc EXCEPT ![a] = "working"]
  BY DEF TaskTaken, Goto
<1>2. PICK k \in DOMAIN tasks[i][n] :
        /\ tasks[i][n][k] = "QUEUED"
        /\ tasks' = [tasks EXCEPT ![i][n][k] = "RUNNING"]
        /\ doing' = [doing EXCEPT ![a] = {<<i, n, k>>}]
  BY DEF TaskTaken
<1>3. Types /\ Hands /\ doing \in [Actors -> SUBSET Jobs] /\ pc \in [Actors -> Places]
  BY DEF Shape, Types
<1>4. /\ TasksLast
      /\ tasks' \in [Items -> [Nodes -> Seq(TaskStatuses)]]
      /\ \A j \in Items, m \in Nodes : Len(tasks'[j][m]) <= IF m \in Actions THEN MaxTasks ELSE 0
      /\ \A j \in Items, m \in Nodes : DOMAIN tasks'[j][m] = DOMAIN tasks[j][m]
      /\ \A j \in Items, m \in Nodes : \A l \in DOMAIN tasks[j][m] :
           tasks'[j][m][l] = IF j = i /\ m = n /\ l = k THEN "RUNNING" ELSE tasks[j][m][l]
  <2>1. "RUNNING" \in TaskStatuses /\ Moves(i, n, k, "RUNNING")
    BY <1>2 DEF TaskStatuses, OpenTask, Moves
  <2> QED
    BY <1>3, <2>1, JobMoves
<1>5. <<i, n, k>> \in Jobs
  <2>1. tasks[i][n] \in Seq(TaskStatuses)
    BY <1>3, Kind DEF Types
  <2> QED
    BY <1>2, <2>1 DEF Jobs
<1>6. /\ doing' \in [Actors -> SUBSET Jobs]
      /\ \A b \in Actors : doing'[b] = IF b = a THEN {<<i, n, k>>} ELSE doing[b]
      /\ \A b \in Actors : pc'[b] = IF b = a THEN "working" ELSE pc[b]
  BY <1>1, <1>2, <1>3, <1>5
<1>7. Hands'
  <2>1. \A b \in Actors : <<i, n, k>> \notin doing[b]
    BY <1>2, <1>3 DEF Hands
  <2>2. \A b \in Actors : doing'[b] # {} <=> pc'[b] = "working"
    BY <1>3, <1>6 DEF Hands
  <2>3. \A b \in Actors : \A j, l \in doing'[b] : j = l
    BY <1>3, <1>6 DEF Hands
  <2>4. \A b, d \in Actors : b # d => doing'[b] \cap doing'[d] = {}
    BY <1>3, <1>6, <2>1 DEF Hands
  <2>5. ASSUME NEW b \in Actors, NEW j \in doing'[b]
        PROVE  j[3] \in DOMAIN tasks'[j[1]][j[2]] /\ tasks'[j[1]][j[2]][j[3]] = "RUNNING"
    <3>1. CASE b = a
      BY <1>2, <1>4, <1>6, <3>1, Kind
    <3>2. CASE b # a
      <4>1. j \in doing[b] /\ j[1] \in Items /\ j[2] \in Nodes
        BY <1>3, <1>6, <3>2, Kind DEF Jobs
      <4>2. j[3] \in DOMAIN tasks[j[1]][j[2]] /\ tasks[j[1]][j[2]][j[3]] = "RUNNING"
        BY <1>3, <4>1 DEF Hands
      <4> QED
        BY <1>4, <4>1, <4>2
    <3> QED
      BY <3>1, <3>2
  <2> QED
    BY <2>2, <2>3, <2>4, <2>5 DEF Hands
<1> QED
  BY <1>1, <1>4, <1>6, <1>7, WorkerTurn

LEMMA TaskEndsShape ==
  ASSUME Shape, NEW a \in Actors, TaskEnds(a)
  PROVE  Shape'
<1>1. pc[a] = "working" /\ UNCHANGED <<kind, picks, run, context, copy, call, overlaps, lost>>
      /\ pc' = [pc EXCEPT ![a] = "called"] /\ doing' = [doing EXCEPT ![a] = {}]
  BY DEF TaskEnds, Goto
<1>2. PICK outcome \in {"SUCCEEDED", "DEAD_LETTERED"}, t \in doing[a] :
        tasks' = [tasks EXCEPT ![t[1]][t[2]][t[3]] = outcome]
  BY DEF TaskEnds
<1>3. Types /\ Hands /\ doing \in [Actors -> SUBSET Jobs] /\ pc \in [Actors -> Places]
  BY DEF Shape, Types
<1>4. t[1] \in Items /\ t[2] \in Actions /\ t[3] \in DOMAIN tasks[t[1]][t[2]]
      /\ tasks[t[1]][t[2]][t[3]] = "RUNNING"
  BY <1>3 DEF Hands, Jobs
<1>5. /\ TasksLast
      /\ tasks' \in [Items -> [Nodes -> Seq(TaskStatuses)]]
      /\ \A j \in Items, m \in Nodes : Len(tasks'[j][m]) <= IF m \in Actions THEN MaxTasks ELSE 0
      /\ \A j \in Items, m \in Nodes : DOMAIN tasks'[j][m] = DOMAIN tasks[j][m]
      /\ \A j \in Items, m \in Nodes : \A l \in DOMAIN tasks[j][m] :
           tasks'[j][m][l] = IF j = t[1] /\ m = t[2] /\ l = t[3] THEN outcome ELSE tasks[j][m][l]
  <2>1. outcome \in TaskStatuses /\ Moves(t[1], t[2], t[3], outcome)
    BY <1>2, <1>4 DEF TaskStatuses, OpenTask, Moves
  <2> QED
    BY <1>3, <1>4, <2>1, JobMoves
<1>6. /\ doing' \in [Actors -> SUBSET Jobs]
      /\ \A b \in Actors : doing'[b] = IF b = a THEN {} ELSE doing[b]
      /\ \A b \in Actors : pc'[b] = IF b = a THEN "called" ELSE pc[b]
  BY <1>1, <1>3
<1>7. Hands'
  <2>1. ASSUME NEW b \in Actors, NEW j \in doing'[b]
        PROVE  j[3] \in DOMAIN tasks'[j[1]][j[2]] /\ tasks'[j[1]][j[2]][j[3]] = "RUNNING"
    <3>1. b # a /\ j \in doing[b] /\ j \in Jobs
      BY <1>3, <1>6
    <3>2. j = <<j[1], j[2], j[3]>> /\ j[1] \in Items /\ j[2] \in Nodes
      BY <3>1, Kind DEF Jobs
    <3>3. t = <<t[1], t[2], t[3]>>
      BY <1>3 DEF Jobs
    <3>4. j # t
      BY <1>2, <1>3, <3>1 DEF Hands
    <3>5. j[3] \in DOMAIN tasks[j[1]][j[2]] /\ tasks[j[1]][j[2]][j[3]] = "RUNNING"
      BY <1>3, <3>1 DEF Hands
    <3>6. ~(j[1] = t[1] /\ j[2] = t[2] /\ j[3] = t[3])
      BY <3>2, <3>3, <3>4
    <3> QED
      BY <1>5, <3>2, <3>5, <3>6
  <2> QED
    BY <1>3, <1>6, <2>1 DEF Hands
<1> QED
  BY <1>1, <1>5, <1>6, <1>7, WorkerTurn

LEMMA ShapeInit == ASSUME Init PROVE Shape
<1>1. Views
  BY BlankFits DEF Init, Views
<1>2. AllTrue
  BY BlankFits DEF Init, AllTrue, TrueView
<1>3. Calling
  BY BlankFits DEF Init, Calling, Places
<1>4. Types
  BY BlankFits, IterationAssumption, Kind DEF Init, Types, Places
<1>5. Hands
  BY DEF Init, Hands
<1> QED
  BY <1>1, <1>2, <1>3, <1>4, <1>5 DEF Shape

LEMMA ShapeStep == ASSUME Shape, [Next]_vars PROVE Shape'
<1>1. CASE UNCHANGED vars
  BY <1>1 DEF vars, Shape, Types, Hands, Views, AllTrue, TrueView, Calling
<1>2. CASE Next
  <2>1. PICK a \in Actors : Step(a) \/ Lose(a)
    BY <1>2 DEF Next
  <2> QED
    BY <2>1, CallerShape, TaskTakenShape, TaskEndsShape, ReadShape, PollShape, TickShape,
       DispatchShape, SaveShape, LoseShape DEF Step, Proceed
<1> QED
  BY <1>1, <1>2

\* Each field keeps to its values, whatever copy was saved last.
THEOREM TypeCorrect == Spec => []TypeOK
<1>1. ASSUME NEW c, IsView(c) PROVE IsContext(c)
  <2>1. \A i \in Items, n \in Nodes : c.subs[i][n].status \in NodeStatuses \ {"WAITING"}
    BY <1>1 DEF IsView, Contexts, Bodies, States
  <2> QED
    BY <1>1, <2>1 DEF IsView, IsContext, Contexts, NodePlaces
<1>2. Shape => TypeOK
  <2> SUFFICES ASSUME Shape PROVE TypeOK
    OBVIOUS
  <2>1. IsContext(context) /\ \A a \in Actors : IsContext(copy[a])
    BY <1>1 DEF Shape, Views
  <2>2. \A i \in Items, n \in Nodes : \A k \in DOMAIN tasks[i][n] :
          tasks[i][n][k] \in OpenTask \cup {"SUCCEEDED", "DEAD_LETTERED"}
    <3>1. \A i \in Items, n \in Nodes : tasks[i][n] \in Seq(TaskStatuses)
      BY DEF Shape, Types
    <3> QED
      BY <3>1 DEF TaskStatuses
  <2>3. \A a \in Actors : /\ call[a].gen \in 0 .. MaxGenerations
                          /\ call[a].items \subseteq Items /\ call[a].ready \subseteq Nodes
                          /\ pc[a] \in {"tick", "dispatch"} <=> call[a].items # {}
                          /\ pc[a] = "dispatch" <=> call[a].ready # {}
    BY Here DEF Calls, Fits
  <2> QED
    BY <2>1, <2>2, <2>3 DEF Shape, Types, Hands, TypeOK, Places
<1> QED
  BY <1>2, ShapeInit, ShapeStep, PTL DEF Spec

\* Whatever copy is saved last, what it says of a body node is what a job of it
\* did, and the node's own verdict is that of its items.
THEOREM VerdictBacked == Spec => []VerdictIsBacked
<1>1. Shape => VerdictIsBacked
  <2> SUFFICES ASSUME Shape PROVE VerdictIsBacked
    OBVIOUS
  <2>1. IsView(context) /\ \A i \in Items : True(context.subs[i], tasks[i], picks[i])
    BY DEF Shape, Views, AllTrue, TrueView
  <2>2. ASSUME NEW i \in Items, NEW n \in Actions
        PROVE  LET s == context.subs[i][n]
               IN  /\ s.status = "SUCCEEDED" => HasTask(i, n, "SUCCEEDED")
                   /\ s.status = "FAILED" \/ s.tag = "ignore" => HasTask(i, n, "DEAD_LETTERED")
    BY <2>1, Kind DEF True, Tells, Did, HasTask
  <2>3. context.node = "SUCCEEDED" => \A i \in Items : /\ AllSettled(context.subs[i])
                                                       /\ ~SubgraphHasFailure(context.subs[i])
    BY <2>1 DEF IsView, Through
  <2>4. context.node = "FAILED" => \E i \in Items : SubgraphHasFailure(context.subs[i])
    BY <2>1 DEF IsView
  <2> QED
    BY <2>2, <2>3, <2>4 DEF VerdictIsBacked
<1> QED
  BY <1>1, ShapeInit, ShapeStep, PTL DEF Spec

----------------------------------------------------------------------------
(* Numbers of items *)

\* r items for each of d + 1, and for each of no more than e.
LEMMA Product ==
  ASSUME NEW r \in Nat, NEW d \in Nat
  PROVE  /\ r * d \in Nat /\ r * (d + 1) = r * d + r
         /\ \A e \in Nat : d <= e => r * d <= r * e
<1>1. r * d \in Nat /\ r * (d + 1) = r * d + r
  OBVIOUS
<1>2. ASSUME NEW e \in Nat, d <= e PROVE r * d <= r * e
  <2>1. e - d \in Nat /\ e = d + (e - d)
    BY <1>2
  <2> DEFINE f == e - d
  <2>2. f \in Nat /\ e = d + f
    BY <2>1
  <2> HIDE DEF f
  <2>3. r * e = r * d + r * f /\ r * f \in Nat
    BY <2>2
  <2> QED
    BY <1>1, <2>3
<1> QED
  BY <1>1, <1>2

\* Sets of r elements at most, one for each element of S, have at most r times
\* as many elements together.  A smallest part of S for which they had more
\* would have one element less without any of its elements.
LEMMA UnionBound ==
  ASSUME NEW S, IsFiniteSet(S), NEW T, NEW F \in [S -> SUBSET T], NEW r \in Nat,
         \A x \in S : IsFiniteSet(F[x]) /\ Cardinality(F[x]) <= r
  PROVE  /\ IsFiniteSet(UNION {F[x] : x \in S})
         /\ Cardinality(UNION {F[x] : x \in S}) <= r * Cardinality(S)
<1> DEFINE All(P) == UNION {F[x] : x \in P}
           Good(P) == IsFiniteSet(All(P)) /\ Cardinality(All(P)) <= r * Cardinality(P)
           Bad == {m \in Nat : \E P \in SUBSET S : Cardinality(P) = m /\ ~Good(P)}
<1>1. ASSUME Bad # {} PROVE FALSE
  <2>1. First(Bad) \in Bad /\ \A m \in Bad : First(Bad) <= m
    BY <1>1, LeastItem
  <2>2. PICK P \in SUBSET S : Cardinality(P) = First(Bad) /\ ~Good(P)
    BY <2>1
  <2>3. IsFiniteSet(P)
    BY FS_Subset
  <2>4. P # {}
    <3>1. ASSUME P = {} PROVE Good(P)
      <4>1. All(P) = {} /\ Cardinality(P) = 0 /\ r * 0 = 0
        BY <3>1, FS_EmptySet
      <4> QED
        BY <4>1, FS_EmptySet
    <3> QED
      BY <2>2, <3>1
  <2>5. PICK x \in P : TRUE
    BY <2>4
  <2> DEFINE Q == P \ {x}
  <2>6. IsFiniteSet(Q) /\ Cardinality(Q) = Cardinality(P) - 1 /\ Cardinality(P) \in Nat /\ Cardinality(Q) \in Nat
    BY <2>3, <2>5, FS_RemoveElement, FS_CardinalityType
  <2>7. Cardinality(Q) \notin Bad
    <3> HIDE DEF Bad, Q
    <3>1. Cardinality(Q) < First(Bad) /\ First(Bad) \in Nat
      BY <2>2, <2>6
    <3> QED
      BY <2>1, <2>6, <3>1
  <2>8. Good(Q)
    BY <2>6, <2>7
  <2>9. All(P) = All(Q) \cup F[x]
    BY <2>5
  <2>10. IsFiniteSet(F[x]) /\ Cardinality(F[x]) <= r
    BY <2>5
  <2> HIDE DEF Q, All
  <2>11. /\ IsFiniteSet(All(P)) /\ Cardinality(All(P)) <= Cardinality(All(Q)) + Cardinality(F[x])
         /\ Cardinality(All(Q)) \in Nat /\ Cardinality(F[x]) \in Nat /\ Cardinality(All(P)) \in Nat
    <3>1. /\ IsFiniteSet(All(Q) \cup F[x])
          /\ Cardinality(All(Q) \cup F[x]) = Cardinality(All(Q)) + Cardinality(F[x]) - Cardinality(All(Q) \cap F[x])
      BY <2>8, <2>10, FS_Union
    <3>2. IsFiniteSet(All(Q) \cap F[x])
      BY <2>8, FS_Subset
    <3> QED
      BY <2>8, <2>9, <2>10, <3>1, <3>2, FS_CardinalityType
  <2>12. r * Cardinality(P) = r * Cardinality(Q) + r /\ r * Cardinality(Q) \in Nat
    <3>1. Cardinality(P) = Cardinality(Q) + 1
      BY <2>6
    <3> QED
      BY <2>6, <3>1, Product
  <2>13. Cardinality(All(P)) <= r * Cardinality(P)
    BY <2>8, <2>10, <2>11, <2>12
  <2> QED
    BY <2>2, <2>11, <2>13
<1>2. Cardinality(S) \in Nat
  BY FS_CardinalityType
<1> QED
  BY <1>1, <1>2

----------------------------------------------------------------------------
(* The items with jobs that are not over *)

\* Context c names the k-th job of node n of item i as the one it waits for.
Awaits(c, i, n, k) == c.subs[i][n].status = "RUNNING" /\ c.subs[i][n].task = k

IsOpen(i, n, k) == k \in DOMAIN tasks[i][n] /\ tasks[i][n][k] \in OpenTask

\* Every open job is awaited by a context of C, or is of an item of D.
Known(D, C) ==
  \A i \in Items, n \in Actions : \A k : IsOpen(i, n, k) => i \in D \/ \E c \in C : Awaits(c, i, n, k)

Copies == {copy[a] : a \in Advancing}

\* D holds the items of d contexts that were overwritten or lost.  While no
\* advance is under way the saved context knows the other jobs, and while some
\* are, their copies do; what is saved in between does not matter, since it is
\* overwritten by the last of them.
Accounted(D, d) ==
  /\ D \subseteq Items /\ Cardinality(D) <= Room * d
  /\ Advancing = {} => d <= overlaps + lost /\ Known(D, {context})
  /\ Advancing # {} => d + Cardinality(Advancing) <= 1 + overlaps + lost /\ Known(D, Copies)

\* No context has more items under way than there is room for.
Narrow == Cardinality(Active(context)) <= Room /\ \A a \in Actors : Cardinality(Active(copy[a])) <= Room

Limits == Narrow /\ IsFiniteSet(Advancing) /\ \E D \in SUBSET Items, d \in Nat : Accounted(D, d)

AdvancePlaces == {"starting", "poll", "tick", "dispatch", "save"}

LEMMA AdvancingAre == ASSUME Types PROVE Advancing = {a \in Actors : pc[a] \in AdvancePlaces}
  BY DEF Types, Places, Advancing, AdvancePlaces

\* A context awaits jobs of the items under way in it only.
LEMMA AwaitedAreActive ==
  ASSUME NEW c \in Contexts, IsView(c), NEW i \in Items, NEW n \in Actions, NEW k, Awaits(c, i, n, k)
  PROVE  i \in Active(c)
<1>1. n \in Nodes /\ c.subs[i][n].status = "RUNNING"
  BY Kind DEF Awaits
<1>2. i \notin c.done
  BY <1>1 DEF IsView, Through, AllSettled, Settled, Terminal
<1>3. ~(i > c.started)
  BY <1>1 DEF IsView, FreshBody, Fresh, State
<1> QED
  BY <1>2, <1>3, ActiveItems

\* Where the actors are after the step of one.
LEMMA PlacesAfter ==
  ASSUME Types, NEW a \in Actors, NEW place \in Places, pc' = [pc EXCEPT ![a] = place]
  PROVE  Advancing' = IF place \in AdvancePlaces THEN Advancing \cup {a} ELSE Advancing \ {a}
<1>1. \A b \in Actors : pc'[b] = IF b = a THEN place ELSE pc[b]
  BY DEF Types
<1>2. Advancing' = {b \in Actors : pc'[b] \notin {"idle", "working", "called"}}
  BY DEF Advancing
<1>3. place \in AdvancePlaces <=> place \notin {"idle", "working", "called"}
  BY DEF Places, AdvancePlaces
<1> QED
  BY <1>1, <1>2, <1>3 DEF Advancing

LEMMA NarrowTurn ==
  ASSUME Shape, Narrow, NEW a \in Actors, NEW c, NEW k, NEW place, Turns(a, c, k, place),
         Cardinality(Active(c)) <= Room, kind' = kind, context' = context \/ context' = copy[a]
  PROVE  Narrow'
<1>1. \A b \in Actors : copy'[b] = IF b = a THEN c ELSE copy[b]
  BY DEF Shape, Types, Turns
<1>2. Room' = Room
  BY DEF Room
<1> QED
  BY <1>1, <1>2 DEF Narrow, Active

\* An advance goes on: each open job was open before and is awaited by the
\* copy after the step if it was before, or is a new one that the copy awaits.
LEMMA AdvanceGoesOn ==
  ASSUME Shape, Limits, NEW a \in Advancing, NEW c, NEW k, NEW place \in AdvancePlaces, Turns(a, c, k, place),
         Cardinality(Active(c)) <= Room, UNCHANGED <<kind, context, overlaps, lost>>,
         \A i \in Items, n \in Actions : \A l : IsOpen(i, n, l)' =>
            \/ Awaits(c, i, n, l)
            \/ IsOpen(i, n, l) /\ ~Awaits(copy[a], i, n, l)
  PROVE  Limits'
<1>1. a \in Actors /\ Types /\ place \in Places
  BY DEF Shape, Advancing, Places, AdvancePlaces
<1>2. Narrow'
  BY <1>1, NarrowTurn DEF Limits
<1>3. Advancing' = Advancing
  BY <1>1, PlacesAfter DEF Turns
<1>4. \A b \in Actors : copy'[b] = IF b = a THEN c ELSE copy[b]
  BY <1>1 DEF Types, Turns
<1>5. PICK D \in SUBSET Items, d \in Nat : Accounted(D, d)
  BY DEF Limits
<1>6. Room' = Room
  BY DEF Room
<1>7. Known(D, Copies)'
  <2>0. \A b \in Advancing : copy'[b] \in Copies'
    BY <1>3 DEF Copies
  <2> SUFFICES ASSUME NEW i \in Items, NEW n \in Actions, NEW l, IsOpen(i, n, l)', i \notin D
               PROVE  \E b \in Advancing : Awaits(copy'[b], i, n, l)
    BY <2>0 DEF Known, Awaits
  <2>1. CASE Awaits(c, i, n, l)
    BY <1>1, <1>4, <2>1
  <2>2. CASE IsOpen(i, n, l) /\ ~Awaits(copy[a], i, n, l)
    <3>1. PICK b \in Advancing : Awaits(copy[b], i, n, l)
      BY <1>5, <2>2 DEF Accounted, Known, Copies
    <3>2. b # a /\ b \in Actors
      BY <2>2, <3>1 DEF Advancing
    <3> QED
      BY <1>4, <3>1, <3>2
  <2> QED
    BY <2>1, <2>2
<1>8. Accounted(D, d)'
  BY <1>3, <1>5, <1>6, <1>7 DEF Accounted
<1> QED
  BY <1>2, <1>3, <1>8 DEF Limits

\* It does so, in particular, when it changes no body and creates no job.
LEMMA SameBodies ==
  ASSUME Shape, Limits, NEW a \in Advancing, NEW c, NEW k, NEW place \in AdvancePlaces, Turns(a, c, k, place),
         Cardinality(Active(c)) <= Room, c.subs = copy[a].subs, UNCHANGED <<kind, context, tasks, overlaps, lost>>
  PROVE  Limits'
<1>1. \A i, n, l : Awaits(c, i, n, l) <=> Awaits(copy[a], i, n, l)
  BY DEF Awaits
<1>2. \A i, n, l : IsOpen(i, n, l)' <=> IsOpen(i, n, l)
  BY DEF IsOpen
<1> QED
  BY <1>1, <1>2, AdvanceGoesOn

\* A context that has fewer items under way has room for them too.
LEMMA FewerActive ==
  ASSUME NEW c \in Contexts, NEW d \in Contexts, Types, Cardinality(Active(c)) <= Room,
         d.started = c.started, c.done \subseteq d.done
  PROVE  Cardinality(Active(d)) <= Room
<1>1. Active(d) \subseteq Active(c)
  BY DEF Active
<1>2. Cardinality(Active(d)) <= Cardinality(Active(c))
  BY <1>1, ActiveFinite, FS_Subset
<1> QED
  BY <1>2, ActiveFinite, RoomFits

LEMMA HereNarrow ==
  ASSUME Shape, Limits, NEW a \in Actors
  PROVE  /\ copy[a] \in Contexts /\ call[a] \in Calls /\ Types /\ IsView(copy[a])
         /\ Cardinality(Active(copy[a])) <= Room
         /\ context \in Contexts /\ IsView(context) /\ Cardinality(Active(context)) <= Room
         /\ pc[a] \in AdvancePlaces => a \in Advancing
  BY Here, AdvancingAre DEF Shape, Limits, Narrow

\* Nothing but what is said of the jobs has changed.
LEMMA SameCopies ==
  ASSUME Shape, Limits, Advancing' = Advancing, UNCHANGED <<kind, context, copy, overlaps, lost>>,
         \A i \in Items, n \in Actions : \A l : IsOpen(i, n, l)' => IsOpen(i, n, l)
  PROVE  Limits'
<1>1. Room' = Room
  BY DEF Room
<1>2. Narrow'
  BY <1>1 DEF Limits, Narrow, Active
<1>3. PICK D \in SUBSET Items, d \in Nat : Accounted(D, d)
  BY DEF Limits
<1>4. \A C : Known(D, C) => Known(D, C)'
  BY DEF Known, Awaits
<1>5. Copies' = Copies /\ {context}' = {context}
  BY DEF Copies
<1>6. Accounted(D, d)'
  <2>1. Known(D, Copies) => Known(D, Copies)'
    BY <1>5 DEF Known, Awaits
  <2>2. Known(D, {context}) => Known(D, {context})'
    BY <1>5 DEF Known, Awaits
  <2> QED
    BY <1>1, <1>3, <2>1, <2>2 DEF Accounted
<1> QED
  BY <1>2, <1>6 DEF Limits

\* A worker takes up a job, or ends it: no job is opened.
LEMMA WorkerOpens ==
  ASSUME Shape, NEW a \in Actors,
         TaskEnds(a) \/ \E i \in Items, n \in Actions : TaskTaken(a, i, n)
  PROVE  \A i \in Items, n \in Actions : \A l : IsOpen(i, n, l)' => IsOpen(i, n, l)
<1>1. PICK i \in Items, n \in Actions, s \in TaskStatuses : \E k : Moves(i, n, k, s)
  <2>1. CASE TaskEnds(a)
    <3>1. PICK outcome \in {"SUCCEEDED", "DEAD_LETTERED"}, t \in doing[a] :
            tasks' = [tasks EXCEPT ![t[1]][t[2]][t[3]] = outcome]
      BY <2>1 DEF TaskEnds
    <3>2. t[1] \in Items /\ t[2] \in Actions /\ t[3] \in DOMAIN tasks[t[1]][t[2]]
          /\ tasks[t[1]][t[2]][t[3]] = "RUNNING" /\ outcome \in TaskStatuses
      BY DEF Shape, Types, Hands, Jobs, TaskStatuses
    <3>3. Moves(t[1], t[2], t[3], outcome)
      BY <3>1, <3>2 DEF Moves, OpenTask
    <3> QED
      BY <3>2, <3>3
  <2>2. CASE \E i \in Items, n \in Actions : TaskTaken(a, i, n)
    <3>1. PICK i \in Items, n \in Actions : TaskTaken(a, i, n)
      BY <2>2
    <3>2. \E k : Moves(i, n, k, "RUNNING")
      BY <3>1 DEF TaskTaken, Moves, OpenTask
    <3>3. "RUNNING" \in TaskStatuses
      BY DEF TaskStatuses, OpenTask
    <3> QED
      BY <3>2, <3>3, Zenon
  <2> QED
    BY <2>1, <2>2
<1>2. PICK k : Moves(i, n, k, s)
  BY <1>1
<1>3. \A j \in Items, m \in Nodes :
        /\ DOMAIN tasks'[j][m] = DOMAIN tasks[j][m]
        /\ \A l \in DOMAIN tasks[j][m] : tasks'[j][m][l] = IF j = i /\ m = n /\ l = k THEN s ELSE tasks[j][m][l]
  BY <1>2, JobMoves DEF Shape
<1> QED
  BY <1>2, <1>3, Kind DEF IsOpen, Moves

LEMMA CallerLimit ==
  ASSUME Shape, Limits, NEW a \in Actors,
         \/ CronPicks(a)
         \/ TaskEnds(a) \/ \E i \in Items, n \in Actions : TaskTaken(a, i, n)
  PROVE  Limits'
<1>1. UNCHANGED <<kind, context, copy, overlaps, lost>> /\ pc[a] \in {"idle", "working"}
      /\ \E place \in {"called", "working"} : pc' = [pc EXCEPT ![a] = place]
  BY DEF CronPicks, TaskEnds, TaskTaken, Goto
<1>2. Advancing' = Advancing
  <2>1. PICK place \in {"called", "working"} : pc' = [pc EXCEPT ![a] = place]
    BY <1>1
  <2>2. place \in Places /\ place \notin AdvancePlaces /\ a \notin Advancing /\ Types
    BY <1>1 DEF Places, AdvancePlaces, Advancing, Shape
  <2>3. Advancing' = IF place \in AdvancePlaces THEN Advancing \cup {a} ELSE Advancing \ {a}
    BY <2>1, <2>2, PlacesAfter
  <2> QED
    BY <2>2, <2>3
<1>3. \A i \in Items, n \in Actions : \A l : IsOpen(i, n, l)' => IsOpen(i, n, l)
  <2>1. CASE CronPicks(a)
    <3>1. tasks' = tasks
      BY <2>1 DEF CronPicks
    <3> QED
      BY <3>1 DEF IsOpen
  <2>2. CASE TaskEnds(a) \/ \E i \in Items, n \in Actions : TaskTaken(a, i, n)
    BY <2>2, WorkerOpens
  <2> QED
    BY <2>1, <2>2
<1> QED
  BY <1>1, <1>2, <1>3, SameCopies

\* An advance that begins alone takes what the saved context awaits with it;
\* one that begins beside others brings a copy more.
LEMMA ReadLimit ==
  ASSUME Shape, Limits, NEW a \in Actors, Read(a)
  PROVE  Limits'
<1>1. /\ pc[a] = "called" /\ UNCHANGED <<kind, context, tasks, lost>>
      /\ a \notin Advancing /\ Types
  BY DEF Read, Advancing, Shape
<1>2. CASE run \in TerminalRun
  <2>1. UNCHANGED <<copy, overlaps>> /\ pc' = [pc EXCEPT ![a] = "idle"]
    BY <1>2 DEF Read, Goto
  <2>2. Advancing' = Advancing
    <3>1. "idle" \in Places /\ "idle" \notin AdvancePlaces
      BY DEF Places, AdvancePlaces
    <3> QED
      BY <1>1, <2>1, <3>1, PlacesAfter
  <2>3. \A i \in Items, n \in Actions : \A l : IsOpen(i, n, l)' => IsOpen(i, n, l)
    BY <1>1 DEF IsOpen
  <2> QED
    BY <1>1, <2>1, <2>2, <2>3, SameCopies
<1>3. CASE run \notin TerminalRun
  <2> DEFINE c == [context EXCEPT !.node = "RUNNING"]
             k == [call[a] EXCEPT !.gen = IF context.node = "PENDING" THEN 2 ELSE 0]
  <2>1. PICK place \in {"starting", "poll"} : Turns(a, c, k, place)
    BY <1>3, Here DEF Read, DispatchNode, Turns, Goto
  <2>2. c \in Contexts /\ c.subs = context.subs /\ c.done = context.done /\ c.started = context.started
    BY HereNarrow DEF Contexts, NodePlaces
  <2>3. IF Advancing = {} THEN overlaps' = overlaps ELSE overlaps' = overlaps + 1
    BY <1>3 DEF Read
  <2> HIDE DEF c, k
  <2>4. Cardinality(Active(c)) <= Room
    BY <2>2, HereNarrow, FewerActive
  <2>5. Narrow'
    BY <1>1, <2>1, <2>4, NarrowTurn DEF Limits
  <2>6. Advancing' = Advancing \cup {a} /\ Advancing' # {}
    BY <1>1, <2>1, PlacesAfter DEF Turns, Places, AdvancePlaces
  <2>7. /\ IsFiniteSet(Advancing') /\ Cardinality(Advancing') = Cardinality(Advancing) + 1
        /\ Cardinality(Advancing) \in Nat /\ (Advancing = {} => Cardinality(Advancing) = 0)
    BY <1>1, <2>6, FS_AddElement, FS_CardinalityType, FS_EmptySet DEF Limits
  <2>8. PICK D \in SUBSET Items, d \in Nat : Accounted(D, d)
    BY DEF Limits
  <2>9. \A b \in Actors : copy'[b] = IF b = a THEN c ELSE copy[b]
    BY <1>1, <2>1 DEF Types, Turns
  <2>10. Known(D, Copies)'
    <3>0. \A b \in Advancing' : copy'[b] \in Copies'
      BY DEF Copies
    <3> SUFFICES ASSUME NEW i \in Items, NEW n \in Actions, NEW l, IsOpen(i, n, l), i \notin D
                 PROVE  \E b \in Advancing' : Awaits(copy'[b], i, n, l)
      BY <1>1, <3>0 DEF Known, Awaits, IsOpen
    <3>1. CASE Advancing = {}
      <4>1. Awaits(context, i, n, l)
        BY <2>8, <3>1 DEF Accounted, Known
      <4>2. Awaits(c, i, n, l)
        BY <2>2, <4>1 DEF Awaits
      <4> QED
        BY <2>6, <2>9, <4>2
    <3>2. CASE Advancing # {}
      <4>1. PICK b \in Advancing : Awaits(copy[b], i, n, l)
        BY <2>8, <3>2 DEF Accounted, Known, Copies
      <4>2. b # a /\ b \in Actors
        BY <1>1 DEF Advancing
      <4> QED
        BY <2>6, <2>9, <4>1, <4>2
    <3> QED
      BY <3>1, <3>2
  <2>11. d + Cardinality(Advancing') <= 1 + overlaps' + lost'
    BY <1>1, <2>3, <2>7, <2>8, Here DEF Accounted
  <2>12. Room' = Room
    BY <1>1 DEF Room
  <2>13. Accounted(D, d)'
    BY <2>6, <2>8, <2>10, <2>11, <2>12 DEF Accounted
  <2> QED
    BY <2>5, <2>7, <2>13 DEF Limits
<1> QED
  BY <1>2, <1>3

LEMMA StartingLimit ==
  ASSUME Shape, Limits, NEW a \in Actors, WriteRunning(a)
  PROVE  Limits'
<1>1. Turns(a, copy[a], call[a], "poll") /\ pc[a] = "starting" /\ UNCHANGED <<kind, context, tasks, overlaps, lost>>
  BY Here DEF WriteRunning, Turns, Goto
<1>2. a \in Advancing /\ "poll" \in AdvancePlaces
  BY <1>1, HereNarrow DEF AdvancePlaces
<1> QED
  BY <1>1, <1>2, HereNarrow, SameBodies

LEMMA PollLimit ==
  ASSUME Shape, Limits, NEW a \in Actors, Poll(a)
  PROVE  Limits'
<1>1. pc[a] = "poll" /\ UNCHANGED <<kind, context, tasks, overlaps, lost>>
  BY DEF Poll
<1>2. a \in Advancing /\ "save" \in AdvancePlaces /\ "tick" \in AdvancePlaces
  BY <1>1, HereNarrow DEF AdvancePlaces
<1>3. CASE call[a].gen = MaxGenerations
  <2>1. Turns(a, copy[a], call[a], "save")
    BY <1>3, Here DEF Poll, Turns, Goto
  <2> QED
    BY <1>1, <1>2, <2>1, HereNarrow, SameBodies
<1>4. CASE call[a].gen # MaxGenerations /\ copy[a].done = Items
  <2> DEFINE c == [copy[a] EXCEPT !.node = "SUCCEEDED"]
  <2>1. Turns(a, c, call[a], "save")
    BY <1>4, Here DEF Poll, Turns, Goto
  <2>2. c \in Contexts /\ c.subs = copy[a].subs /\ c.done = copy[a].done /\ c.started = copy[a].started
    BY HereNarrow DEF Contexts, NodePlaces
  <2> HIDE DEF c
  <2>3. Cardinality(Active(c)) <= Room
    BY <2>2, HereNarrow, FewerActive
  <2> QED
    BY <1>1, <1>2, <2>1, <2>2, <2>3, SameBodies
<1>5. CASE call[a].gen # MaxGenerations /\ copy[a].done # Items
  <2> DEFINE c == Start(copy[a])
             k == [items |-> Active(c), ready |-> {}, gen |-> call[a].gen + 1, moved |-> FALSE]
  <2>1. Turns(a, c, k, "tick")
    BY <1>5, Here DEF Poll, Turns, Goto
  <2>2. c.subs = copy[a].subs /\ Cardinality(Active(c)) <= Room
    BY HereNarrow, StartFits
  <2> HIDE DEF c, k
  <2> QED
    BY <1>1, <1>2, <2>1, <2>2, SameBodies
<1> QED
  BY <1>3, <1>4, <1>5

LEMMA NextLimit ==
  ASSUME Shape, Limits, NEW a \in Actors, pc[a] = "tick", NEW c \in Contexts, NEW moved,
         c.subs = copy[a].subs, c.started = copy[a].started, copy[a].done \subseteq c.done,
         NextItem(a, c, moved), UNCHANGED <<kind, context, tasks, overlaps, lost>>
  PROVE  Limits'
<1> DEFINE i == First(call[a].items)
           rest == call[a].items \ {i}
           over == rest = {} /\ kind = "map" /\ c.done = Items
           d == IF over THEN [c EXCEPT !.node = "SUCCEEDED"] ELSE c
           k == [call[a] EXCEPT !.items = rest, !.moved = moved]
           place == IF rest # {} THEN "tick" ELSE IF moved /\ ~over THEN "poll" ELSE "save"
<1>1. Turns(a, d, k, place)
  BY Here DEF NextItem, Turns, Goto
<1>2. d \in Contexts /\ d.subs = c.subs /\ d.done = c.done /\ d.started = c.started
  <2>1. d = c \/ d = [c EXCEPT !.node = "SUCCEEDED"]
    OBVIOUS
  <2> HIDE DEF d
  <2> QED
    BY <2>1 DEF Contexts, NodePlaces
<1>3. a \in Advancing /\ place \in AdvancePlaces
  BY HereNarrow DEF AdvancePlaces
<1> HIDE DEF d, k, place
<1>4. Cardinality(Active(d)) <= Room
  BY <1>2, HereNarrow, FewerActive
<1> QED
  BY <1>1, <1>2, <1>3, <1>4, SameBodies

LEMMA LeaveLimit ==
  ASSUME Shape, Limits, NEW a \in Actors, pc[a] = "tick", NEW i, i = First(call[a].items),
         LeaveItem(a, i, copy[a]), UNCHANGED <<kind, context, tasks, overlaps, lost>>
  PROVE  Limits'
<1> DEFINE c == copy[a]
<1>1. i \in Items /\ c \in Contexts /\ call[a] \in Calls
  BY Here, ItemInTurn
<1>2. CASE ~AllSettled(c.subs[i])
  <2>1. NextItem(a, c, call[a].moved)
    BY <1>2 DEF LeaveItem
  <2> QED
    BY <1>1, <2>1, NextLimit
<1>3. CASE AllSettled(c.subs[i]) /\ SubgraphHasFailure(c.subs[i])
  <2> DEFINE d == [c EXCEPT !.node = "FAILED"]
             k == [call[a] EXCEPT !.items = {}]
  <2>1. Turns(a, d, k, "save")
    BY <1>3, Here DEF LeaveItem, Turns, Goto
  <2>2. d \in Contexts /\ d.subs = c.subs /\ d.done = c.done /\ d.started = c.started
    BY <1>1 DEF Contexts, NodePlaces
  <2>3. a \in Advancing /\ "save" \in AdvancePlaces
    BY HereNarrow DEF AdvancePlaces
  <2> HIDE DEF d, k
  <2>4. Cardinality(Active(d)) <= Room
    BY <2>2, HereNarrow, FewerActive
  <2> QED
    BY <2>1, <2>2, <2>3, <2>4, SameBodies
<1>4. CASE AllSettled(c.subs[i]) /\ ~SubgraphHasFailure(c.subs[i])
  <2> DEFINE d == [c EXCEPT !.done = @ \cup {i}]
  <2>1. NextItem(a, d, TRUE)
    BY <1>4 DEF LeaveItem
  <2>2. /\ d \in Contexts /\ d.subs = c.subs /\ d.done = c.done \cup {i} /\ d.started = c.started
    BY <1>1 DEF Contexts
  <2> HIDE DEF d
  <2> QED
    BY <2>1, <2>2, NextLimit
<1> QED
  BY <1>2, <1>3, <1>4

\* A scan lets go of a job only when it is over.
LEMMA TickLimit ==
  ASSUME Shape, Limits, NEW a \in Actors, Tick(a)
  PROVE  Limits'
<1> DEFINE i      == First(call[a].items)
           before == copy[a].subs[i]
           polled == [n \in Nodes |-> Polled(i, n, before[n])]
           st     == MarkSkipped(polled)
           c      == [copy[a] EXCEPT !.subs[i] = st]
           ready  == ReadyNodes(polled)
           k      == [call[a] EXCEPT !.ready = ready, !.moved = TRUE]
           place  == IF ready = {} THEN "tick" ELSE "dispatch"
<1>1. pc[a] = "tick" /\ UNCHANGED <<kind, context, tasks, overlaps, lost>>
  BY DEF Tick
<1>2. IF ready = {} /\ c.subs[i] = before THEN LeaveItem(a, i, c) ELSE Turns(a, c, k, place)
  <2>1. IF ready = {} /\ c.subs[i] = before THEN LeaveItem(a, i, c)
        ELSE /\ copy' = [copy EXCEPT ![a] = c]
             /\ call' = [call EXCEPT ![a].ready = ready, ![a].moved = TRUE]
             /\ Goto(a, place)
    BY DEF Tick
  <2>2. [call EXCEPT ![a].ready = ready, ![a].moved = TRUE] = [call EXCEPT ![a] = k]
    <3> HIDE DEF ready
    <3> QED
      OBVIOUS
  <2> HIDE DEF c, k, ready, place, before
  <2> QED
    BY <2>1, <2>2 DEF Turns, Goto
<1>3. /\ before \in Bodies /\ polled \in Bodies /\ True(polled, tasks[i], picks[i])
      /\ c \in Contexts /\ Active(c) = Active(copy[a]) /\ c.subs[i] = st
      /\ \A j \in Items \ {i} : c.subs[j] = copy[a].subs[j]
      /\ c.subs[i] = before => c = copy[a]
  BY <1>1, ScanFits
<1>4. \A n \in Nodes : polled[n].status # "PENDING" => st[n] = polled[n]
  BY <1>3, MarkedFits
<1>5. ASSUME NEW n \in Actions, NEW l, IsOpen(i, n, l), before[n].status = "RUNNING", before[n].task = l
      PROVE  st[n] = before[n]
  <2>1. n \in Nodes
    BY Kind
  <2>2. polled[n] = before[n]
    BY <1>5, <2>1 DEF Polled, IsOpen
  <2> QED
    BY <1>4, <1>5, <2>1, <2>2
<1>6. \A j \in Items, n \in Actions : \A l :
        IsOpen(j, n, l) /\ Awaits(copy[a], j, n, l) => Awaits(c, j, n, l)
  <2> SUFFICES ASSUME NEW j \in Items, NEW n \in Actions, NEW l, IsOpen(j, n, l), Awaits(copy[a], j, n, l)
               PROVE  Awaits(c, j, n, l)
    OBVIOUS
  <2>1. CASE j = i
    <3>1. before[n].status = "RUNNING" /\ before[n].task = l
      BY <2>1 DEF Awaits
    <3>2. c.subs[j][n] = before[n]
      BY <1>3, <1>5, <2>1, <3>1
    <3> QED
      BY <3>1, <3>2 DEF Awaits
  <2>2. CASE j # i
    BY <1>3, <2>2 DEF Awaits
  <2> QED
    BY <2>1, <2>2
<1> HIDE DEF i, before, polled, st, c, ready
<1>7. CASE ready = {} /\ c.subs[i] = before
  BY <1>1, <1>2, <1>3, <1>7, LeaveLimit DEF i
<1>8. CASE ~(ready = {} /\ c.subs[i] = before)
  <2>1. a \in Advancing /\ place \in AdvancePlaces
    BY <1>1, HereNarrow DEF AdvancePlaces
  <2>2. \A j, n, l : IsOpen(j, n, l)' <=> IsOpen(j, n, l)
    BY <1>1 DEF IsOpen
  <2>3. Cardinality(Active(c)) <= Room
    BY <1>3, HereNarrow
  <2> HIDE DEF k, place
  <2> QED
    BY <1>1, <1>2, <1>6, <1>8, <2>1, <2>2, <2>3, AdvanceGoesOn
<1> QED
  BY <1>7, <1>8

\* The copy awaits the job that the dispatch has created.
LEMMA DispatchLimit ==
  ASSUME Shape, Limits, NEW a \in Actors, DispatchBody(a)
  PROVE  Limits'
<1> DEFINE i == First(call[a].items)
<1>1. pc[a] = "dispatch" /\ UNCHANGED <<kind, context, overlaps, lost>>
  BY DEF DispatchBody
<1>2. PICK n \in Foremost(call[a].ready) :
        /\ \/ /\ n \notin Actions /\ UNCHANGED tasks
              /\ copy' = [copy EXCEPT ![a].subs[i][n] = State("SUCCEEDED", IF n \in Conditions THEN picks[i][n] ELSE "none", 0)]
           \/ /\ n \in Actions /\ Len(tasks[i][n]) < MaxTasks
              /\ tasks' = [tasks EXCEPT ![i][n] = Append(@, "QUEUED")]
              /\ copy' = [copy EXCEPT ![a].subs[i][n] = State("RUNNING", "none", Len(tasks[i][n]) + 1)]
        /\ call' = [call EXCEPT ![a].ready = @ \ {n}]
        /\ Goto(a, IF call[a].ready = {n} THEN "tick" ELSE "dispatch")
  BY DEF DispatchBody
<1> DEFINE s == IF n \in Actions THEN State("RUNNING", "none", Len(tasks[i][n]) + 1)
                ELSE State("SUCCEEDED", IF n \in Conditions THEN picks[i][n] ELSE "none", 0)
           st == [copy[a].subs[i] EXCEPT ![n] = s]
           c == [copy[a] EXCEPT !.subs[i] = st]
           k == [call[a] EXCEPT !.ready = @ \ {n}]
           place == IF call[a].ready = {n} THEN "tick" ELSE "dispatch"
<1>3. /\ n \in call[a].ready /\ n \in Nodes
      /\ copy[a].subs[i][n].status = "PENDING"
      /\ i \in Active(copy[a]) /\ i \in Items /\ copy[a].subs[i] \in Bodies /\ copy[a] \in Contexts
  BY <1>1, Here, HereNarrow, ItemInTurn DEF Foremost, Fits, Calls, Contexts
<1>4. Turns(a, c, k, place)
  <2>1. copy' = [copy EXCEPT ![a].subs[i][n] = s]
    BY <1>2
  <2>2. [copy EXCEPT ![a].subs[i][n] = s] = [copy EXCEPT ![a] = c]
    <3> HIDE DEF s, i
    <3> QED
      OBVIOUS
  <2>3. call' = [call EXCEPT ![a] = k]
    BY <1>2
  <2> HIDE DEF c, k, place
  <2> QED
    BY <1>2, <2>1, <2>2, <2>3 DEF Turns, Goto, place
<1>5. n \in Actions => s.status = "RUNNING" /\ s.task = Len(tasks[i][n]) + 1
  BY DEF State
<1>6. a \in Advancing /\ place \in AdvancePlaces
  BY <1>1, HereNarrow DEF AdvancePlaces
<1> HIDE DEF s, i, place
<1>7. /\ Active(c) = Active(copy[a])
      /\ \A j \in Items, m \in Nodes : c.subs[j][m] = IF j = i /\ m = n THEN s ELSE copy[a].subs[j][m]
  <2>1. \A m \in Nodes : st[m] = IF m = n THEN s ELSE copy[a].subs[i][m]
    BY <1>3 DEF Bodies
  <2> HIDE DEF st
  <2>2. /\ c.started = copy[a].started /\ c.done = copy[a].done
        /\ \A j \in Items : c.subs[j] = IF j = i THEN st ELSE copy[a].subs[j]
    BY <1>3 DEF Contexts
  <2> QED
    BY <2>1, <2>2 DEF Active
<1> HIDE DEF c, k, st
<1>8. \A j \in Items, m \in Actions : \A l : Awaits(copy[a], j, m, l) => Awaits(c, j, m, l)
  BY <1>3, <1>7, Kind DEF Awaits
<1>9. Cardinality(Active(c)) <= Room
  BY <1>7, HereNarrow
<1>10. CASE tasks' = tasks
  <2>1. \A j, m, l : IsOpen(j, m, l)' <=> IsOpen(j, m, l)
    BY <1>10 DEF IsOpen
  <2> QED
    BY <1>1, <1>4, <1>6, <1>8, <1>9, <2>1, AdvanceGoesOn
<1>11. CASE n \in Actions /\ Len(tasks[i][n]) < MaxTasks /\ tasks' = [tasks EXCEPT ![i][n] = Append(@, "QUEUED")]
  <2>1. /\ tasks' \in [Items -> [Nodes -> Seq(TaskStatuses)]]
        /\ \A j \in Items, m \in Nodes :
             /\ DOMAIN tasks[j][m] \subseteq DOMAIN tasks'[j][m]
             /\ \A l \in DOMAIN tasks[j][m] : tasks'[j][m][l] = tasks[j][m][l]
        /\ \A j \in Items, m \in Nodes : j # i \/ m # n => tasks'[j][m] = tasks[j][m]
    <3>1. Types /\ n \in Actions
      BY <1>11 DEF Shape
    <3>2. Adds(i, n)
      BY <1>11 DEF Adds
    <3>3. Added(i, n)
      BY <1>3, <3>1, <3>2, JobAdded
    <3> QED
      BY <3>3 DEF Added
  <2>2. DOMAIN tasks'[i][n] \subseteq DOMAIN tasks[i][n] \cup {Len(tasks[i][n]) + 1}
    <3>1. tasks[i][n] \in Seq(TaskStatuses) /\ tasks[i] \in [Nodes -> Seq(TaskStatuses)]
          /\ tasks \in [Items -> [Nodes -> Seq(TaskStatuses)]]
      BY <1>3, HereNarrow DEF Types
    <3>2. tasks'[i][n] = Append(tasks[i][n], "QUEUED")
      BY <1>3, <1>11, <3>1
    <3> DEFINE q == tasks[i][n]
    <3>3. \A x : DOMAIN Append(q, x) = DOMAIN q \cup {Len(q) + 1}
      <4>1. q \in Seq(TaskStatuses)
        BY <3>1
      <4> HIDE DEF q
      <4> QED
        BY <4>1
    <3> QED
      BY <3>2, <3>3
  <2>3. \A j \in Items, m \in Actions : \A l : IsOpen(j, m, l)' => Awaits(c, j, m, l) \/ IsOpen(j, m, l)
    <3> SUFFICES ASSUME NEW j \in Items, NEW m \in Actions, NEW l, IsOpen(j, m, l)'
                 PROVE  Awaits(c, j, m, l) \/ IsOpen(j, m, l)
      OBVIOUS
    <3>1. m \in Nodes
      BY Kind
    <3>2. CASE l \in DOMAIN tasks[j][m]
      BY <2>1, <3>1, <3>2 DEF IsOpen
    <3>3. CASE l \notin DOMAIN tasks[j][m]
      <4>1. j = i /\ m = n
        BY <2>1, <3>1, <3>3 DEF IsOpen
      <4>2. l = Len(tasks[i][n]) + 1
        BY <2>2, <3>3, <4>1 DEF IsOpen
      <4> QED
        BY <1>3, <1>5, <1>7, <1>11, <4>1, <4>2 DEF Awaits
    <3> QED
      BY <3>2, <3>3
  <2> QED
    BY <1>1, <1>4, <1>6, <1>8, <1>9, <2>3, AdvanceGoesOn
<1> QED
  BY <1>2, <1>10, <1>11 DEF i

\* The items of a copy that is lost, or overwritten, are put down.
LEMMA PutDown ==
  ASSUME Shape, Limits, NEW a \in Actors, NEW D \in SUBSET Items, NEW d \in Nat, Cardinality(D) <= Room * d
  PROVE  LET E == D \cup Active(copy[a])
         IN  /\ E \in SUBSET Items /\ Cardinality(E) <= Room * (d + 1)
             /\ \A i \in Items, n \in Actions : \A l : Awaits(copy[a], i, n, l) => i \in E
<1> DEFINE A == Active(copy[a])
<1>1. A \subseteq Items /\ IsFiniteSet(A) /\ Cardinality(A) \in Nat /\ Cardinality(A) <= Room /\ Room \in Nat
  BY HereNarrow, ActiveItems, ActiveFinite, RoomFits
<1>2. IsFiniteSet(D) /\ Cardinality(D) \in Nat
  <2>1. IsFiniteSet(Items)
    BY IterationAssumption, FS_Interval DEF Items
  <2> QED
    BY <2>1, FS_Subset, FS_CardinalityType
<1>3. \A i \in Items, n \in Actions : \A l : Awaits(copy[a], i, n, l) => i \in A
  BY HereNarrow, AwaitedAreActive
<1> HIDE DEF A
<1>4. Cardinality(D \cup A) <= Cardinality(D) + Cardinality(A) /\ Cardinality(D \cup A) \in Nat
  <2>1. /\ IsFiniteSet(D \cup A)
        /\ Cardinality(D \cup A) = Cardinality(D) + Cardinality(A) - Cardinality(D \cap A)
    BY <1>1, <1>2, FS_Union
  <2>2. Cardinality(D \cap A) \in Nat
    BY <1>2, FS_Subset, FS_CardinalityType
  <2> QED
    BY <1>1, <1>2, <2>1, <2>2, FS_CardinalityType
<1>5. Room * (d + 1) = Room * d + Room /\ Room * d \in Nat
  BY <1>1, Product
<1> QED
  BY <1>1, <1>2, <1>3, <1>4, <1>5 DEF A

\* The advance of a is over: what its copy awaited is awaited by the context it
\* saved, if it was the last, or put down.
LEMMA OverLimit ==
  ASSUME Shape, Limits, NEW a \in Advancing, Save(a) \/ Lose(a)
  PROVE  Limits'
<1>1. /\ Turns(a, Blank, NoCall, "idle") /\ UNCHANGED <<kind, tasks, overlaps>>
      /\ \/ context' = copy[a] /\ lost' = lost
         \/ context' = context /\ lost' = lost + 1
  BY DEF Save, Lose, Return, Goto, Turns
<1>2. a \in Actors /\ Types /\ Room \in Nat
  BY RoomFits DEF Shape, Advancing
<1>3. Narrow'
  <2>1. Active(Blank) = {}
    BY DEF Active, Blank
  <2>2. Cardinality(Active(Blank)) <= Room
    BY <1>2, <2>1, FS_EmptySet
  <2> QED
    BY <1>1, <1>2, <2>2, NarrowTurn DEF Limits
<1>4. Advancing' = Advancing \ {a}
  BY <1>1, <1>2, PlacesAfter DEF Turns, Places, AdvancePlaces
<1>5. /\ IsFiniteSet(Advancing') /\ Cardinality(Advancing') = Cardinality(Advancing) - 1
      /\ Cardinality(Advancing) \in Nat /\ Cardinality(Advancing') \in Nat
      /\ (Advancing' = {} => Cardinality(Advancing') = 0)
  BY <1>4, FS_RemoveElement, FS_CardinalityType, FS_EmptySet DEF Limits
<1>6. PICK D \in SUBSET Items, d \in Nat : Accounted(D, d)
  BY DEF Limits
<1>7. /\ Cardinality(D) <= Room * d /\ d + Cardinality(Advancing) <= 1 + overlaps + lost
      /\ \A i \in Items, n \in Actions : \A l :
           IsOpen(i, n, l) => i \in D \/ \E b \in Advancing : Awaits(copy[b], i, n, l)
  BY <1>6, Zenon DEF Accounted, Known, Copies
<1>8. \A b \in Advancing' : copy'[b] = copy[b]
  BY <1>1, <1>2, <1>4 DEF Types, Turns, Advancing
<1>9. Room' = Room /\ \A i, n, l : IsOpen(i, n, l)' <=> IsOpen(i, n, l)
  BY <1>1 DEF Room, IsOpen
<1>10. overlaps \in Nat /\ lost \in Nat
  BY <1>2 DEF Types
<1>11. PICK E \in SUBSET Items :
         /\ Cardinality(E) <= Room * (d + 1) /\ D \subseteq E
         /\ \A i \in Items, n \in Actions : \A l : Awaits(copy[a], i, n, l) => i \in E
  <2>1. D \subseteq D \cup Active(copy[a])
    OBVIOUS
  <2> QED
    BY <1>2, <1>7, <2>1, PutDown
<1>12. CASE Advancing' = {} /\ context' = copy[a] /\ lost' = lost
  <2>1. Known(D, {context})'
    <3>1. Advancing = {a}
      BY <1>4, <1>12
    <3>2. \A i \in Items, n \in Actions : \A l : IsOpen(i, n, l) => i \in D \/ Awaits(context', i, n, l)
      BY <1>7, <1>12, <3>1
    <3> QED
      BY <1>9, <3>2 DEF Known, Awaits
  <2>2. d <= overlaps' + lost'
    BY <1>1, <1>5, <1>7, <1>10, <1>12
  <2>3. Accounted(D, d)'
    BY <1>7, <1>9, <1>12, <2>1, <2>2 DEF Accounted
  <2> QED
    BY <1>3, <1>5, <2>3 DEF Limits
<1>13. CASE Advancing' = {} /\ lost' = lost + 1
  <2>1. Known(E, {context})'
    <3>1. Advancing = {a}
      BY <1>4, <1>13
    <3>2. \A i \in Items, n \in Actions : \A l : IsOpen(i, n, l) => i \in E
      BY <1>7, <1>11, <3>1
    <3> QED
      BY <1>9, <3>2 DEF Known
  <2>2. d + 1 \in Nat /\ d + 1 <= overlaps' + lost'
    BY <1>1, <1>5, <1>7, <1>10, <1>13
  <2>3. Accounted(E, d + 1)'
    BY <1>9, <1>11, <1>13, <2>1, <2>2 DEF Accounted
  <2> QED
    BY <1>3, <1>5, <1>11, <2>2, <2>3 DEF Limits
<1>14. CASE Advancing' # {}
  <2>1. Known(E, Copies)'
    <3>0. \A b \in Advancing' : copy'[b] \in Copies'
      BY DEF Copies
    <3> SUFFICES ASSUME NEW i \in Items, NEW n \in Actions, NEW l, IsOpen(i, n, l), i \notin E
                 PROVE  \E b \in Advancing' : Awaits(copy'[b], i, n, l)
      BY <1>9, <3>0 DEF Known, Awaits
    <3>1. PICK b \in Advancing : Awaits(copy[b], i, n, l)
      BY <1>7, <1>11
    <3>2. b # a
      BY <1>11, <3>1
    <3> QED
      BY <1>4, <1>8, <3>1, <3>2
  <2>2. d + 1 \in Nat /\ (d + 1) + Cardinality(Advancing') <= 1 + overlaps' + lost'
    BY <1>1, <1>5, <1>7, <1>10
  <2>3. Accounted(E, d + 1)'
    BY <1>9, <1>11, <1>14, <2>1, <2>2 DEF Accounted
  <2> QED
    BY <1>3, <1>5, <1>11, <2>2, <2>3 DEF Limits
<1> QED
  BY <1>1, <1>12, <1>13, <1>14

\* A worker dies, or a caller before it has read the run.
LEMMA WorkerLost ==
  ASSUME Shape, Limits, NEW a \in Actors, a \notin Advancing, Lose(a)
  PROVE  Limits'
<1>1. Turns(a, Blank, NoCall, "idle") /\ UNCHANGED <<kind, tasks, overlaps, context>> /\ lost' = lost + 1
  BY DEF Lose, Return, Goto, Turns
<1>2. Types /\ Room \in Nat
  BY RoomFits DEF Shape
<1>3. Narrow'
  <2>1. Active(Blank) = {}
    BY DEF Active, Blank
  <2>2. Cardinality(Active(Blank)) <= Room
    BY <1>2, <2>1, FS_EmptySet
  <2> QED
    BY <1>1, <2>2, NarrowTurn DEF Limits
<1>4. Advancing' = Advancing
  <2>1. "idle" \in Places /\ "idle" \notin AdvancePlaces /\ pc' = [pc EXCEPT ![a] = "idle"]
    BY <1>1 DEF Turns, Places, AdvancePlaces
  <2> QED
    BY <1>2, <2>1, PlacesAfter
<1>5. PICK D \in SUBSET Items, d \in Nat : Accounted(D, d)
  BY DEF Limits
<1>6. \A b \in Advancing : copy'[b] = copy[b]
  BY <1>1, <1>2 DEF Types, Turns, Advancing
<1>7. Room' = Room /\ Copies' = Copies
  BY <1>1, <1>4, <1>6 DEF Room, Copies
<1>8. Known(D, Copies) => Known(D, Copies)'
  BY <1>1, <1>7 DEF Known, Awaits, IsOpen
<1>9. Known(D, {context}) => Known(D, {context})'
  BY <1>1 DEF Known, Awaits, IsOpen
<1>10. overlaps \in Nat /\ lost \in Nat /\ Cardinality(Advancing) \in Nat
  BY <1>2, FS_CardinalityType DEF Types, Limits
<1>11. Accounted(D, d)'
  BY <1>1, <1>4, <1>5, <1>7, <1>8, <1>9, <1>10 DEF Accounted
<1> QED
  BY <1>3, <1>4, <1>11 DEF Limits

LEMMA LimitInit == ASSUME Init PROVE Limits
<1>1. Shape /\ Types
  BY ShapeInit DEF Shape
<1>2. Room \in Nat /\ Room * 0 = 0
  BY <1>1, RoomFits
<1>3. Narrow
  <2>1. Active(Blank) = {}
    BY DEF Active, Blank
  <2>2. Cardinality(Active(Blank)) <= Room
    BY <1>2, <2>1, FS_EmptySet
  <2> QED
    BY <2>2 DEF Init, Narrow
<1>4. Advancing = {}
  BY DEF Init, Advancing
<1>5. Known({}, {context})
  BY Kind DEF Init, Known, IsOpen
<1>6. Accounted({}, 0)
  BY <1>2, <1>4, <1>5, FS_EmptySet DEF Accounted, Init
<1> QED
  BY <1>3, <1>4, <1>6, FS_EmptySet DEF Limits

LEMMA LimitStep == ASSUME Shape, Limits, [Next]_vars PROVE Limits'
<1>1. CASE UNCHANGED vars
  <2>1. Advancing' = Advancing /\ \A i, n, l : IsOpen(i, n, l)' <=> IsOpen(i, n, l)
    BY <1>1 DEF vars, Advancing, IsOpen
  <2> QED
    BY <1>1, <2>1, SameCopies DEF vars
<1>2. CASE Next
  <2>1. PICK a \in Actors : Step(a) \/ Lose(a)
    BY <1>2 DEF Next
  <2>2. Save(a) => a \in Advancing
    BY HereNarrow DEF Save, AdvancePlaces
  <2>3. CASE Save(a) \/ Lose(a)
    BY <2>2, <2>3, OverLimit, WorkerLost
  <2> QED
    BY <2>1, <2>3, CallerLimit, ReadLimit, StartingLimit, PollLimit, TickLimit, DispatchLimit DEF Step, Proceed
<1> QED
  BY <1>1, <1>2

\* The items under way are those put down and those active in a context that
\* still counts: Room for each of them.
LEMMA LimitsBound == ASSUME Shape, Limits PROVE WithinLimit
<1>1. PICK D \in SUBSET Items, d \in Nat : Accounted(D, d)
  BY DEF Limits
<1>2. Types /\ Room \in Nat /\ IsFiniteSet(Advancing) /\ overlaps \in Nat /\ lost \in Nat
  BY RoomFits DEF Shape, Types, Limits
<1>3. PICK C : /\ IsFiniteSet(C) /\ \A c \in C : c \in Contexts /\ IsView(c) /\ Cardinality(Active(c)) <= Room
               /\ d + Cardinality(C) <= 1 + overlaps + lost
               /\ Known(D, C)
  <2>1. CASE Advancing = {}
    <3>1. IsFiniteSet({context}) /\ Cardinality({context}) = 1
      BY FS_Singleton
    <3>2. context \in Contexts /\ IsView(context) /\ Cardinality(Active(context)) <= Room
      BY <1>2 DEF Limits, Narrow, Shape, Views, IsView
    <3>3. d + 1 <= 1 + overlaps + lost /\ Known(D, {context})
      BY <1>1, <1>2, <2>1 DEF Accounted
    <3> QED
      BY <3>1, <3>2, <3>3
  <2>2. CASE Advancing # {}
    <3>1. IsFiniteSet(Copies) /\ Cardinality(Copies) <= Cardinality(Advancing)
          /\ Cardinality(Copies) \in Nat /\ Cardinality(Advancing) \in Nat
      <4> DEFINE g == [b \in Advancing |-> copy[b]]
      <4>1. g \in Surjection(Advancing, Copies)
        BY DEF Surjection, Copies
      <4> HIDE DEF g
      <4> QED
        BY <1>2, <4>1, FS_Surjection, FS_CardinalityType
    <3>2. \A c \in Copies : c \in Contexts /\ IsView(c) /\ Cardinality(Active(c)) <= Room
      BY HereNarrow DEF Copies, Advancing
    <3>3. d + Cardinality(Copies) <= 1 + overlaps + lost /\ Known(D, Copies)
      BY <1>1, <1>2, <2>2, <3>1 DEF Accounted
    <3> QED
      BY <3>1, <3>2, <3>3
  <2> QED
    BY <2>1, <2>2
<1> DEFINE F == [c \in C |-> Active(c)]
           U == UNION {F[c] : c \in C}
<1>4. F \in [C -> SUBSET Items] /\ \A c \in C : IsFiniteSet(F[c]) /\ Cardinality(F[c]) <= Room
  BY <1>3, ActiveItems, ActiveFinite
<1>5. \A c \in C : Active(c) \subseteq U
  OBVIOUS
<1> HIDE DEF F
<1>6. IsFiniteSet(U) /\ Cardinality(U) <= Room * Cardinality(C)
  BY <1>2, <1>3, <1>4, UnionBound
<1>7. UnderWay \subseteq D \cup U
  <2> SUFFICES ASSUME NEW i \in UnderWay, i \notin D PROVE i \in U
    OBVIOUS
  <2>1. i \in Items /\ \E n \in Actions : \E k : IsOpen(i, n, k)
    BY DEF UnderWay, HasTask, IsOpen, OpenTask
  <2>2. PICK n \in Actions : \E k : IsOpen(i, n, k)
    BY <2>1
  <2>3. PICK k : IsOpen(i, n, k)
    BY <2>2
  <2>4. PICK c \in C : Awaits(c, i, n, k)
    BY <1>3, <2>1, <2>3 DEF Known
  <2> QED
    BY <1>3, <1>5, <2>1, <2>4, AwaitedAreActive
<1> HIDE DEF U
<1>8. IsFiniteSet(D) /\ Cardinality(D) \in Nat /\ Cardinality(D) <= Room * d
  <2>1. IsFiniteSet(Items)
    BY IterationAssumption, FS_Interval DEF Items
  <2> QED
    BY <1>1, <2>1, FS_Subset, FS_CardinalityType DEF Accounted
<1>9. /\ Cardinality(UnderWay) <= Cardinality(D) + Cardinality(U)
      /\ Cardinality(UnderWay) \in Nat /\ Cardinality(U) \in Nat
  <2>1. /\ IsFiniteSet(D \cup U)
        /\ Cardinality(D \cup U) = Cardinality(D) + Cardinality(U) - Cardinality(D \cap U)
    BY <1>6, <1>8, FS_Union
  <2>2. Cardinality(D \cap U) \in Nat
    BY <1>6, <1>8, FS_Subset, FS_CardinalityType
  <2>3. Cardinality(UnderWay) <= Cardinality(D \cup U) /\ IsFiniteSet(UnderWay)
    BY <1>7, <2>1, FS_Subset
  <2>4. Cardinality(UnderWay) \in Nat /\ Cardinality(D \cup U) \in Nat /\ Cardinality(U) \in Nat
    BY <1>6, <2>1, <2>3, FS_CardinalityType
  <2> QED
    BY <1>8, <2>1, <2>2, <2>3, <2>4
<1>10. Room * d + Room * Cardinality(C) <= Room * (1 + overlaps + lost)
  <2> DEFINE n == Cardinality(C)
             m == 1 + overlaps + lost
  <2>1. n \in Nat /\ m \in Nat /\ d + n \in Nat /\ d + n <= m
    BY <1>2, <1>3, FS_CardinalityType
  <2> HIDE DEF n, m
  <2>2. Room * (d + n) <= Room * m
    BY <1>2, <2>1, Product
  <2>3. Room * (d + n) = Room * d + Room * n
    BY <1>2, <2>1
  <2> QED
    BY <2>2, <2>3 DEF n, m
<1>11. Room * d \in Nat /\ Room * Cardinality(C) \in Nat /\ Room * (1 + overlaps + lost) \in Nat
  BY <1>2, <1>3, Product, FS_CardinalityType
<1> QED
  BY <1>6, <1>8, <1>9, <1>10, <1>11 DEF WithinLimit

\* For every body, collection, limit and set of actors, a loop has one item
\* with jobs that are not over and a map concurrencyLimit items, and that many
\* again for each advance that overlaps another or is lost, never more.
THEOREM RoomIsKept == Spec => []WithinLimit
<1>1. Init => Shape /\ Limits
  BY ShapeInit, LimitInit
<1>2. Shape /\ Limits /\ [Next]_vars => (Shape /\ Limits)'
  BY ShapeStep, LimitStep
<1>3. Shape /\ Limits => WithinLimit
  BY LimitsBound
<1> QED
  BY <1>1, <1>2, <1>3, PTL DEF Spec
=============================================================================
