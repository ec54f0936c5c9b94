--------------------------- MODULE WebhookDelivery ---------------------------
(***************************************************************************)
(* Outbound webhooks: an event plans one delivery per subscription, and    *)
(* the calls of processDueWebhookDeliveries post the due ones until the    *)
(* receiver accepts or the attempts are used up.                           *)
(*                                                                         *)
(* Nothing claims a delivery. A call reads the due rows once, with their   *)
(* attempt counts, then posts and writes them one after the other, so      *)
(* overlapping calls post the same delivery and write over each other; a   *)
(* call may die between the post and the write; a subscription deleted     *)
(* meanwhile takes its rows with it, and the write that misses one throws  *)
(* out of the call.                                                        *)
(*                                                                         *)
(* Abstracted: the payload, its signature, the delays (a retry is due or   *)
(* not yet) and the limit of a hundred rows per call.                      *)
(***************************************************************************)
EXTENDS Naturals, FiniteSets

CONSTANTS
  Subscriptions,  \* the subscriptions of the organisation
  Senders,        \* the calls of processDueWebhookDeliveries that may overlap
  MaxAttempts,    \* WEBHOOK_RETRY_POLICY.maxAttempts
  MaxEvents,      \* bound: events published
  MaxDeaths       \* bound: calls of processDueWebhookDeliveries that die

ASSUME WebhookAssumption ==
  /\ MaxAttempts \in Nat \ {0}
  /\ MaxEvents \in Nat /\ MaxDeaths \in Nat

VARIABLES
  subscribed,  \* the subscriptions that still exist
  events,      \* events published
  delivery,    \* event and subscription -> its row, with two ghost fields:
               \*   posts, how often it was posted, counted up to MaxAttempts;
               \*   accepted, whether the receiver ever took it
  sender,      \* call -> rows left, counts read, the row in hand, the answer
  deaths       \* calls that died

webhookVars == <<subscribed, events, delivery, sender, deaths>>

Keys == (1..MaxEvents) \X Subscriptions

Row(s) == [status |-> s, attempts |-> 0, next |-> "now", posts |-> 0, accepted |-> FALSE]

NoKey == <<0, "none">>

Resting == [at |-> "idle", due |-> {}, seen |-> [k \in Keys |-> 0], of |-> NoKey, ok |-> FALSE]

WebhookInit ==
  /\ subscribed = Subscriptions
  /\ events = 0
  /\ delivery = [k \in Keys |-> Row("NONE")]
  /\ sender = [s \in Senders |-> Resting]
  /\ deaths = 0

-----------------------------------------------------------------------------
(* Planning: handleOutboundWebhookEvent.                                   *)

\* The subscriptions are read: "READ" stands for a row about to be created.
Planned ==
  /\ events < MaxEvents
  /\ events' = events + 1
  /\ delivery' = [k \in Keys |-> IF k[1] = events + 1 /\ k[2] \in subscribed
                                 THEN Row("READ") ELSE delivery[k]]
  /\ UNCHANGED <<subscribed, sender, deaths>>

ReadFor(e) == {k \in Keys : k[1] = e /\ delivery[k].status = "READ"}

\* One PENDING row per subscription read, or none at all when one of them was
\* deleted since: createMany throws, and the bus catches it.
CreateDeliveries(e) ==
  /\ ReadFor(e) # {}
  /\ delivery' = [k \in Keys |->
       IF k \notin ReadFor(e) THEN delivery[k]
       ELSE IF \A j \in ReadFor(e) : j[2] \in subscribed
       THEN Row("PENDING") ELSE Row("NONE")]
  /\ UNCHANGED <<subscribed, events, sender, deaths>>

Made(row) == row.status \notin {"NONE", "READ"}

\* A subscription is deleted, and its rows by cascade.
Unsubscribe(u) ==
  /\ u \in subscribed
  /\ subscribed' = subscribed \ {u}
  /\ delivery' = [k \in Keys |-> IF k[2] = u /\ Made(delivery[k])
                                 THEN [delivery[k] EXCEPT !.status = "DELETED"]
                                 ELSE delivery[k]]
  /\ UNCHANGED <<events, sender, deaths>>

\* The delay of a retry has passed.
RetryFallsDue(k) ==
  /\ delivery[k].status = "PENDING" /\ delivery[k].next = "later"
  /\ delivery' = [delivery EXCEPT ![k].next = "now"]
  /\ UNCHANGED <<subscribed, events, sender, deaths>>

-----------------------------------------------------------------------------
(* A call of processDueWebhookDeliveries.                                  *)

IsDue(k) == delivery[k].status = "PENDING" /\ delivery[k].next = "now"

SenderReads(s) ==
  /\ sender[s].at = "idle"
  /\ \E k \in Keys : IsDue(k)
  /\ sender' = [sender EXCEPT ![s] =
       [Resting EXCEPT !.at = "loop", !.due = {k \in Keys : IsDue(k)},
                       !.seen = [k \in Keys |-> IF IsDue(k) THEN delivery[k].attempts ELSE 0]]]
  /\ UNCHANGED <<subscribed, events, delivery, deaths>>

UpToMax(n) == IF n > MaxAttempts THEN MaxAttempts ELSE n

\* The post: accepted, refused, or accepted with an answer that got lost.
Posts(s, k) ==
  /\ sender[s].at = "loop" /\ k \in sender[s].due
  /\ \E accepted, ok \in BOOLEAN :
       /\ ok => accepted
       /\ delivery' = [delivery EXCEPT ![k].posts = UpToMax(@ + 1),
                                       ![k].accepted = @ \/ accepted]
       /\ sender' = [sender EXCEPT ![s].at = "write", ![s].of = k, ![s].ok = ok]
  /\ UNCHANGED <<subscribed, events, deaths>>

\* A slip: the count of attempts as it was read.
Mut_AttemptsAsRead(s) == sender[s].seen[sender[s].of]

attempt(s) == sender[s].seen[sender[s].of] + 1

\* A slip: the attempt that is about to be the last is not made.
Mut_RetryOneLess(a) == a < MaxAttempts - 1

shouldRetry(a) == a < MaxAttempts

\* The row a call writes, from the count it read and the answer it got.
Written(s, row) ==
  IF sender[s].ok
  THEN [row EXCEPT !.status = "SUCCESS", !.attempts = attempt(s)]
  ELSE IF shouldRetry(attempt(s))
  THEN [row EXCEPT !.attempts = attempt(s), !.next = "later"]
  ELSE [row EXCEPT !.status = "FAILED", !.attempts = attempt(s)]

SenderWrites(s) ==
  /\ sender[s].at = "write"
  /\ LET k == sender[s].of
     IN  \/ /\ delivery[k].status # "DELETED"
            /\ delivery' = [delivery EXCEPT ![k] = Written(s, @)]
            /\ sender' = [sender EXCEPT ![s] =
                 [at |-> "loop", due |-> @.due \ {k}, seen |-> [@.seen EXCEPT ![k] = 0],
                  of |-> NoKey, ok |-> FALSE]]
         \/ \* no such row: the update throws out of the call
            /\ delivery[k].status = "DELETED"
            /\ sender' = [sender EXCEPT ![s] = Resting]
            /\ UNCHANGED delivery
  /\ UNCHANGED <<subscribed, events, deaths>>

SenderEnds(s) ==
  /\ sender[s].at = "loop" /\ sender[s].due = {}
  /\ sender' = [sender EXCEPT ![s] = Resting]
  /\ UNCHANGED <<subscribed, events, delivery, deaths>>

SenderDies(s) ==
  /\ sender[s].at # "idle"
  /\ deaths < MaxDeaths
  /\ deaths' = deaths + 1
  /\ sender' = [sender EXCEPT ![s] = Resting]
  /\ UNCHANGED <<subscribed, events, delivery>>

SenderStep(s) ==
  SenderReads(s) \/ SenderWrites(s) \/ SenderEnds(s) \/ \E k \in Keys : Posts(s, k)

\* Everything but the events, which other components publish.
WebhookNext ==
  \/ \E u \in Subscriptions : Unsubscribe(u)
  \/ \E e \in 1..MaxEvents : CreateDeliveries(e)
  \/ \E k \in Keys : RetryFallsDue(k)
  \/ \E s \in Senders : SenderStep(s) \/ SenderDies(s)

\* The cron route is called for ever and its calls go on unless they die.
WebhookFairness ==
  /\ \A s \in Senders : WF_webhookVars(SenderStep(s))
  /\ \A k \in Keys : WF_webhookVars(RetryFallsDue(k))

-----------------------------------------------------------------------------
(* Properties.                                                             *)

\* Types.
WebhookTypeOK ==
  /\ subscribed \subseteq Subscriptions
  /\ events \in 0..MaxEvents
  /\ delivery \in [Keys -> [status : {"NONE", "READ", "PENDING", "SUCCESS", "FAILED",
                                      "DELETED"},
                            attempts : Nat, next : {"now", "later"},
                            posts : 0..MaxAttempts, accepted : BOOLEAN]]
  /\ sender \in [Senders -> [at : {"idle", "loop", "write"}, due : SUBSET Keys,
                             seen : [Keys -> Nat], of : Keys \cup {NoKey}, ok : BOOLEAN]]
  /\ deaths \in 0..MaxDeaths

\* A verdict is earned: a delivery is given up only after MaxAttempts posts, and
\* counted as delivered only if the receiver took it, although overlapping calls
\* count attempts from stale rows and write over each other's results.
VerdictIsEarned ==
  \A k \in Keys :
    /\ delivery[k].status = "FAILED" => delivery[k].posts >= MaxAttempts
    /\ delivery[k].status = "SUCCESS" => delivery[k].accepted

\* A planned delivery does not stay pending for ever: calls that overlap set
\* each other's counts back, but not without end.
DeliveryEnds ==
  \A k \in Keys : (delivery[k].status = "PENDING") ~> (delivery[k].status # "PENDING")
=============================================================================
