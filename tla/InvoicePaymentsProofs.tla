------------------------ MODULE InvoicePaymentsProofs ------------------------
(***************************************************************************)
(* PaidIsCovered and VerdictIsEarned for every set of requests, calls,     *)
(* subscriptions and amounts. Both speak of a row that somebody writes     *)
(* from what was read earlier. What saves them is that the facts read only *)
(* grow: payments are added and never withdrawn, so the sum a request has  *)
(* in hand bounds the present one from below (Paying), and posts are made  *)
(* and never unmade, so the count a call has in hand does too (Posting).   *)
(* The two never meet but at an event that is published, so their steps    *)
(* are proved apart.                                                       *)
(***************************************************************************)
EXTENDS InvoicePayments, TLAPS

PayTypeOK ==
  /\ status \in InvoiceStatus
  /\ byHand \in BOOLEAN
  /\ paid \in Nat
  /\ pastDue \in BOOLEAN
  /\ payer \in [Payers -> [at : {"idle", "create", "mark", "publish"},
                           seen : Nat, amount : Nat]]
  /\ checker \in [Checkers -> {"idle", "write"}]
  /\ hand \in [used : 0..MaxByHand, publishes : BOOLEAN]
  /\ lost \in 0..MaxLost

\* A request that goes on has read no more than was paid.
Paying ==
  /\ status = "PAID" /\ ~byHand => paid >= Total
  /\ \A p \in Payers :
       /\ payer[p].at = "create" => payer[p].seen <= paid
       /\ payer[p].at \in {"mark", "publish"} => paid >= Total

RowType == [status : {"NONE", "READ", "PENDING", "SUCCESS", "FAILED", "DELETED"},
            attempts : Nat, next : {"now", "later"},
            posts : 0..MaxAttempts, accepted : BOOLEAN]

CallType == [at : {"idle", "loop", "write"}, due : SUBSET Keys,
             seen : [Keys -> Nat], of : Keys \cup {NoKey}, ok : BOOLEAN]

\* A row claims no more attempts than it has posts, and a verdict is earned.
RowOK(r) ==
  /\ ~Made(r) => r.posts = 0 /\ ~r.accepted
  /\ r.status = "PENDING" => r.attempts <= r.posts /\ r.attempts < MaxAttempts
  /\ r.status = "FAILED" => r.posts >= MaxAttempts
  /\ r.status = "SUCCESS" => r.accepted

\* A call has in hand planned rows d, at most the posts that were made, and
\* one less than those of the row it has posted.
CallOK(c, d) ==
  /\ \A k \in c.due : Made(d[k])
  /\ \A k \in Keys : c.seen[k] <= d[k].posts /\ c.seen[k] < MaxAttempts
  /\ c.at = "write" => /\ c.of \in c.due
                       /\ c.seen[c.of] + 1 <= d[c.of].posts
                       /\ c.ok => d[c.of].accepted

\* What a row never loses.
Grows(r, q) ==
  /\ r.posts <= q.posts
  /\ r.accepted => q.accepted
  /\ Made(r) => Made(q)

\* Events yet to come have no rows.
Unheard == \A k \in Keys : k[1] > events => delivery[k].status = "NONE"

Posting ==
  /\ \A k \in Keys : RowOK(delivery[k])
  /\ \A s \in Senders : CallOK(sender[s], delivery)

PayInv == PayTypeOK /\ Paying

HookInv == WebhookTypeOK /\ Unheard /\ Posting

-----------------------------------------------------------------------------
(* The invoice.                                                            *)

LEMMA PayInit == Init => PayInv
<1> SUFFICES ASSUME Init
             PROVE  PayInv
  OBVIOUS
<1>1. /\ byHand \in BOOLEAN /\ pastDue \in BOOLEAN
      /\ hand = [used |-> 0, publishes |-> FALSE]
  BY Zenon DEF Init
<1>2. payer \in [Payers -> [at : {"idle", "create", "mark", "publish"},
                           seen : Nat, amount : Nat]]
  BY DEF Init, NotPaying
<1>3. /\ status = "DRAFT" /\ paid = 0 /\ lost = 0
      /\ checker \in [Checkers -> {"idle", "write"}]
  BY DEF Init
<1>4. hand \in [used : 0..MaxByHand, publishes : BOOLEAN]
  BY <1>1, InvoiceAssumption
<1>5. PayTypeOK
  BY <1>1, <1>2, <1>3, <1>4, InvoiceAssumption DEF PayTypeOK, InvoiceStatus
<1>6. \A p \in Payers : payer[p].at = "idle"
  BY DEF Init, NotPaying
<1> QED
  BY <1>3, <1>5, <1>6 DEF PayInv, Paying

\* recordInvoicePayment.
LEMMA PayerSteps ==
  ASSUME PayInv, NEW p \in Payers,
         PayerStep(p) \/ PayerDies(p) \/ \E a \in Amounts : PayReads(p, a)
  PROVE  PayInv'
<1> USE InvoiceAssumption DEF PayInv, PayTypeOK, Paying, NotPaying, InvoiceStatus
<1>1. CASE PayCreates(p)
  BY <1>1 DEF PayCreates, newlyPaidInFull
<1>2. CASE PayMarks(p)
  <2>1. paid' = paid /\ paid >= Total
    BY <1>2 DEF PayMarks
  <2>2. \A q \in Payers : payer'[q] = payer[q] \/ payer'[q].at = "publish"
    BY <1>2 DEF PayMarks
  <2>3. byHand' \in BOOLEAN
    BY <1>2, Zenon DEF PayMarks
  <2>4. status' \in InvoiceStatus /\ UNCHANGED <<paid, pastDue, checker, hand, lost>>
    BY <1>2 DEF PayMarks
  <2>5. payer' \in [Payers -> [at : {"idle", "create", "mark", "publish"},
                               seen : Nat, amount : Nat]]
    BY <1>2 DEF PayMarks
  <2>6. PayTypeOK'
    BY <2>3, <2>4, <2>5
  <2> QED
    BY <2>1, <2>2, <2>6
<1>3. CASE PayPublishes(p)
  BY <1>3 DEF PayPublishes
<1>4. CASE PayerDies(p)
  BY <1>4 DEF PayerDies
<1>5. ASSUME NEW a \in Amounts, PayReads(p, a)
      PROVE  PayInv'
  BY <1>5 DEF PayReads
<1> QED
  BY <1>1, <1>2, <1>3, <1>4, <1>5 DEF PayerStep

\* updateInvoiceStatus, processOverdueInvoices and the clock.
LEMMA StatusSteps ==
  ASSUME PayInv,
         \/ HandPublishes \/ DueDatePasses
         \/ \E s \in InvoiceStatus : SetStatus(s)
         \/ \E c \in Checkers : CheckReads(c) \/ CheckWrites(c)
  PROVE  PayInv'
<1> USE InvoiceAssumption DEF PayInv, PayTypeOK, Paying, InvoiceStatus
<1>1. CASE HandPublishes
  BY <1>1 DEF HandPublishes
<1>2. CASE DueDatePasses
  BY <1>2 DEF DueDatePasses
<1>3. ASSUME NEW s \in InvoiceStatus, SetStatus(s)
      PROVE  PayInv'
  BY <1>3 DEF SetStatus
<1>4. ASSUME NEW c \in Checkers, CheckReads(c)
      PROVE  PayInv'
  BY <1>4 DEF CheckReads
<1>5. ASSUME NEW c \in Checkers, CheckWrites(c)
      PROVE  PayInv'
  BY <1>5 DEF CheckWrites
<1> QED
  BY <1>1, <1>2, <1>3, <1>4, <1>5

LEMMA PayStep == PayInv /\ [Next]_vars => PayInv'
<1> SUFFICES ASSUME PayInv, [Next]_vars
             PROVE  PayInv'
  OBVIOUS
<1>1. CASE UNCHANGED invoiceVars
  BY <1>1 DEF invoiceVars, PayInv, PayTypeOK, Paying
<1> QED
  BY <1>1, PayerSteps, StatusSteps DEF Next, vars

-----------------------------------------------------------------------------
(* The webhooks.                                                           *)

LEMMA TypeOfHooks ==
  WebhookTypeOK <=> /\ subscribed \subseteq Subscriptions
                    /\ events \in 0..MaxEvents
                    /\ delivery \in [Keys -> RowType]
                    /\ sender \in [Senders -> CallType]
                    /\ deaths \in 0..MaxDeaths
  BY DEF WebhookTypeOK, RowType, CallType

LEMMA RestingIsFine ==
  ASSUME NEW d \in [Keys -> RowType]
  PROVE  Resting \in CallType /\ CallOK(Resting, d)
<1>1. /\ Resting.at = "idle" /\ Resting.due = {} /\ Resting.seen = [k \in Keys |-> 0]
  BY DEF Resting
<1>2. Resting \in CallType
  BY DEF Resting, CallType
<1>3. \A k \in Keys : d[k].posts \in Nat
  BY WebhookAssumption DEF RowType
<1> QED
  BY <1>1, <1>2, <1>3, WebhookAssumption DEF CallOK

\* Rows that grow leave a call as it was.
LEMMA CallsStay ==
  ASSUME NEW d \in [Keys -> RowType], NEW e \in [Keys -> RowType],
         \A k \in Keys : Grows(d[k], e[k]),
         NEW c \in CallType, CallOK(c, d)
  PROVE  CallOK(c, e)
<1>1. c.due \subseteq Keys /\ c.seen \in [Keys -> Nat]
  BY DEF CallType
<1>2. \A k \in Keys : d[k].posts \in Nat /\ e[k].posts \in Nat
  BY WebhookAssumption DEF RowType
<1> QED
  BY <1>1, <1>2, WebhookAssumption DEF CallOK, Grows

\* What a step has to show: that rows only grow and stay in order, and that
\* the calls it moves stay in order.
LEMMA Frame ==
  ASSUME HookInv, Unheard',
         subscribed' \subseteq Subscriptions,
         events' \in 0..MaxEvents, deaths' \in 0..MaxDeaths,
         delivery' \in [Keys -> RowType], sender' \in [Senders -> CallType],
         \A k \in Keys : RowOK(delivery'[k]) /\ Grows(delivery[k], delivery'[k]),
         \A s \in Senders : sender'[s] = sender[s] \/ CallOK(sender'[s], delivery')
  PROVE  HookInv'
<1>1. delivery \in [Keys -> RowType] /\ sender \in [Senders -> CallType]
  BY TypeOfHooks DEF HookInv
<1>2. WebhookTypeOK'
  BY DEF WebhookTypeOK, RowType, CallType
<1>3. \A s \in Senders : CallOK(sender[s], delivery')
  BY <1>1, CallsStay DEF HookInv, Posting
<1>4. Posting'
  BY <1>3 DEF Posting
<1> QED
  BY <1>2, <1>4 DEF HookInv

LEMMA HookInit == WebhookInit => HookInv
<1> SUFFICES ASSUME WebhookInit
             PROVE  HookInv
  OBVIOUS
<1>1. /\ Row("NONE") \in RowType /\ RowOK(Row("NONE"))
      /\ Row("NONE").status = "NONE"
  BY WebhookAssumption DEF Row, RowType, RowOK
<1>2. delivery = [k \in Keys |-> Row("NONE")] /\ sender = [s \in Senders |-> Resting]
  BY DEF WebhookInit
<1>3. delivery \in [Keys -> RowType]
  BY <1>1, <1>2
<1>4. /\ sender \in [Senders -> CallType]
      /\ \A s \in Senders : CallOK(sender[s], delivery)
  BY <1>2, <1>3, RestingIsFine
<1>5. subscribed \subseteq Subscriptions /\ events \in 0..MaxEvents /\ deaths \in 0..MaxDeaths
  BY WebhookAssumption DEF WebhookInit
<1>6. WebhookTypeOK
  BY <1>3, <1>4, <1>5, TypeOfHooks
<1>7. Unheard /\ Posting
  BY <1>1, <1>2, <1>4 DEF Unheard, Posting
<1> QED
  BY <1>6, <1>7 DEF HookInv

\* handleOutboundWebhookEvent.
LEMMA PlannedStep ==
  ASSUME HookInv, Planned
  PROVE  HookInv'
<1>1. /\ delivery \in [Keys -> RowType] /\ sender \in [Senders -> CallType]
      /\ subscribed \subseteq Subscriptions /\ events \in 0..MaxEvents /\ deaths \in 0..MaxDeaths
  BY TypeOfHooks DEF HookInv
<1>2. \A k \in Keys : k[1] \in Nat
  BY DEF Keys
<1>3. \A k \in Keys : \/ delivery'[k] = delivery[k]
                      \/ delivery'[k] = Row("READ") /\ k[1] = events + 1
  BY DEF Planned
<1>4. /\ events' = events + 1 /\ events' \in 0..MaxEvents
      /\ UNCHANGED <<subscribed, sender, deaths>>
      /\ delivery' = [k \in Keys |-> delivery'[k]]
  BY <1>1, WebhookAssumption DEF Planned
<1>5. Row("READ") \in RowType /\ RowOK(Row("READ"))
      /\ Row("READ").status = "READ" /\ Row("READ").posts = 0
  BY WebhookAssumption DEF Row, RowType, RowOK, Made
<1>6. delivery' \in [Keys -> RowType]
  BY <1>1, <1>3, <1>4, <1>5
<1>7. \A k \in Keys : RowOK(delivery[k]) /\ delivery[k].posts \in Nat
  BY <1>1, WebhookAssumption DEF HookInv, Posting, RowType
<1>8. ASSUME NEW k \in Keys
      PROVE  RowOK(delivery'[k]) /\ Grows(delivery[k], delivery'[k])
  <2>1. CASE delivery'[k] = delivery[k]
    BY <2>1, <1>7 DEF Grows
  <2>2. CASE delivery'[k] = Row("READ") /\ k[1] = events + 1
    <3>1. delivery[k].status = "NONE"
      BY <2>2, <1>1, <1>2 DEF HookInv, Unheard
    <3>2. delivery[k].posts = 0 /\ ~delivery[k].accepted
      BY <3>1, <1>7 DEF RowOK, Made
    <3> QED
      BY <2>2, <3>1, <3>2, <1>5 DEF Grows, Made
  <2> QED
    BY <2>1, <2>2, <1>3
<1>9. Unheard'
  BY <1>1, <1>2, <1>3, <1>4 DEF HookInv, Unheard
<1> QED
  BY <1>1, <1>4, <1>6, <1>8, <1>9, Frame

\* createMany.
LEMMA CreateStep ==
  ASSUME HookInv, NEW e \in 1..MaxEvents, CreateDeliveries(e)
  PROVE  HookInv'
<1>1. /\ delivery \in [Keys -> RowType] /\ sender \in [Senders -> CallType]
      /\ subscribed \subseteq Subscriptions /\ events \in 0..MaxEvents /\ deaths \in 0..MaxDeaths
      /\ \A k \in Keys : RowOK(delivery[k])
  BY TypeOfHooks DEF HookInv, Posting
<1>2. /\ UNCHANGED <<subscribed, events, sender, deaths>>
      /\ delivery' = [k \in Keys |-> delivery'[k]]
  BY <1>1 DEF CreateDeliveries
<1>3. \A k \in Keys : \/ delivery'[k] = delivery[k]
                      \/ /\ delivery[k].status = "READ"
                         /\ \E s \in {"NONE", "PENDING"} : delivery'[k] = Row(s)
  BY DEF CreateDeliveries, ReadFor
<1>4. \A s \in {"NONE", "PENDING"} : Row(s) \in RowType /\ RowOK(Row(s))
  BY WebhookAssumption DEF Row, RowType, RowOK, Made
<1>5. ASSUME NEW k \in Keys
      PROVE  delivery'[k] \in RowType /\ RowOK(delivery'[k]) /\ Grows(delivery[k], delivery'[k])
  <2>1. delivery[k] \in RowType /\ RowOK(delivery[k])
    BY <1>1
  <2>2. CASE delivery'[k] = delivery[k]
    BY <2>1, <2>2, WebhookAssumption DEF Grows, RowType
  <2>3. ASSUME delivery[k].status = "READ",
               NEW s \in {"NONE", "PENDING"}, delivery'[k] = Row(s)
        PROVE  Grows(delivery[k], delivery'[k])
    <3>1. delivery[k].posts = 0 /\ ~delivery[k].accepted /\ ~Made(delivery[k])
      BY <2>1, <2>3 DEF RowOK, Made
    <3>2. Row(s).posts = 0
      BY DEF Row
    <3> QED
      BY <2>3, <3>1, <3>2 DEF Grows
  <2> QED
    BY <2>1, <2>2, <2>3, <1>3, <1>4
<1>6. Unheard'
  BY <1>2, <1>3 DEF HookInv, Unheard
<1> QED
  BY <1>1, <1>2, <1>5, <1>6, Frame

\* The subscriptions.
LEMMA UnsubscribeStep ==
  ASSUME HookInv, NEW u \in Subscriptions, Unsubscribe(u)
  PROVE  HookInv'
<1>1. /\ delivery \in [Keys -> RowType] /\ sender \in [Senders -> CallType]
      /\ subscribed \subseteq Subscriptions /\ events \in 0..MaxEvents /\ deaths \in 0..MaxDeaths
      /\ \A k \in Keys : RowOK(delivery[k])
  BY TypeOfHooks DEF HookInv, Posting
<1>2. /\ UNCHANGED <<events, sender, deaths>> /\ subscribed' \subseteq Subscriptions
      /\ delivery' = [k \in Keys |-> delivery'[k]]
  BY <1>1 DEF Unsubscribe
<1>3. ASSUME NEW r \in RowType, RowOK(r), Made(r)
      PROVE  LET q == [r EXCEPT !.status = "DELETED"]
             IN  q \in RowType /\ RowOK(q) /\ Grows(r, q)
  BY <1>3, WebhookAssumption DEF RowType, RowOK, Grows, Made
<1>4. \A r \in RowType : Grows(r, r)
  BY WebhookAssumption DEF Grows, RowType
<1>5. \A k \in Keys : \/ delivery'[k] = delivery[k]
                      \/ /\ delivery'[k] = [delivery[k] EXCEPT !.status = "DELETED"]
                         /\ Made(delivery[k])
  BY DEF Unsubscribe
<1>6. ASSUME NEW k \in Keys
      PROVE  delivery'[k] \in RowType /\ RowOK(delivery'[k]) /\ Grows(delivery[k], delivery'[k])
  <2>1. delivery[k] \in RowType /\ RowOK(delivery[k])
    BY <1>1
  <2>2. CASE delivery'[k] = delivery[k]
    BY <2>1, <2>2, <1>4
  <2>3. CASE /\ delivery'[k] = [delivery[k] EXCEPT !.status = "DELETED"]
             /\ Made(delivery[k])
    BY <2>1, <2>3, <1>3
  <2> QED
    BY <2>2, <2>3, <1>5
<1>7. Unheard'
  BY <1>2, <1>5 DEF HookInv, Unheard, Made
<1> QED
  BY <1>1, <1>2, <1>6, <1>7, Frame

\* A step that writes one row.
LEMMA OneRow ==
  ASSUME HookInv, NEW k \in Keys, NEW q \in RowType,
         RowOK(q), Grows(delivery[k], q), Made(q), Made(delivery[k]),
         delivery' = [delivery EXCEPT ![k] = q],
         UNCHANGED <<subscribed, events, deaths>>,
         sender' \in [Senders -> CallType],
         \A s \in Senders : sender'[s] = sender[s] \/ CallOK(sender'[s], delivery')
  PROVE  HookInv'
<1>1. /\ delivery \in [Keys -> RowType]
      /\ subscribed \subseteq Subscriptions /\ events \in 0..MaxEvents /\ deaths \in 0..MaxDeaths
      /\ \A j \in Keys : RowOK(delivery[j])
  BY TypeOfHooks DEF HookInv, Posting
<1>2. \A r \in RowType : Grows(r, r)
  BY WebhookAssumption DEF Grows, RowType
<1>3. delivery' \in [Keys -> RowType] /\ \A j \in Keys : delivery'[j] = IF j = k THEN q ELSE delivery[j]
  BY <1>1
<1>4. \A j \in Keys : RowOK(delivery'[j]) /\ Grows(delivery[j], delivery'[j])
  BY <1>1, <1>2, <1>3
<1>5. Unheard'
  BY <1>3 DEF HookInv, Unheard, Made
<1> QED
  BY <1>1, <1>3, <1>4, <1>5, Frame

LEMMA RetryStep ==
  ASSUME HookInv, NEW k \in Keys, RetryFallsDue(k)
  PROVE  HookInv'
<1> DEFINE q == [delivery[k] EXCEPT !.next = "now"]
<1>1. delivery[k] \in RowType /\ RowOK(delivery[k]) /\ sender \in [Senders -> CallType]
  BY TypeOfHooks DEF HookInv, Posting
<1>2. ASSUME NEW r \in RowType, RowOK(r)
      PROVE  /\ [r EXCEPT !.next = "now"] \in RowType
             /\ RowOK([r EXCEPT !.next = "now"]) /\ Grows(r, [r EXCEPT !.next = "now"])
             /\ [r EXCEPT !.next = "now"].status = r.status
  BY <1>2, WebhookAssumption DEF RowType, RowOK, Grows, Made
<1>3. /\ delivery' = [delivery EXCEPT ![k] = q]
      /\ UNCHANGED <<subscribed, events, deaths, sender>>
  BY DEF RetryFallsDue
<1>4. q \in RowType /\ RowOK(q) /\ Grows(delivery[k], q) /\ q.status = delivery[k].status
  BY <1>1, <1>2
<1>5. Made(delivery[k]) /\ Made(q)
  BY <1>4 DEF RetryFallsDue, Made
<1> HIDE DEF q
<1> QED
  BY <1>1, <1>3, <1>4, <1>5, OneRow

\* A call of processDueWebhookDeliveries that reads, ends or dies.
LEMMA SenderRests ==
  ASSUME HookInv, NEW s \in Senders, SenderReads(s) \/ SenderEnds(s) \/ SenderDies(s)
  PROVE  HookInv'
<1>1. /\ delivery \in [Keys -> RowType] /\ sender \in [Senders -> CallType]
      /\ subscribed \subseteq Subscriptions /\ events \in 0..MaxEvents /\ deaths \in 0..MaxDeaths
      /\ \A k \in Keys : RowOK(delivery[k])
  BY TypeOfHooks DEF HookInv, Posting
<1>2. UNCHANGED <<subscribed, events, delivery>> /\ deaths' \in 0..MaxDeaths
  BY <1>1, WebhookAssumption DEF SenderReads, SenderEnds, SenderDies
<1>3. sender' = [sender EXCEPT ![s] = sender'[s]]
  BY <1>1 DEF SenderReads, SenderEnds, SenderDies
<1>4. sender'[s] \in CallType /\ CallOK(sender'[s], delivery)
  <2>1. CASE SenderEnds(s) \/ SenderDies(s)
    BY <2>1, <1>1, RestingIsFine DEF SenderEnds, SenderDies
  <2>2. CASE SenderReads(s)
    <3> DEFINE due == {k \in Keys : IsDue(k)}
               seen == [k \in Keys |-> IF IsDue(k) THEN delivery[k].attempts ELSE 0]
    <3>1. sender'[s] = [Resting EXCEPT !.at = "loop", !.due = due, !.seen = seen]
      BY <2>2, <1>1 DEF SenderReads
    <3>2. \A k \in Keys : delivery[k].attempts \in Nat /\ delivery[k].posts \in Nat
      BY <1>1, WebhookAssumption DEF RowType
    <3>3. due \in SUBSET Keys /\ seen \in [Keys -> Nat]
      BY <3>2
    <3>4. /\ \A k \in due : Made(delivery[k])
          /\ \A k \in Keys : seen[k] <= delivery[k].posts /\ seen[k] < MaxAttempts
      BY <3>2, <1>1, WebhookAssumption DEF IsDue, RowOK, Made
    <3> HIDE DEF due, seen
    <3>5. /\ sender'[s] \in CallType
          /\ sender'[s].at = "loop" /\ sender'[s].due = due /\ sender'[s].seen = seen
      BY <3>1, <3>3 DEF Resting, CallType
    <3> QED
      BY <3>4, <3>5 DEF CallOK
  <2> QED
    BY <2>1, <2>2
<1>5. sender' \in [Senders -> CallType]
      /\ \A t \in Senders : sender'[t] = sender[t] \/ CallOK(sender'[t], delivery')
  BY <1>1, <1>2, <1>3, <1>4
<1>6. \A k \in Keys : RowOK(delivery'[k]) /\ Grows(delivery[k], delivery'[k])
  BY <1>1, <1>2, WebhookAssumption DEF Grows, RowType
<1>7. Unheard'
  BY <1>2 DEF HookInv, Unheard
<1> QED
  BY <1>1, <1>2, <1>5, <1>6, <1>7, Frame

LEMMA SenderPosts ==
  ASSUME HookInv, NEW s \in Senders, NEW k \in Keys, Posts(s, k)
  PROVE  HookInv'
<1>1. /\ delivery \in [Keys -> RowType] /\ sender \in [Senders -> CallType]
      /\ RowOK(delivery[k]) /\ CallOK(sender[s], delivery)
  BY TypeOfHooks DEF HookInv, Posting
<1>2. PICK accepted \in BOOLEAN, ok \in BOOLEAN :
        /\ ok => accepted
        /\ delivery' = [delivery EXCEPT ![k].posts = UpToMax(@ + 1),
                                        ![k].accepted = @ \/ accepted]
        /\ sender' = [sender EXCEPT ![s].at = "write", ![s].of = k, ![s].ok = ok]
  BY DEF Posts
<1>3. k \in sender[s].due /\ UNCHANGED <<subscribed, events, deaths>>
  BY DEF Posts
<1> DEFINE n == UpToMax(delivery[k].posts + 1)
           q == [delivery[k] EXCEPT !.posts = n, !.accepted = @ \/ accepted]
           c == [sender[s] EXCEPT !.at = "write", !.of = k, !.ok = ok]
<1>4. /\ n \in 0..MaxAttempts /\ n >= delivery[k].posts
      /\ \A i \in Nat : i <= delivery[k].posts /\ i < MaxAttempts => i + 1 <= n
  <2>1. delivery[k].posts \in 0..MaxAttempts
    BY <1>1 DEF RowType
  <2> QED
    BY <2>1, WebhookAssumption DEF UpToMax
<1>5. Made(delivery[k])
  BY <1>1, <1>3 DEF CallOK
<1> HIDE DEF n
<1>6. /\ q \in RowType /\ q.posts = n /\ q.status = delivery[k].status
      /\ q.attempts = delivery[k].attempts
      /\ q.accepted <=> (delivery[k].accepted \/ accepted)
  <2>1. delivery[k] \in RowType
    BY <1>1
  <2> QED
    BY <2>1, <1>4 DEF RowType
<1>7. /\ c \in CallType /\ c.at = "write" /\ c.of = k /\ c.due = sender[s].due
      /\ c.seen = sender[s].seen /\ (c.ok <=> ok)
  <2>1. sender[s] \in CallType
    BY <1>1
  <2> QED
    BY <2>1 DEF CallType
<1>8. /\ delivery' = [delivery EXCEPT ![k] = q]
      /\ sender' = [sender EXCEPT ![s] = c]
  BY <1>1, <1>2 DEF n
<1> HIDE DEF q, c
<1>9. delivery[k].posts \in Nat /\ n \in Nat /\ delivery[k].attempts \in Nat
      /\ sender[s].seen \in [Keys -> Nat] /\ sender[s].due \subseteq Keys
  BY <1>1, <1>4, WebhookAssumption DEF RowType, CallType
<1>10. RowOK(q) /\ Grows(delivery[k], q)
  BY <1>1, <1>4, <1>5, <1>6, <1>9, WebhookAssumption DEF RowOK, Grows, Made
<1>11. delivery'[k] = q /\ \A j \in Keys : j # k => delivery'[j] = delivery[j]
  BY <1>1, <1>8
<1>12. CallOK(c, delivery')
  <2>1. \A j \in Keys : Made(delivery'[j]) <=> Made(delivery[j])
    BY <1>6, <1>11 DEF Made
  <2>2. \A j \in Keys : c.seen[j] <= delivery'[j].posts /\ c.seen[j] < MaxAttempts
    BY <1>1, <1>4, <1>6, <1>7, <1>9, <1>11, WebhookAssumption DEF CallOK
  <2>3. c.seen[c.of] + 1 <= delivery'[c.of].posts
    BY <1>1, <1>4, <1>6, <1>7, <1>9, <1>11 DEF CallOK
  <2> QED
    BY <1>1, <1>2, <1>3, <1>6, <1>7, <1>9, <1>11, <2>1, <2>2, <2>3 DEF CallOK
<1>13. sender' \in [Senders -> CallType]
       /\ \A t \in Senders : sender'[t] = sender[t] \/ CallOK(sender'[t], delivery')
  BY <1>1, <1>7, <1>8, <1>12
<1> QED
  BY <1>3, <1>5, <1>6, <1>8, <1>10, <1>13, OneRow DEF Made

\* The three ways a call writes a row.
LEMMA RowWritten ==
  ASSUME NEW r \in RowType, RowOK(r), Made(r),
         NEW n \in Nat, n <= r.posts
  PROVE  /\ r.accepted =>
              LET q == [r EXCEPT !.status = "SUCCESS", !.attempts = n]
              IN  q \in RowType /\ RowOK(q) /\ Grows(r, q) /\ Made(q)
         /\ n < MaxAttempts =>
              LET q == [r EXCEPT !.attempts = n, !.next = "later"]
              IN  q \in RowType /\ RowOK(q) /\ Grows(r, q) /\ Made(q)
         /\ n >= MaxAttempts =>
              LET q == [r EXCEPT !.status = "FAILED", !.attempts = n]
              IN  q \in RowType /\ RowOK(q) /\ Grows(r, q) /\ Made(q)
<1>1. [r EXCEPT !.status = "SUCCESS", !.attempts = n] \in RowType
  BY DEF RowType
<1>2. [r EXCEPT !.attempts = n, !.next = "later"] \in RowType
  BY DEF RowType
<1>3. [r EXCEPT !.status = "FAILED", !.attempts = n] \in RowType
  BY DEF RowType
<1>4. r.posts \in Nat
  BY WebhookAssumption DEF RowType
<1>5. ASSUME r.accepted
      PROVE  LET q == [r EXCEPT !.status = "SUCCESS", !.attempts = n]
             IN  RowOK(q) /\ Grows(r, q) /\ Made(q)
  BY <1>4, <1>5 DEF RowType, RowOK, Grows, Made
<1>6. ASSUME n < MaxAttempts
      PROVE  LET q == [r EXCEPT !.attempts = n, !.next = "later"]
             IN  RowOK(q) /\ Grows(r, q) /\ Made(q)
  BY <1>4, <1>6 DEF RowType, RowOK, Grows, Made
<1>7. ASSUME n >= MaxAttempts
      PROVE  LET q == [r EXCEPT !.status = "FAILED", !.attempts = n]
             IN  RowOK(q) /\ Grows(r, q) /\ Made(q)
  BY <1>4, <1>7, WebhookAssumption DEF RowType, RowOK, Grows, Made
<1> QED
  BY <1>1, <1>2, <1>3, <1>5, <1>6, <1>7

LEMMA SenderWrote ==
  ASSUME HookInv, NEW s \in Senders, SenderWrites(s)
  PROVE  HookInv'
<1> DEFINE k == sender[s].of
           r == delivery[k]
<1>1. /\ delivery \in [Keys -> RowType] /\ sender \in [Senders -> CallType]
      /\ CallOK(sender[s], delivery)
      /\ \A j \in Keys : RowOK(delivery[j])
      /\ subscribed \subseteq Subscriptions /\ events \in 0..MaxEvents /\ deaths \in 0..MaxDeaths
  BY TypeOfHooks DEF HookInv, Posting
<1>2. /\ sender[s].at = "write" /\ UNCHANGED <<subscribed, events, deaths>>
      /\ sender[s].due \subseteq Keys /\ sender[s].seen \in [Keys -> Nat]
  BY <1>1 DEF SenderWrites, CallType
<1>3. k \in Keys /\ k \in sender[s].due /\ Made(r)
  BY <1>1, <1>2 DEF CallOK
<1>4. /\ attempt(s) \in Nat /\ attempt(s) <= r.posts
      /\ sender[s].ok => r.accepted
  BY <1>1, <1>2, <1>3 DEF CallOK, attempt
<1>5. CASE delivery[k].status = "DELETED" /\ sender' = [sender EXCEPT ![s] = Resting]
           /\ UNCHANGED delivery
  <2>1. sender' \in [Senders -> CallType]
        /\ \A t \in Senders : sender'[t] = sender[t] \/ CallOK(sender'[t], delivery')
    BY <1>1, <1>5, RestingIsFine
  <2>2. \A j \in Keys : RowOK(delivery'[j]) /\ Grows(delivery[j], delivery'[j])
    BY <1>1, <1>5, WebhookAssumption DEF Grows, RowType
  <2>3. Unheard'
    BY <1>2, <1>5 DEF HookInv, Unheard, Made
  <2> QED
    BY <1>1, <1>2, <1>5, <2>1, <2>2, <2>3, Frame
<1>6. CASE /\ r.status # "DELETED"
           /\ delivery' = [delivery EXCEPT ![k] = Written(s, r)]
           /\ sender' = [sender EXCEPT ![s] =
                [at |-> "loop", due |-> @.due \ {k}, seen |-> [@.seen EXCEPT ![k] = 0],
                 of |-> NoKey, ok |-> FALSE]]
  <2> DEFINE q == Written(s, r)
             c == [at |-> "loop", due |-> sender[s].due \ {k},
                   seen |-> [sender[s].seen EXCEPT ![k] = 0], of |-> NoKey, ok |-> FALSE]
  <2>1. q \in RowType /\ RowOK(q) /\ Grows(r, q) /\ Made(q)
    <3>1. r \in RowType /\ RowOK(r) /\ r.posts \in Nat
      BY <1>1, <1>3, WebhookAssumption DEF RowType
    <3> DEFINE n == attempt(s)
    <3>2. n \in Nat /\ n <= r.posts
      BY <1>4
    <3>3. \/ r.accepted /\ q = [r EXCEPT !.status = "SUCCESS", !.attempts = n]
          \/ n < MaxAttempts /\ q = [r EXCEPT !.attempts = n, !.next = "later"]
          \/ n >= MaxAttempts /\ q = [r EXCEPT !.status = "FAILED", !.attempts = n]
      <4>1. CASE sender[s].ok
        BY <4>1, <1>4 DEF Written
      <4>2. CASE ~sender[s].ok /\ n < MaxAttempts
        BY <4>2 DEF Written, shouldRetry
      <4>3. CASE ~sender[s].ok /\ ~(n < MaxAttempts)
        <5>1. n >= MaxAttempts
          BY <4>3, <3>2, WebhookAssumption
        <5> QED
          BY <4>3, <5>1 DEF Written, shouldRetry
      <4> QED
        BY <4>1, <4>2, <4>3
    <3> HIDE DEF q, r, n
    <3>4. CASE r.accepted /\ q = [r EXCEPT !.status = "SUCCESS", !.attempts = n]
      BY <3>1, <3>2, <3>4, <1>3, RowWritten
    <3>5. CASE n < MaxAttempts /\ q = [r EXCEPT !.attempts = n, !.next = "later"]
      BY <3>1, <3>2, <3>5, <1>3, RowWritten
    <3>6. CASE n >= MaxAttempts /\ q = [r EXCEPT !.status = "FAILED", !.attempts = n]
      BY <3>1, <3>2, <3>6, <1>3, RowWritten
    <3> QED
      BY <3>3, <3>4, <3>5, <3>6
  <2>2. /\ c \in CallType /\ c.at = "loop" /\ c.due \subseteq sender[s].due
        /\ \A j \in Keys : c.seen[j] \in {0, sender[s].seen[j]}
    BY <1>2, <1>3 DEF CallType
  <2>3. delivery' = [delivery EXCEPT ![k] = q] /\ sender' = [sender EXCEPT ![s] = c]
    BY <1>1, <1>6
  <2> HIDE DEF q, c
  <2>4. CallOK(c, delivery)
    <3>1. \A j \in Keys : delivery[j].posts \in Nat
      BY <1>1, WebhookAssumption DEF RowType
    <3> QED
      BY <1>1, <2>2, <3>1, WebhookAssumption DEF CallOK
  <2>5. delivery' \in [Keys -> RowType] /\ \A j \in Keys : Grows(delivery[j], delivery'[j])
    <3>1. \A j \in Keys : Grows(delivery[j], delivery[j])
      BY <1>1, WebhookAssumption DEF Grows, RowType
    <3> HIDE DEF k, r
    <3>2. \A j \in Keys : delivery'[j] = IF j = k THEN q ELSE delivery[j]
      BY <1>1, <1>3, <2>3
    <3>3. delivery' \in [Keys -> RowType]
      BY <1>1, <1>3, <2>1, <2>3
    <3> QED
      BY <3>1, <3>2, <3>3, <2>1, <1>3 DEF r
  <2>6. CallOK(c, delivery')
    BY <1>1, <2>2, <2>4, <2>5, CallsStay
  <2>7. sender' \in [Senders -> CallType]
        /\ \A t \in Senders : sender'[t] = sender[t] \/ CallOK(sender'[t], delivery')
    BY <1>1, <2>2, <2>3, <2>6
  <2> QED
    BY <1>2, <1>3, <2>1, <2>3, <2>7, OneRow
<1> QED
  BY <1>1, <1>3, <1>5, <1>6 DEF SenderWrites

LEMMA HookStep == HookInv /\ [Next]_vars => HookInv'
<1> SUFFICES ASSUME HookInv, [Next]_vars
             PROVE  HookInv'
  OBVIOUS
<1>1. CASE UNCHANGED webhookVars
  BY <1>1 DEF webhookVars, HookInv, WebhookTypeOK, Unheard, Posting
<1>2. CASE Planned
  BY <1>2, PlannedStep
<1>3. CASE WebhookNext
  BY <1>3, CreateStep, UnsubscribeStep, RetryStep, SenderRests, SenderPosts, SenderWrote
     DEF WebhookNext, SenderStep
<1>4. UNCHANGED webhookVars \/ Planned \/ WebhookNext
  BY DEF Next, vars, PayerStep, PayReads, PayCreates, PayMarks, PayPublishes, PayerDies,
         SetStatus, HandPublishes, DueDatePasses, CheckReads, CheckWrites
<1> QED
  BY <1>1, <1>2, <1>3, <1>4

-----------------------------------------------------------------------------
(* The theorems.                                                           *)

LEMMA Invariants == Spec => [](PayInv /\ HookInv)
<1>1. Init => PayInv /\ HookInv
  BY PayInit, HookInit DEF Init
<1> QED
  BY <1>1, PayStep, HookStep, PTL DEF Spec

\* The invoice's and the deliveries' variables keep their types.
THEOREM TypeCorrect == Spec => []TypeOK
<1>1. PayInv /\ HookInv => TypeOK
  BY DEF PayInv, HookInv, PayTypeOK, TypeOK
<1> QED
  BY <1>1, Invariants, PTL

\* recordInvoicePayment: whoever else pays, sets the status or marks it overdue
\* between its read and its writes, it marks PAID only an invoice paid in full.
THEOREM PaidInFull == Spec => []PaidIsCovered
<1>1. PayInv => PaidIsCovered
  BY DEF PayInv, Paying, PaidIsCovered
<1> QED
  BY <1>1, Invariants, PTL

\* processDueWebhookDeliveries: however its calls overlap, die and write over
\* each other, a delivery fails after MaxAttempts posts and no fewer, and
\* succeeds only if the receiver took it.
THEOREM EarnedVerdicts == Spec => []VerdictIsEarned
<1>1. HookInv => VerdictIsEarned
  BY DEF HookInv, Posting, RowOK, VerdictIsEarned
<1> QED
  BY <1>1, Invariants, PTL
=============================================================================
