--------------------------- MODULE InvoicePayments ---------------------------
(***************************************************************************)
(* An invoice: payments recorded by several people, a status set by hand,  *)
(* the cron call that marks it overdue, and the webhooks that announce     *)
(* that it is paid (WebhookDelivery).                                      *)
(*                                                                         *)
(* recordInvoicePayment reads the invoice and its payments, then writes a  *)
(* payment, then perhaps the status, without a transaction; the other      *)
(* writers of the status are as unconditional. Payments are only ever      *)
(* added, so their sum stands for them.                                    *)
(***************************************************************************)
EXTENDS WebhookDelivery

CONSTANTS
  Total,      \* totalAmount
  Amounts,    \* the amounts of the payments people enter
  Payers,     \* the requests that record a payment
  Checkers,   \* the calls of processOverdueInvoices that may overlap
  MaxByHand,  \* bound: statuses set by hand
  MaxLost     \* bound: requests that die

ASSUME InvoiceAssumption ==
  /\ Total \in Nat \ {0}
  /\ Amounts \subseteq Nat \ {0}
  /\ MaxByHand \in Nat /\ MaxLost \in Nat

VARIABLES
  status,    \* the invoice's status
  byHand,    \* ghost: its last status was set by hand
  paid,      \* the sum of its payments
  pastDue,   \* whether the due date has passed
  payer,     \* request -> where it is, the sum it read, its amount
  checker,   \* call -> whether it is about to write OVERDUE
  hand,      \* statuses set by hand, and whether invoice.paid is still to come
  lost       \* requests that died

invoiceVars == <<status, byHand, paid, pastDue, payer, checker, hand, lost>>
vars == <<invoiceVars, webhookVars>>

InvoiceStatus == {"DRAFT", "SENT", "PAID", "OVERDUE", "CANCELLED"}

NotPaying == [at |-> "idle", seen |-> 0, amount |-> 0]

Init ==
  /\ WebhookInit
  /\ status = "DRAFT"
  /\ byHand = FALSE
  /\ paid = 0
  /\ pastDue = FALSE
  /\ payer = [p \in Payers |-> NotPaying]
  /\ checker = [c \in Checkers |-> "idle"]
  /\ hand = [used |-> 0, publishes |-> FALSE]
  /\ lost = 0

-----------------------------------------------------------------------------
(* recordInvoicePayment.                                                   *)

PayReads(p, a) ==
  /\ payer[p].at = "idle"
  /\ status \notin {"PAID", "CANCELLED"}
  /\ paid + a <= Total
  /\ payer' = [payer EXCEPT ![p] = [at |-> "create", seen |-> paid, amount |-> a]]
  /\ UNCHANGED <<status, byHand, paid, pastDue, checker, hand, lost, webhookVars>>

\* A slip: the payment is counted twice.
Mut_CountsItTwice(p) == payer[p].seen + 2 * payer[p].amount >= Total

newlyPaidInFull(p) == payer[p].seen + payer[p].amount >= Total

PayCreates(p) ==
  /\ payer[p].at = "create"
  /\ paid' = paid + payer[p].amount
  /\ payer' = [payer EXCEPT ![p] = IF newlyPaidInFull(p) THEN [NotPaying EXCEPT !.at = "mark"]
                                                          ELSE NotPaying]
  /\ UNCHANGED <<status, byHand, pastDue, checker, hand, lost, webhookVars>>

PayMarks(p) ==
  /\ payer[p].at = "mark"
  /\ status' = "PAID" /\ byHand' = FALSE
  /\ payer' = [payer EXCEPT ![p].at = "publish"]
  /\ UNCHANGED <<paid, pastDue, checker, hand, lost, webhookVars>>

PayPublishes(p) ==
  /\ payer[p].at = "publish"
  /\ payer' = [payer EXCEPT ![p] = NotPaying]
  /\ Planned
  /\ UNCHANGED <<status, byHand, paid, pastDue, checker, hand, lost>>

PayerDies(p) ==
  /\ payer[p].at # "idle"
  /\ lost < MaxLost
  /\ lost' = lost + 1
  /\ payer' = [payer EXCEPT ![p] = NotPaying]
  /\ UNCHANGED <<status, byHand, paid, pastDue, checker, hand, webhookVars>>

-----------------------------------------------------------------------------
(* updateInvoiceStatus: any status, over any status.                       *)

SetStatus(s) ==
  /\ hand.used < MaxByHand /\ ~hand.publishes
  /\ status' = s /\ byHand' = TRUE
  /\ hand' = [used |-> hand.used + 1, publishes |-> s = "PAID"]
  /\ UNCHANGED <<paid, pastDue, payer, checker, lost, webhookVars>>

HandPublishes ==
  /\ hand.publishes
  /\ hand' = [hand EXCEPT !.publishes = FALSE]
  /\ Planned
  /\ UNCHANGED <<status, byHand, paid, pastDue, payer, checker, lost>>

-----------------------------------------------------------------------------
(* processOverdueInvoices.                                                 *)

DueDatePasses ==
  /\ ~pastDue
  /\ pastDue' = TRUE
  /\ UNCHANGED <<status, byHand, paid, payer, checker, hand, lost, webhookVars>>

CheckReads(c) ==
  /\ checker[c] = "idle"
  /\ status = "SENT" /\ pastDue /\ paid < Total
  /\ checker' = [checker EXCEPT ![c] = "write"]
  /\ UNCHANGED <<status, byHand, paid, pastDue, payer, hand, lost, webhookVars>>

CheckWrites(c) ==
  /\ checker[c] = "write"
  /\ status' = "OVERDUE" /\ byHand' = FALSE
  /\ checker' = [checker EXCEPT ![c] = "idle"]
  /\ UNCHANGED <<paid, pastDue, payer, hand, lost, webhookVars>>

-----------------------------------------------------------------------------
PayerStep(p) == PayCreates(p) \/ PayMarks(p) \/ PayPublishes(p)

Next ==
  \/ \E p \in Payers : PayerStep(p) \/ PayerDies(p) \/ \E a \in Amounts : PayReads(p, a)
  \/ HandPublishes \/ DueDatePasses
  \/ \E s \in InvoiceStatus : SetStatus(s)
  \/ \E c \in Checkers : CheckReads(c) \/ CheckWrites(c)
  \/ WebhookNext /\ UNCHANGED invoiceVars

Spec == Init /\ [][Next]_vars

FairSpec == Spec /\ WebhookFairness

-----------------------------------------------------------------------------
(* Properties.                                                             *)

\* Types.
TypeOK ==
  /\ WebhookTypeOK
  /\ status \in InvoiceStatus
  /\ byHand \in BOOLEAN
  /\ paid \in Nat
  /\ pastDue \in BOOLEAN
  /\ payer \in [Payers -> [at : {"idle", "create", "mark", "publish"},
                           seen : Nat, amount : Nat]]
  /\ checker \in [Checkers -> {"idle", "write"}]
  /\ hand \in [used : 0..MaxByHand, publishes : BOOLEAN]
  /\ lost \in 0..MaxLost

\* An invoice stands as PAID by its payments, and invoice.paid is about to be
\* published for it, only when they cover the total, whoever else pays, sets
\* the status or marks it overdue meanwhile.
PaidIsCovered ==
  /\ status = "PAID" /\ ~byHand => paid >= Total
  /\ \A p \in Payers : payer[p].at = "publish" => paid >= Total

(* Stated by a comment of the code, and not kept by it (README) *)

\* Payments never exceed the total (what recordInvoicePayment checks for).
NeverOverpaid == paid <= Total
=============================================================================
