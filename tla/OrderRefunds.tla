---------------------------- MODULE OrderRefunds ----------------------------
(***************************************************************************)
(* Refunds of one paid order (refund-fulfillment.server.ts).  Stripe owns  *)
(* the refunds and sends an event with a snapshot of a refund whenever it  *)
(* changes; an event is retried until its webhook answers without an error.*)
(* recordStripeRefund finds the order by the payment intent, which only    *)
(* fulfilment stores, copies the snapshot and rolls the order up.  The     *)
(* names are chosen so that the module can be extended beside Checkout.    *)
(***************************************************************************)
EXTENDS Naturals, FiniteSets, Functions

CONSTANTS
    Refunds,         \* refunds that may be made of the order
    Amount,          \* Amount[r]: amountCents
    Total            \* order.totalCents

ASSUME RefundAssumption ==
    /\ IsFiniteSet(Refunds) /\ Amount \in [Refunds -> Nat \ {0}]
    /\ Total \in Nat \ {0}

VARIABLES
    stripe,          \* stripe[r]: the refund's status at Stripe
    waiting,         \* events <<r, status>> not acknowledged yet
    acked,           \* events acknowledged
    orderStatus,     \* order.status
    row,             \* row[r]: order_refund.status, "none" without a row
    refunded,        \* order.refundedCents
    orderly          \* TRUE as long as events have come after the fulfilment
                     \* and none after a later one of its refund

orderVars == <<orderStatus, row, refunded>>
refundVars == <<stripe, waiting, acked, orderStatus, row, refunded, orderly>>

\* canceled and requires_action are like failed and pending here.
Statuses == {"pending", "succeeded", "failed"}
Events == Refunds \X Statuses

RefundInit ==
    /\ stripe = [r \in Refunds |-> "none"]
    /\ waiting = {} /\ acked = {}
    /\ orderStatus = "pending"
    /\ row = [r \in Refunds |-> "none"] /\ refunded = 0
    /\ orderly = TRUE

Sum(S) == SumFunctionOnSet(Amount, S)
Fulfilled == orderStatus # "pending"

\* fulfillCheckoutSession stores the payment intent.
Fulfill ==
    /\ ~Fulfilled /\ orderStatus' = "paid"
    /\ UNCHANGED <<stripe, waiting, acked, row, refunded, orderly>>

-----------------------------------------------------------------------------
\* Stripe.

Changes(r, s) ==
    /\ stripe' = [stripe EXCEPT ![r] = s]
    /\ waiting' = waiting \cup {<<r, s>>}
    /\ UNCHANGED <<acked, orderly>> /\ UNCHANGED orderVars

\* A refund is made; those that did not fail never exceed the payment.
RefundCreated(r, s) ==
    /\ stripe[r] = "none" /\ s \in {"pending", "succeeded"}
    /\ Sum({q \in Refunds : stripe[q] \in {"pending", "succeeded"}}) + Amount[r]
         <= Total
    /\ Changes(r, s)

\* A pending refund is decided; a bank may still return a succeeded one.
RefundUpdated(r, s) ==
    /\ \/ stripe[r] = "pending" /\ s \in {"succeeded", "failed"}
       \/ stripe[r] = "succeeded" /\ s = "failed"
    /\ Changes(r, s)

-----------------------------------------------------------------------------
\* The webhook.

\* The order of a refund's changes.
Later == [none |-> 0, pending |-> 1, succeeded |-> 2, failed |-> 3]
Rank(e) == Later[e[2]]

\* An event comes in any order, early or late, once or again.
Deliverable(e) == e \in waiting \cup acked

Timely(e) ==
    Fulfilled /\ \A f \in acked : f[1] = e[1] => Rank(f) <= Rank(e)

Acknowledge(e) ==
    /\ waiting' = waiting \ {e} /\ acked' = acked \cup {e}
    /\ orderly' = (orderly /\ Timely(e))
    /\ UNCHANGED stripe

\* No order has the payment intent: ignored.
RefundIgnored(e) ==
    /\ Deliverable(e) /\ ~Fulfilled
    /\ Acknowledge(e) /\ UNCHANGED orderVars

\* The row says the same: already-recorded.
RefundAlreadyRecorded(e) ==
    /\ Deliverable(e) /\ Fulfilled /\ row[e[1]] = e[2]
    /\ Acknowledge(e) /\ UNCHANGED orderVars

RolledUp(cents) ==
    IF cents = 0 THEN "paid"
    ELSE IF cents = Total THEN "refunded" ELSE "partially_refunded"

\* Mutant: ON CONFLICT DO NOTHING.
InsertOnly(e) == IF row[e[1]] = "none" THEN [row EXCEPT ![e[1]] = e[2]] ELSE row

\* The upsert by stripeRefundId.
Upsert(e) == [row EXCEPT ![e[1]] = e[2]]

Succeeded(rows) == Sum({r \in Refunds : rows[r] = "succeeded"})

\* Mutant: the refunded cents are added up event by event.
RecordIncrement(e) ==
    /\ Deliverable(e) /\ Fulfilled /\ row[e[1]] # e[2]
    /\ Succeeded(Upsert(e)) <= Total
    /\ row' = Upsert(e)
    /\ refunded' = refunded + (IF e[2] = "succeeded" THEN Amount[e[1]] ELSE 0)
    /\ orderStatus' = RolledUp(refunded')
    /\ Acknowledge(e)

\* recorded: the row, the total of succeeded refunds and the order's status.  It
\* throws, and Stripe retries, while the total exceeds the order's.
RefundRecorded(e) ==
    /\ Deliverable(e) /\ Fulfilled /\ row[e[1]] # e[2]
    /\ Succeeded(Upsert(e)) <= Total
    /\ row' = Upsert(e)
    /\ refunded' = Succeeded(row')
    /\ orderStatus' = RolledUp(refunded')
    /\ Acknowledge(e)

RecordStripeRefund(e) ==
    RefundIgnored(e) \/ RefundAlreadyRecorded(e) \/ RefundRecorded(e)

RefundNext ==
    \/ Fulfill
    \/ \E r \in Refunds, s \in Statuses : RefundCreated(r, s) \/ RefundUpdated(r, s)
    \/ \E e \in Events : RecordStripeRefund(e)

RefundSpec == RefundInit /\ [][RefundNext]_refundVars

\* Stripe retries events until they are acknowledged.
RefundFairSpec ==
    RefundSpec /\ \A e \in Events :
                     WF_refundVars(e \in waiting /\ RecordStripeRefund(e))

(***************************************************************************)
(* Properties                                                              *)
(***************************************************************************)
\* Types of the refunds and the order.
RefundTypeOK ==
    /\ stripe \in [Refunds -> Statuses \cup {"none"}]
    /\ waiting \subseteq Events /\ acked \subseteq Events
    /\ orderStatus \in {"pending", "paid", "partially_refunded", "refunded"}
    /\ row \in [Refunds -> Statuses \cup {"none"}]
    /\ refunded \in 0..Total /\ orderly \in BOOLEAN

\* The order always tells its refund rows: refundedCents is the sum of the
\* succeeded ones and the status follows from it.
RollUpExact ==
    Fulfilled => /\ refunded = Succeeded(row)
                 /\ orderStatus = RolledUp(refunded)

\* As long as Stripe's events come in order, however late and often, the row shows
\* a refund's latest change once its event is acknowledged: what Stripe was told
\* is recorded is neither lost nor overwritten.
AcknowledgedIsRecorded ==
    orderly => \A r \in Refunds : <<r, stripe[r]>> \in acked => row[r] = stripe[r]

\* The rows then agree with Stripe in the end, although recording may throw while
\* a returned refund and its replacement exceed the total.
RefundsConverge == <>[](orderly => \A r \in Refunds : row[r] = stripe[r])
=============================================================================
