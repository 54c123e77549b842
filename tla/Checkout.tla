------------------------------ MODULE Checkout ------------------------------
(***************************************************************************)
(* Commerce: checkout creation, Stripe sessions, webhook fulfilment, access*)
(* grants, code redemption and the places of one event occurrence          *)
(* (src/server/checkout, redeem-access-code, confirmed-event-registration).*)
(*                                                                         *)
(* Orders are the purchases that may be attempted; each concerns the one   *)
(* event or the one course of the model.  A grant is named after the bulk  *)
(* order that creates it.  Transactions that lock the event_occurrence row *)
(* exclude each other; the reservation transaction counts pending orders   *)
(* and grants with two statements, between which a bulk fulfilment (it     *)
(* locks order and grant only) may commit.  Stripe is external: a session  *)
(* ends paid, declined or expired and its webhooks arrive at any time, any *)
(* number of times.  Refunds are in OrderRefunds: "paid" stands here for   *)
(* paid, partially_refunded and refunded.                                  *)
(***************************************************************************)
EXTENDS Integers, FiniteSets, Functions

CONSTANTS
    Orders,          \* purchases that may be attempted
    Users,           \* purchasers and code holders
    Buyer,           \* Buyer[o]: purchaserUserId
    Kind,            \* Kind[o]: order.kind
    EventOrders,     \* orders for places at the event; the others: the course
    Quantity,        \* Quantity[o]: order_item.quantity
    Base,            \* Base[o]: the bulk order whose grant o creates or extends
    SingleUse,       \* bulk orders with fulfillmentMode single_use_codes
    Capacity         \* event_occurrence.capacity

Kinds == {"individual_purchase", "event_registration", "bulk_purchase",
          "capacity_extension"}

Nobody == "nobody"

ASSUME CheckoutAssumption ==
    /\ IsFiniteSet(Users) /\ IsFiniteSet(Orders)
    /\ Buyer \in [Orders -> Users] /\ Kind \in [Orders -> Kinds]
    /\ EventOrders \subseteq Orders /\ SingleUse \subseteq Orders
    /\ Quantity \in [Orders -> Nat \ {0}] /\ Base \in [Orders -> Orders]
    /\ Capacity \in Nat /\ Nobody \notin Orders
    /\ \A o \in Orders :
          /\ Kind[o] = "event_registration" => o \in EventOrders
          /\ Kind[o] = "individual_purchase" => o \notin EventOrders
          /\ Kind[o] = "bulk_purchase" => Base[o] = o
          /\ Kind[o] = "capacity_extension" =>
                /\ Kind[Base[o]] = "bulk_purchase"
                /\ o \in EventOrders <=> Base[o] \in EventOrders

VARIABLES
    phase,           \* phase[o]: where the checkout request is
    status,          \* status[o]: order.status, or "none" without a row
    session,         \* session[o]: the Stripe Checkout Session
    lapsed,          \* pending orders older than EVENT_RESERVATION_MINUTES
    locker,          \* the reservation that holds the occurrence row lock
    counted,         \* pending places that reservation has counted
    registration,    \* registration[u]: event_registration.status
    confirmed,       \* event_occurrence.confirmedCount
    enrolled,        \* users with an enrollment
    quantity,        \* quantity[b]: access_grant.quantity, 0 without a grant
    redeemed,        \* redeemed[b]: access_grant.redeemed
    codes,           \* codes[b]: ordinals of its codes; {0} for a shared code
    used,            \* used[b]: ordinals of single-use codes redeemed
    revoked,         \* grants revoked by an administrator
    review,          \* orders with an order.review_required event
    started          \* TRUE: the event has begun and takes nobody any more

requestVars == <<phase, session, lapsed, locker, counted>>
placeVars == <<registration, confirmed, enrolled, started>>
grantVars == <<quantity, redeemed, codes, used, revoked>>
vars == <<phase, status, session, lapsed, locker, counted, registration,
          confirmed, enrolled, quantity, redeemed, codes, used, revoked, review,
          started>>

Init ==
    /\ phase = [o \in Orders |-> "start"]
    /\ status = [o \in Orders |-> "none"]
    /\ session = [o \in Orders |-> "none"]
    /\ lapsed = {} /\ locker = Nobody /\ counted = 0
    /\ registration = [u \in Users |-> "none"]
    /\ confirmed = 0 /\ enrolled = {}
    /\ quantity = [o \in Orders |-> 0] /\ redeemed = [o \in Orders |-> 0]
    /\ codes = [o \in Orders |-> {}] /\ used = [o \in Orders |-> {}]
    /\ revoked = {} /\ review = {} /\ started = FALSE

Places(S) == SumFunctionOnSet(Quantity, S)

\* findReservedEventPlaces: the places of recent pending orders ...
Reserving == {o \in EventOrders : status[o] = "pending" /\ o \notin lapsed}
PendingPlaces == Places(Reserving)

\* ... and the unredeemed places of grants that are not revoked.
Unredeemed == [b \in Orders |-> quantity[b] - redeemed[b]]
GrantPlaces == SumFunctionOnSet(Unredeemed, EventOrders \ revoked)

\* Mutant: the two statements in the other order.
GrantsThenPending(n) == IF n = 1 THEN GrantPlaces ELSE PendingPlaces

\* The n-th of its two statements.
ReservedPlaces(n) == IF n = 1 THEN PendingPlaces ELSE GrantPlaces

-----------------------------------------------------------------------------
\* Creating a checkout.

Moves(o, from, to) == phase[o] = from /\ phase' = [phase EXCEPT ![o] = to]

\* What the request finds before its transaction: an individual purchaser is not
\* enrolled yet, an extended grant exists and is not revoked, the event is ahead.
Eligible(o) ==
    /\ Kind[o] = "individual_purchase" => Buyer[o] \notin enrolled
    /\ Kind[o] = "capacity_extension" =>
          quantity[Base[o]] > 0 /\ Base[o] \notin revoked
    /\ o \in EventOrders => ~started

StartCheckout(o) ==
    /\ Moves(o, "start", "eligible")
    /\ Eligible(o)
    /\ UNCHANGED <<status, session, lapsed, locker, counted, review>>
    /\ UNCHANGED placeVars /\ UNCHANGED grantVars

\* A course order is inserted without a reservation.
InsertOrder(o) ==
    /\ o \notin EventOrders
    /\ Moves(o, "eligible", "inserted")
    /\ status' = [status EXCEPT ![o] = "pending"]
    /\ UNCHANGED <<session, lapsed, locker, counted, review>>
    /\ UNCHANGED placeVars /\ UNCHANGED grantVars

\* The reservation transaction locks the occurrence and counts pending orders; an
\* individual purchaser who comes late or has a registration is turned away.
LockAndCountPending(o) ==
    /\ o \in EventOrders /\ locker = Nobody
    /\ IF Kind[o] = "event_registration"
          /\ (started \/ registration[Buyer[o]] # "none")
       THEN Moves(o, "eligible", "closed") /\ UNCHANGED <<locker, counted>>
       ELSE /\ Moves(o, "eligible", "counting")
            /\ locker' = o /\ counted' = ReservedPlaces(1)
    /\ UNCHANGED <<status, session, lapsed, review>>
    /\ UNCHANGED placeVars /\ UNCHANGED grantVars

\* It counts the grants and inserts the order if the places are free.
ReservePlaces(o) ==
    /\ locker = o
    /\ IF confirmed + counted + ReservedPlaces(2) + Quantity[o] > Capacity
       THEN Moves(o, "counting", "closed") /\ UNCHANGED status
       ELSE /\ Moves(o, "counting", "inserted")
            /\ status' = [status EXCEPT ![o] = "pending"]
    /\ locker' = Nobody /\ counted' = 0
    /\ UNCHANGED <<session, lapsed, review>>
    /\ UNCHANGED placeVars /\ UNCHANGED grantVars

\* Stripe creates the session; not one that would expire in the past.
CreateSession(o) ==
    /\ Moves(o, "inserted", "created") /\ o \notin lapsed
    /\ session' = [session EXCEPT ![o] = "open"]
    /\ UNCHANGED <<status, lapsed, locker, counted, review>>
    /\ UNCHANGED placeVars /\ UNCHANGED grantVars

\* Creating the session throws, and the session may exist all the same.
CreateSessionFails(o) ==
    /\ Moves(o, "inserted", "failing")
    /\ session' \in {session} \cup
           (IF o \in lapsed THEN {} ELSE {[session EXCEPT ![o] = "open"]})
    /\ UNCHANGED <<status, lapsed, locker, counted, review>>
    /\ UNCHANGED placeVars /\ UNCHANGED grantVars

\* The session id is stored and the purchaser is sent to Stripe.
Redirect(o) ==
    /\ Moves(o, "created", "redirected")
    /\ UNCHANGED <<status, session, lapsed, locker, counted, review>>
    /\ UNCHANGED placeVars /\ UNCHANGED grantVars

\* Storing the session id throws, or its URL is not Stripe's.
RedirectFails(o) ==
    /\ Moves(o, "created", "failing")
    /\ UNCHANGED <<status, session, lapsed, locker, counted, review>>
    /\ UNCHANGED placeVars /\ UNCHANGED grantVars

\* The catch block fails a pending order; an error of that update is swallowed.
MarkCreationFailed(o) ==
    /\ Moves(o, "failing", "closed")
    /\ status' \in {status} \cup (IF status[o] = "pending"
                                  THEN {[status EXCEPT ![o] = "failed"]} ELSE {})
    /\ UNCHANGED <<session, lapsed, locker, counted, review>>
    /\ UNCHANGED placeVars /\ UNCHANGED grantVars

-----------------------------------------------------------------------------
\* Stripe and the clock.

SessionMoves(o, from, to) ==
    /\ session[o] = from /\ session' = [session EXCEPT ![o] = to]
    /\ UNCHANGED <<phase, status, lapsed, locker, counted, review>>
    /\ UNCHANGED placeVars /\ UNCHANGED grantVars

\* The purchaser pays, at once or with a delayed payment method.
Pay(o) == phase[o] = "redirected" /\ SessionMoves(o, "open", "paid")
PayLater(o) == phase[o] = "redirected" /\ SessionMoves(o, "open", "unpaid")
PaymentSucceeds(o) == SessionMoves(o, "unpaid", "paid")
PaymentFails(o) == SessionMoves(o, "unpaid", "declined")
Expire(o) == SessionMoves(o, "open", "expired")

\* A reservation of EVENT_RESERVATION_MINUTES runs out.
Lapse(o) ==
    /\ o \in EventOrders \ lapsed /\ status[o] = "pending"
    /\ lapsed' = lapsed \cup {o}
    /\ UNCHANGED <<phase, status, session, locker, counted, review>>
    /\ UNCHANGED placeVars /\ UNCHANGED grantVars

\* The event begins.
EventStarts ==
    /\ ~started /\ started' = TRUE
    /\ UNCHANGED requestVars /\ UNCHANGED grantVars
    /\ UNCHANGED <<status, registration, confirmed, enrolled, review>>

-----------------------------------------------------------------------------
\* issueConfirmedEventRegistration, which locks the occurrence.

Issuable(u) ==
    /\ locker = Nobody /\ ~started
    /\ registration[u] = "none" /\ confirmed < Capacity

IssueConfirmedRegistration(u) ==
    /\ registration' = [registration EXCEPT ![u] = "selected"]
    /\ confirmed' = confirmed + 1

-----------------------------------------------------------------------------
\* Webhooks.

\* Mutant: an order that is paid already is fulfilled again.
FulfillableAgain(o) == session[o] = "paid" /\ status[o] \in {"pending", "paid"}

\* fulfillCheckoutSession acts on a pending order only: it ignores a failed one and
\* answers already-fulfilled otherwise.
Fulfillable(o) == session[o] = "paid" /\ status[o] = "pending"

FulfillEventRegistration(o) ==
    /\ Fulfillable(o) /\ Kind[o] = "event_registration" /\ locker = Nobody
    /\ status' = [status EXCEPT ![o] = "paid"]
    /\ IF Issuable(Buyer[o])
       THEN IssueConfirmedRegistration(Buyer[o]) /\ UNCHANGED review
       ELSE review' = review \cup {o} /\ UNCHANGED <<registration, confirmed>>
    /\ UNCHANGED requestVars /\ UNCHANGED <<enrolled, started>> /\ UNCHANGED grantVars

\* A grant of one, redeemed, and the enrolment; or a review when there is one.
FulfillIndividualPurchase(o) ==
    /\ Fulfillable(o) /\ Kind[o] = "individual_purchase"
    /\ status' = [status EXCEPT ![o] = "paid"]
    /\ IF Buyer[o] \in enrolled
       THEN review' = review \cup {o} /\ UNCHANGED <<enrolled, quantity, redeemed>>
       ELSE /\ enrolled' = enrolled \cup {Buyer[o]}
            /\ quantity' = [quantity EXCEPT ![o] = 1]
            /\ redeemed' = [redeemed EXCEPT ![o] = 1]
            /\ UNCHANGED review
    /\ UNCHANGED requestVars
    /\ UNCHANGED <<registration, confirmed, started, codes, used, revoked>>

\* Mutant: the codes of an extension start at the last ordinal in use.
IssueOverlappingCodes(b, first, count) ==
    codes' = [codes EXCEPT ![b] = @ \cup
                 (IF first > 1 THEN (first - 1)..(first + count - 2)
                  ELSE first..(first + count - 1))]

\* issueGrantCodes: count new ordinals from first on.
IssueGrantCodes(b, first, count) ==
    codes' = [codes EXCEPT ![b] = @ \cup first..(first + count - 1)]

\* fulfillBulkOrder, an initial order: the grant with its codes or its shared code.
FulfillBulkPurchase(o) ==
    /\ Fulfillable(o) /\ Kind[o] = "bulk_purchase"
    /\ status' = [status EXCEPT ![o] = "paid"]
    /\ quantity' = [quantity EXCEPT ![o] = Quantity[o]]
    /\ IF o \in SingleUse THEN IssueGrantCodes(o, 1, Quantity[o])
       ELSE codes' = [codes EXCEPT ![o] = {0}]
    /\ UNCHANGED requestVars /\ UNCHANGED placeVars
    /\ UNCHANGED <<redeemed, used, revoked, review>>

\* fulfillBulkOrder, an extension: under the grant's lock, more places and, for
\* single-use grants, more codes.
FulfillExtension(o) ==
    LET b == Base[o] IN
    /\ Fulfillable(o) /\ Kind[o] = "capacity_extension"
    /\ status' = [status EXCEPT ![o] = "paid"]
    /\ quantity' = [quantity EXCEPT ![b] = @ + Quantity[o]]
    /\ IF b \in SingleUse THEN IssueGrantCodes(b, quantity[b] + 1, Quantity[o])
       ELSE UNCHANGED codes
    /\ UNCHANGED requestVars /\ UNCHANGED placeVars
    /\ UNCHANGED <<redeemed, used, revoked, review>>

FulfillCheckoutSession(o) ==
    \/ FulfillEventRegistration(o) \/ FulfillIndividualPurchase(o)
    \/ FulfillBulkPurchase(o) \/ FulfillExtension(o)

\* Mutant: a completed but unpaid session counts as failed.
MarkUnpaidFailed(o) ==
    /\ session[o] \in {"expired", "declined", "unpaid"} /\ status[o] = "pending"
    /\ status' = [status EXCEPT ![o] = "failed"]
    /\ UNCHANGED requestVars /\ UNCHANGED <<review>>
    /\ UNCHANGED placeVars /\ UNCHANGED grantVars

MarkCheckoutSessionFailed(o) ==
    /\ session[o] \in {"expired", "declined"} /\ status[o] = "pending"
    /\ status' = [status EXCEPT ![o] = "failed"]
    /\ UNCHANGED requestVars /\ UNCHANGED <<review>>
    /\ UNCHANGED placeVars /\ UNCHANGED grantVars

-----------------------------------------------------------------------------
\* Grants and registrations in use.

\* resolveEligibleGrant: code k of grant b is good, the grant is not revoked and
\* has places left.
Redeemable(b, k) ==
    /\ Kind[b] = "bulk_purchase" /\ k \in codes[b] /\ b \notin revoked
    /\ b \in SingleUse => k \notin used[b]
    /\ redeemed[b] < quantity[b]

\* redeemAccessCode, under the locks of the grant and its code.
RedeemAccessCode(u, b, k) ==
    /\ Redeemable(b, k)
    /\ IF b \in EventOrders
       THEN Issuable(u) /\ IssueConfirmedRegistration(u) /\ UNCHANGED enrolled
       ELSE /\ u \notin enrolled /\ enrolled' = enrolled \cup {u}
            /\ UNCHANGED <<registration, confirmed>>
    /\ redeemed' = [redeemed EXCEPT ![b] = @ + 1]
    /\ used' = IF b \in SingleUse THEN [used EXCEPT ![b] = @ \cup {k}] ELSE used
    /\ UNCHANGED requestVars
    /\ UNCHANGED <<status, quantity, codes, revoked, review, started>>

\* revokeAdminAccessGrant.
RevokeGrant(b) ==
    /\ Kind[b] = "bulk_purchase" /\ quantity[b] > 0 /\ b \notin revoked
    /\ revoked' = revoked \cup {b}
    /\ UNCHANGED requestVars /\ UNCHANGED placeVars
    /\ UNCHANGED <<status, quantity, redeemed, codes, used, review>>

\* Mutant: a withdrawal keeps the place.
WithdrawKeepingPlace(u) ==
    /\ locker = Nobody /\ registration[u] = "selected"
    /\ registration' = [registration EXCEPT ![u] = "withdrawn"]
    /\ UNCHANGED requestVars /\ UNCHANGED grantVars
    /\ UNCHANGED <<status, confirmed, enrolled, started, review>>

\* withdrawLearnerEventRegistration.
WithdrawRegistration(u) ==
    /\ locker = Nobody /\ registration[u] = "selected"
    /\ registration' = [registration EXCEPT ![u] = "withdrawn"]
    /\ confirmed' = IF confirmed = 0 THEN 0 ELSE confirmed - 1
    /\ UNCHANGED requestVars /\ UNCHANGED grantVars
    /\ UNCHANGED <<status, enrolled, started, review>>

-----------------------------------------------------------------------------
CreateCheckout(o) ==
    \/ StartCheckout(o) \/ InsertOrder(o) \/ LockAndCountPending(o)
    \/ ReservePlaces(o) \/ CreateSession(o) \/ CreateSessionFails(o)
    \/ Redirect(o) \/ RedirectFails(o) \/ MarkCreationFailed(o)

Stripe(o) ==
    Pay(o) \/ PayLater(o) \/ PaymentSucceeds(o) \/ PaymentFails(o) \/ Expire(o)

Next ==
    \/ \E o \in Orders :
          \/ CreateCheckout(o) \/ Stripe(o) \/ Lapse(o)
          \/ FulfillCheckoutSession(o) \/ MarkCheckoutSessionFailed(o)
          \/ RevokeGrant(o)
          \/ \E u \in Users, k \in codes[o] : RedeemAccessCode(u, o, k)
    \/ \E u \in Users : WithdrawRegistration(u)
    \/ EventStarts

Spec == Init /\ [][Next]_vars

(***************************************************************************)
(* Fairness: Stripe retries a webhook until it is answered, a transaction  *)
(* ends, a delayed payment is decided and an unpaid session expires.       *)
(* Requests and purchasers may stop anywhere.                              *)
(***************************************************************************)
Fairness ==
    \A o \in Orders :
        /\ WF_vars(FulfillCheckoutSession(o) \/ MarkCheckoutSessionFailed(o))
        /\ WF_vars(ReservePlaces(o))
        /\ WF_vars(PaymentSucceeds(o) \/ PaymentFails(o)) /\ WF_vars(Expire(o))

FairSpec == Spec /\ Fairness

(***************************************************************************)
(* Properties                                                              *)
(***************************************************************************)
\* Types of the orders, the grants and the places.
TypeOK ==
    /\ phase \in [Orders -> {"start", "eligible", "counting", "inserted",
                             "created", "redirected", "failing", "closed"}]
    /\ status \in [Orders -> {"none", "pending", "paid", "failed"}]
    /\ session \in [Orders -> {"none", "open", "unpaid", "paid", "declined",
                               "expired"}]
    /\ lapsed \subseteq Orders /\ locker \in Orders \cup {Nobody}
    /\ counted \in Nat
    /\ registration \in [Users -> {"none", "selected", "withdrawn"}]
    /\ confirmed \in Nat /\ enrolled \subseteq Users
    /\ quantity \in [Orders -> Nat] /\ redeemed \in [Orders -> Nat]
    /\ codes \in [Orders -> SUBSET Nat] /\ used \in [Orders -> SUBSET Nat]
    /\ revoked \subseteq Orders /\ review \subseteq Orders
    /\ started \in BOOLEAN

Selected == {u \in Users : registration[u] = "selected"}

\* confirmedCount is exactly the number of selected registrations, and never more
\* than the capacity, whichever of payment, code and withdrawal comes first.
PlacesConfirmed == confirmed = Cardinality(Selected) /\ confirmed <= Capacity

\* A single-use grant has one code per place and one redemption per used code, and
\* no grant is redeemed beyond its places.
CodesMatchPlaces ==
    \A b \in Orders :
        /\ redeemed[b] <= quantity[b]
        /\ b \in SingleUse /\ Kind[b] = "bulk_purchase" =>
              /\ codes[b] = 1..quantity[b]
              /\ used[b] \subseteq codes[b]
              /\ Cardinality(used[b]) = redeemed[b]

\* The paid orders for places of grant b.
PaidFor(b) ==
    {o \in Orders : /\ Kind[o] \in {"bulk_purchase", "capacity_extension"}
                    /\ Base[o] = b /\ status[o] = "paid"}

\* A grant holds exactly the places that were paid for: every paid order counts
\* once, however often and in whatever order its webhook arrives.
PlacesPaidFor ==
    \A b \in Orders : Kind[b] = "bulk_purchase" =>
        quantity[b] = Places(PaidFor(b))

\* Money is never taken for an order that was given up: a failed order's session
\* can neither be paid nor has it been.
FailedNeverPaid ==
    \A o \in Orders : status[o] = "failed" =>
        \/ session[o] \in {"none", "declined", "expired"}
        \/ session[o] = "open" /\ phase[o] = "closed"

\* No place is promised twice: confirmed registrations, pending reservations and
\* unredeemed places of grants fit into the capacity together, until a payment
\* comes in for a reservation that had lapsed before it.
PlacesNotOversold ==
    (\A o \in lapsed : status[o] # "paid") =>
        confirmed + PendingPlaces + GrantPlaces <= Capacity

Honoured(o) ==
    \/ o \in review
    \/ /\ status[o] = "paid"
       /\ Kind[o] = "event_registration" => registration[Buyer[o]] # "none"
       /\ Kind[o] = "individual_purchase" => Buyer[o] \in enrolled

\* Every payment is honoured in the end, with what was bought or with a review.
PaymentsHonoured == \A o \in Orders : session[o] = "paid" ~> [](Honoured(o))
=============================================================================
