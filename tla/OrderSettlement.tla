---------------------------- MODULE OrderSettlement ----------------------------
(***************************************************************************)
(* The money path of order-svc: the orders of one Stripe PaymentIntent,    *)
(* their payouts, the payment_intent.succeeded webhook                     *)
(* (OrderService.HandlePaymentSuccess) and the cancellation workflow       *)
(* (cancellation.Service), run concurrently against one Postgres and one   *)
(* Stripe account.                                                         *)
(*                                                                         *)
(* Every SQL statement or Stripe call is one atomic step; what a handler   *)
(* read earlier stays in its local variables and may be stale when used.   *)
(* Every order total is one unit of money and so is every payout.          *)
(***************************************************************************)
EXTENDS Naturals, FiniteSets

CONSTANTS
  NumOrders,     \* seller orders created by the checkout, in created_at order
  Deliveries,    \* webhook handler invocations that can run at once
  Callers,       \* cancellation API calls that can run at once
  NumRequests,   \* cancellation request rows that can be created
  MaxFaults,     \* crashes, failed or unanswered calls, duplicate deliveries
  Carts,         \* which orders carry the reservations of the cart's discounts
  SellerStatuses,   \* statuses that sellers write with UpdateOrderStatus
  ShipmentStatuses  \* statuses that shipment events write

ASSUME NumOrdersAssumption   == NumOrders \in Nat \ {0}
ASSUME NumRequestsAssumption == NumRequests \in Nat
ASSUME MaxFaultsAssumption   == MaxFaults \in Nat

Orders      == 1..NumOrders
Requests    == 1..NumRequests
TransferIds == 1..NumOrders

\* The two downstream commits of an order, in the order they are made.
Discounts   == {"coupon", "points"}

ASSUME CartsAssumption == Carts \subseteq [Discounts -> SUBSET Orders]

OrderStatus   == {"pending", "paid", "processing", "shipped", "delivered",
                  "completed", "cancelled"}
\* Order.CanBeCancelled
Cancellable   == {"pending", "paid", "processing"}
PayoutStatus  == {"none", "pending", "completed", "failed", "reversed"}
RequestStatus == {"none", "pending", "approved", "rejected", "failed"}

\* UpdateOrderStatus refuses every other status; shipment events know two of them.
ASSUME FulfilmentAssumption ==
  /\ SellerStatuses \subseteq {"processing", "shipped", "delivered", "completed", "cancelled"}
  /\ ShipmentStatuses \subseteq {"shipped", "delivered"}

VARIABLES
  \* order_svc.orders
  status, claim, published,
  \* order_svc.payouts (one row per order; transfer id 0 is NULL)
  payout, payoutTransfer,
  \* order_svc.order_cancellation_requests, created in id order
  reqOrder, reqStatus,
  \* Stripe: the PaymentIntent, the order each transfer was made for (0: not
  \* made), refunds by request (their idempotency key), reversals <<request, transfer>>
  pi, transfers, refunds, reversals,
  \* the cart's coupon and point reservations: the orders that carry each one's
  \* id, the commits <<discount, order>> made, the reservations reaped uncommitted
  carriers, committed, lapsed,
  \* order.paid (2 means "two or more") and order.cancelled
  paidEvents, cancelledEvents,
  \* webhook handlers: program counter, loop index, the rows read by
  \* FindAllByStripePaymentIntentID, the transfer id in hand; acked once one
  \* of them has answered 200
  pc, at, seenCancelled, seenPublished, transferOf, acked,
  \* cancellation calls: program counter, request, order, transfer to reverse
  cpc, creq, corder, cpayout,
  \* history: orders whose publish claim outlived its TTL, orders a handler
  \* skipped with `continue`
  expired, skipped,
  faults

orderVars    == <<status, claim, published>>
payoutVars   == <<payout, payoutTransfer>>
requestVars  == <<reqOrder, reqStatus>>
stripeVars   == <<pi, transfers, refunds, reversals>>
discountVars == <<carriers, committed, lapsed>>
eventVars    == <<discountVars, paidEvents, cancelledEvents>>
localVars    == <<seenCancelled, seenPublished, transferOf>>
deliveryVars == <<pc, at, localVars, acked>>
callerVars   == <<cpc, creq, corder, cpayout>>
historyVars  == <<expired, skipped>>
vars == <<orderVars, payoutVars, requestVars, stripeVars, eventVars,
          deliveryVars, callerVars, historyVars, faults>>

DeliveryPC == {"idle", "setPaid", "payout", "transfer", "record", "recordFailed",
               "coupon", "points", "claim", "publishPaid", "publishPayout", "mark"}
CallerPC   == {"idle", "create", "adminLatest", "adminCreate", "adminReload",
               "payouts", "refund", "reverse", "approve", "markFailed", "publish"}

\* CreateCheckout inserts a pending payout with every order; the older
\* single-seller CreateOrder inserts none. It stamps the coupon reservation on
\* every order with a coupon share, the point reservation on the first one.
Init ==
  /\ status = [o \in Orders |-> "pending"]
  /\ claim = [o \in Orders |-> "none"]
  /\ published = [o \in Orders |-> FALSE]
  /\ \/ payout = [o \in Orders |-> "pending"]
     \/ NumOrders = 1 /\ payout = [o \in Orders |-> "none"]
  /\ payoutTransfer = [o \in Orders |-> 0]
  /\ reqOrder = [r \in Requests |-> 1]
  /\ reqStatus = [r \in Requests |-> "none"]
  /\ pi = "requires_payment"
  /\ transfers = [t \in TransferIds |-> 0]
  /\ refunds = {}
  /\ reversals = {}
  /\ carriers \in Carts
  /\ committed = {}
  /\ lapsed = {}
  /\ paidEvents = [o \in Orders |-> 0]
  /\ cancelledEvents = {}
  /\ pc = [d \in Deliveries |-> "idle"]
  /\ at = [d \in Deliveries |-> 1]
  /\ seenCancelled = [d \in Deliveries |-> {}]
  /\ seenPublished = [d \in Deliveries |-> {}]
  /\ transferOf = [d \in Deliveries |-> 0]
  /\ acked = FALSE
  /\ cpc = [c \in Callers |-> "idle"]
  /\ creq = [c \in Callers |-> 0]
  /\ corder = [c \in Callers |-> 1]
  /\ cpayout = [c \in Callers |-> 0]
  /\ expired = {}
  /\ skipped = {}
  /\ faults = 0

Fault == faults < MaxFaults /\ faults' = faults + 1

-------------------------------------------------------------------------------
(***************************************************************************)
(* Stripe, as the calls of adapter/stripe/client.go see it.                *)
(***************************************************************************)

\* The buyer's payment succeeds: from now on the webhook is due.
PaymentSucceeds ==
  /\ pi = "requires_payment"
  /\ pi' = "succeeded"
  /\ UNCHANGED <<orderVars, payoutVars, requestVars, transfers, refunds, reversals,
                 eventVars, deliveryVars, callerVars, historyVars, faults>>

\* Transfers name the charge as their source, so together they cannot exceed
\* it: NumOrders units. Ids are handed out in order.
NextTransfer(t) == transfers[t] = 0 /\ \A u \in 1..(t - 1) : transfers[u] # 0
CanTransfer     == \E t \in TransferIds : transfers[t] = 0

\* A refund needs a charge with money left; its key makes a repetition succeed.
RefundAccepted(r) ==
  \/ r \in refunds
  \/ pi = "succeeded" /\ Cardinality(refunds) < NumOrders

\* A transfer is reversed in full once; a repetition with the same key
\* (request, payout) succeeds, any other is refused.
ReversalAccepted(r, t) == \A rev \in reversals : rev[2] = t => rev[1] = r

-------------------------------------------------------------------------------
(***************************************************************************)
(* HandlePaymentSuccess. One handler works through the orders of the       *)
(* PaymentIntent in turn; order at[d] is the current one.                  *)
(***************************************************************************)

Goto(d, label) ==
  /\ pc' = [pc EXCEPT ![d] = label]
  /\ UNCHANGED <<at, acked>>

\* `continue`: the next order, or return nil, which answers 200 to Stripe.
Continue(d) ==
  IF at[d] = NumOrders
    THEN /\ pc' = [pc EXCEPT ![d] = "idle"]
         /\ acked' = TRUE
         /\ UNCHANGED at
    ELSE /\ pc' = [pc EXCEPT ![d] = "setPaid"]
         /\ at' = [at EXCEPT ![d] = @ + 1]
         /\ UNCHANGED acked

Skip(d) == Continue(d) /\ skipped' = skipped \cup {at[d]}

\* FindAllByStripePaymentIntentID. Stripe redelivers until it gets a 200; a
\* delivery after that is a duplicate.
StartDelivery(d) ==
  /\ pc[d] = "idle"
  /\ pi = "succeeded"
  /\ IF acked THEN Fault ELSE UNCHANGED faults
  /\ pc' = [pc EXCEPT ![d] = "setPaid"]
  /\ at' = [at EXCEPT ![d] = 1]
  /\ seenCancelled' = [seenCancelled EXCEPT ![d] = {o \in Orders : status[o] = "cancelled"}]
  /\ seenPublished' = [seenPublished EXCEPT ![d] = {o \in Orders : published[o]}]
  /\ transferOf' = [transferOf EXCEPT ![d] = 0]
  /\ UNCHANGED <<orderVars, payoutVars, requestVars, stripeVars, eventVars, acked,
                 callerVars, historyVars>>

\* Mutant of PaidFrom: the UPDATE without its status guard.
PaidFromAny(s) == "paid"

\* The UPDATE of SetPaid, guarded on status = 'pending'.
PaidFrom(s) == IF s = "pending" THEN "paid" ELSE s

\* An order read as cancelled is skipped. ErrOrderNotPending falls through.
SetPaid(d) ==
  /\ pc[d] = "setPaid"
  /\ LET o == at[d]
     IN \/ /\ o \in seenCancelled[d]
           /\ Skip(d)
           /\ UNCHANGED status
        \/ /\ o \notin seenCancelled[d]
           /\ status' = [status EXCEPT ![o] = PaidFrom(@)]
           /\ Goto(d, "payout")
           /\ UNCHANGED skipped
  /\ UNCHANGED <<claim, published, payoutVars, requestVars, stripeVars, eventVars,
                 localVars, callerVars, expired, faults>>

\* GetByOrderID and the payout-state allowlist.
ReadPayout(d) ==
  /\ pc[d] = "payout"
  /\ LET o == at[d]
     IN \/ /\ payout[o] \in {"none", "failed", "reversed"}
           /\ Skip(d)
           /\ UNCHANGED transferOf
        \/ /\ payout[o] = "pending"
           /\ Goto(d, "transfer")
           /\ UNCHANGED <<transferOf, skipped>>
        \/ /\ payout[o] = "completed"
           /\ transferOf' = [transferOf EXCEPT ![d] = payoutTransfer[o]]
           /\ Goto(d, "coupon")
           /\ UNCHANGED skipped
  /\ UNCHANGED <<orderVars, payoutVars, requestVars, stripeVars, eventVars,
                 seenCancelled, seenPublished, callerVars, expired, faults>>

\* CreateTransfer answers with the id of a new transfer.
Transfer(d) ==
  /\ pc[d] = "transfer"
  /\ \E t \in TransferIds :
       /\ NextTransfer(t)
       /\ transfers' = [transfers EXCEPT ![t] = at[d]]
       /\ transferOf' = [transferOf EXCEPT ![d] = t]
  /\ Goto(d, "record")
  /\ UNCHANGED <<orderVars, payoutVars, requestVars, pi, refunds, reversals, eventVars,
                 seenCancelled, seenPublished, callerVars, historyVars, faults>>

\* Mutant of TransferFailed: the error is dropped and the payout completed.
TransferFailedIgnored(d) == Goto(d, "record")

TransferFailed(d) == Goto(d, "recordFailed")

\* CreateTransfer fails: refused for lack of funds, or a fault, in which the
\* transfer may have been made although the answer was an error.
TransferFails(d) ==
  /\ pc[d] = "transfer"
  /\ \/ ~CanTransfer /\ UNCHANGED <<transfers, faults>>
     \/ Fault /\ UNCHANGED transfers
     \/ /\ Fault
        /\ \E t \in TransferIds :
             NextTransfer(t) /\ transfers' = [transfers EXCEPT ![t] = at[d]]
  /\ TransferFailed(d)
  /\ UNCHANGED <<orderVars, payoutVars, requestVars, pi, refunds, reversals, eventVars,
                 localVars, callerVars, historyVars>>

\* payoutRepo.UpdateStatus(completed), unguarded.
RecordTransfer(d) ==
  /\ pc[d] = "record"
  /\ payout' = [payout EXCEPT ![at[d]] = "completed"]
  /\ payoutTransfer' = [payoutTransfer EXCEPT ![at[d]] = transferOf[d]]
  /\ Goto(d, "coupon")
  /\ UNCHANGED <<orderVars, requestVars, stripeVars, eventVars, localVars, callerVars,
                 historyVars, faults>>

\* payoutRepo.UpdateStatus(failed), whose own error is only logged; then
\* payout.failed is published best-effort and the order is skipped.
RecordFailure(d) ==
  /\ pc[d] = "recordFailed"
  /\ \/ payout' = [payout EXCEPT ![at[d]] = "failed"] /\ UNCHANGED faults
     \/ Fault /\ UNCHANGED payout
  /\ Skip(d)
  /\ UNCHANGED <<orderVars, payoutTransfer, requestVars, stripeVars, eventVars,
                 localVars, callerVars, expired>>

\* The reaper expires a reservation that its TTL finds pending.
ReservationLapses(k) ==
  /\ carriers[k] # {} /\ k \notin lapsed
  /\ \A o \in carriers[k] : <<k, o>> \notin committed
  /\ lapsed' = lapsed \cup {k}
  /\ UNCHANGED <<orderVars, payoutVars, requestVars, stripeVars, carriers, committed,
                 paidEvents, cancelledEvents, deliveryVars, callerVars, historyVars, faults>>

\* What the owner of the reservation answers to the commit of order o: a replay
\* succeeds, any other commit needs the reservation pending. An order without a
\* reservation has no coupon to commit, and points only to earn.
Accepts(k, o) ==
  o \in carriers[k] =>
    \/ <<k, o>> \in committed
    \/ k \notin lapsed /\ \A p \in carriers[k] : <<k, p>> \notin committed

AfterCommit(k) == IF k = "coupon" THEN "points" ELSE "claim"

\* Mutant of CommitDiscount: a refused commit is logged and the order goes on.
CommitDiscountBestEffort(d, k) ==
  /\ pc[d] = k
  /\ committed' = IF Accepts(k, at[d]) THEN committed \cup {<<k, at[d]>>} ELSE committed
  /\ Goto(d, AfterCommit(k))
  /\ UNCHANGED <<orderVars, payoutVars, requestVars, stripeVars, carriers, lapsed,
                 paidEvents, cancelledEvents, localVars, callerVars, historyVars, faults>>

\* (B) The coupon commit, then the loyalty commit, each in its own service.
CommitDiscount(d, k) ==
  /\ pc[d] = k
  /\ Accepts(k, at[d])
  /\ committed' = committed \cup {<<k, at[d]>>}
  /\ Goto(d, AfterCommit(k))
  /\ UNCHANGED <<orderVars, payoutVars, requestVars, stripeVars, carriers, lapsed,
                 paidEvents, cancelledEvents, localVars, callerVars, historyVars, faults>>

\* A refused commit makes the handler return an error, on this delivery and on
\* every redelivery: a reservation never becomes pending again.
CommitRefused(d, k) ==
  /\ pc[d] = k
  /\ ~Accepts(k, at[d])
  /\ Goto(d, "idle")
  /\ UNCHANGED <<orderVars, payoutVars, requestVars, stripeVars, eventVars,
                 localVars, callerVars, historyVars, faults>>

CommitDiscounts(d) == \E k \in Discounts : CommitDiscount(d, k) \/ CommitRefused(d, k)

\* Mutant of ClaimFree: a claim is never taken over, however old.
ClaimFreeOnce(o) == ~published[o] /\ claim[o] = "none"

\* Mutant of ClaimFree: the claim is won even while another one is fresh.
ClaimFreeIgnoringTTL(o) == ~published[o]

\* The WHERE clause of ClaimPaidEventPublish.
ClaimFree(o) == ~published[o] /\ claim[o] # "fresh"

\* Mutant of ClaimHeld: the loser answers 200 instead of a retryable error.
ClaimHeldContinues(d) == Continue(d)

\* A fresh claim of another handler: return an error so that Stripe redelivers.
ClaimHeld(d) == Goto(d, "idle")

\* (C.1) ClaimPaidEventPublish, unless the row read at the start was published.
\* A handler that waited for the row lock reads the row as it was when its
\* statement began: it may find neither a claim to take nor order.paid published.
ClaimPublish(d) ==
  /\ pc[d] = "claim"
  /\ LET o == at[d]
     IN \/ /\ o \in seenPublished[d] \/ published[o]
           /\ Continue(d)
           /\ UNCHANGED claim
        \/ /\ o \notin seenPublished[d]
           /\ ClaimFree(o)
           /\ claim' = [claim EXCEPT ![o] = "fresh"]
           /\ Goto(d, "publishPaid")
        \/ /\ o \notin seenPublished[d]
           /\ ~ClaimFree(o)
           /\ ClaimHeld(d)
           /\ UNCHANGED claim
  /\ UNCHANGED <<status, published, payoutVars, requestVars, stripeVars, eventVars,
                 localVars, callerVars, historyVars, faults>>

\* (C.2) order.paid, then payout.completed; a broker error returns an error.
PublishPaid(d) ==
  /\ pc[d] = "publishPaid"
  /\ paidEvents' = [paidEvents EXCEPT ![at[d]] = IF @ = 0 THEN 1 ELSE 2]
  /\ Goto(d, "publishPayout")
  /\ UNCHANGED <<orderVars, payoutVars, requestVars, stripeVars, discountVars,
                 cancelledEvents, localVars, callerVars, historyVars, faults>>

PublishPayoutCompleted(d) ==
  /\ pc[d] = "publishPayout"
  /\ Goto(d, "mark")
  /\ UNCHANGED <<orderVars, payoutVars, requestVars, stripeVars, eventVars,
                 localVars, callerVars, historyVars, faults>>

\* (C.3) MarkPaidEventPublished; its error is only logged.
MarkPublished(d) ==
  /\ pc[d] = "mark"
  /\ \/ published' = [published EXCEPT ![at[d]] = TRUE] /\ UNCHANGED faults
     \/ Fault /\ UNCHANGED published
  /\ Continue(d)
  /\ UNCHANGED <<status, claim, payoutVars, requestVars, stripeVars, eventVars,
                 localVars, callerVars, historyVars>>

\* A database, broker or downstream error makes the handler return an error,
\* or the process dies: either way no 200, and Stripe redelivers.
DeliveryFails(d) ==
  /\ pc[d] # "idle"
  /\ Fault
  /\ Goto(d, "idle")
  /\ UNCHANGED <<orderVars, payoutVars, requestVars, stripeVars, eventVars,
                 localVars, callerVars, historyVars>>

\* publishClaimTTL elapses.
ClaimExpires(o) ==
  /\ claim[o] = "fresh"
  /\ claim' = [claim EXCEPT ![o] = "stale"]
  /\ expired' = expired \cup {o}
  /\ UNCHANGED <<status, published, payoutVars, requestVars, stripeVars, eventVars,
                 deliveryVars, callerVars, skipped, faults>>

-------------------------------------------------------------------------------
(***************************************************************************)
(* The cancellation workflow: RequestCancellation, RejectCancellation,     *)
(* ApproveCancellation and AdminForceCancel.                               *)
(***************************************************************************)

CGoto(c, label) == cpc' = [cpc EXCEPT ![c] = label]

PendingFor(o) == {r \in Requests : reqOrder[r] = o /\ reqStatus[r] = "pending"}

\* GetLatestByOrder: the newest request row of the order, if any.
LatestOf(o, r) ==
  /\ reqStatus[r] # "none" /\ reqOrder[r] = o
  /\ \A q \in Requests : q > r => reqStatus[q] = "none" \/ reqOrder[q] # o

\* Repository.Create: the next row, refused while the order has a pending one.
CreateRequest(o, r) ==
  /\ PendingFor(o) = {}
  /\ reqStatus[r] = "none" /\ \A q \in 1..(r - 1) : reqStatus[q] # "none"
  /\ reqOrder' = [reqOrder EXCEPT ![r] = o]
  /\ reqStatus' = [reqStatus EXCEPT ![r] = "pending"]

\* The row read that opens RequestCancellation or AdminForceCancel. Only an
\* order with a PaymentIntent can be force-cancelled: every order has one here.
OpenByOrder(c, o, next) ==
  /\ cpc[c] = "idle"
  /\ status[o] \in Cancellable
  /\ corder' = [corder EXCEPT ![c] = o]
  /\ creq' = [creq EXCEPT ![c] = 0]
  /\ CGoto(c, next)
  /\ UNCHANGED <<orderVars, payoutVars, requestVars, stripeVars, eventVars,
                 deliveryVars, cpayout, historyVars, faults>>

RequestCancellation(c, o) == OpenByOrder(c, o, "create")
AdminForceCancel(c, o)    == OpenByOrder(c, o, "adminLatest")

\* RequestCancellation inserts the row, or reports the pending one.
InsertRequest(c) ==
  /\ cpc[c] = "create"
  /\ \/ \E r \in Requests : CreateRequest(corder[c], r)
     \/ PendingFor(corder[c]) # {} /\ UNCHANGED requestVars
  /\ CGoto(c, "idle")
  /\ UNCHANGED <<orderVars, payoutVars, stripeVars, eventVars, deliveryVars, creq,
                 corder, cpayout, historyVars, faults>>

\* AdminForceCancel reuses the order's latest request if it read it as pending.
AdminLatest(c) ==
  /\ cpc[c] = "adminLatest"
  /\ \/ \E r \in Requests :
          /\ LatestOf(corder[c], r) /\ reqStatus[r] = "pending"
          /\ creq' = [creq EXCEPT ![c] = r]
          /\ CGoto(c, "payouts")
     \/ /\ ~\E r \in Requests : LatestOf(corder[c], r) /\ reqStatus[r] = "pending"
        /\ CGoto(c, "adminCreate")
        /\ UNCHANGED creq
  /\ UNCHANGED <<orderVars, payoutVars, requestVars, stripeVars, eventVars,
                 deliveryVars, corder, cpayout, historyVars, faults>>

\* ... otherwise it inserts one, and on a lost race reloads the latest,
AdminCreate(c) ==
  /\ cpc[c] = "adminCreate"
  /\ \/ \E r \in Requests :
          /\ CreateRequest(corder[c], r)
          /\ creq' = [creq EXCEPT ![c] = r]
          /\ CGoto(c, "payouts")
     \/ /\ PendingFor(corder[c]) # {}
        /\ CGoto(c, "adminReload")
        /\ UNCHANGED <<requestVars, creq>>
  /\ UNCHANGED <<orderVars, payoutVars, stripeVars, eventVars, deliveryVars, corder,
                 cpayout, historyVars, faults>>

\* ... whatever its status has become meanwhile.
AdminReload(c) ==
  /\ cpc[c] = "adminReload"
  /\ \E r \in Requests : LatestOf(corder[c], r) /\ creq' = [creq EXCEPT ![c] = r]
  /\ CGoto(c, "payouts")
  /\ UNCHANGED <<orderVars, payoutVars, requestVars, stripeVars, eventVars,
                 deliveryVars, corder, cpayout, historyVars, faults>>

\* ApproveCancellation, phase 1: the request is pending, the order cancellable.
\* The code reads the two rows one after the other; ApproveTx asserts both anew.
ApproveCancellation(c, r) ==
  /\ cpc[c] = "idle"
  /\ reqStatus[r] = "pending"
  /\ status[reqOrder[r]] \in Cancellable
  /\ creq' = [creq EXCEPT ![c] = r]
  /\ corder' = [corder EXCEPT ![c] = reqOrder[r]]
  /\ CGoto(c, "payouts")
  /\ UNCHANGED <<orderVars, payoutVars, requestVars, stripeVars, eventVars,
                 deliveryVars, cpayout, historyVars, faults>>

\* RejectCancellation: the UPDATE is guarded on status = 'pending'.
RejectCancellation(r) ==
  /\ reqStatus[r] = "pending"
  /\ reqStatus' = [reqStatus EXCEPT ![r] = "rejected"]
  /\ UNCHANGED <<orderVars, payoutVars, reqOrder, stripeVars, eventVars,
                 deliveryVars, callerVars, historyVars, faults>>

\* finalizeApproval, ListByOrderID: a completed payout is to be reversed.
ListPayouts(c) ==
  /\ cpc[c] = "payouts"
  /\ LET o == corder[c]
     IN cpayout' = [cpayout EXCEPT ![c] =
                      IF payout[o] = "completed" THEN payoutTransfer[o] ELSE 0]
  /\ CGoto(c, "refund")
  /\ UNCHANGED <<orderVars, payoutVars, requestVars, stripeVars, eventVars,
                 deliveryVars, creq, corder, historyVars, faults>>

AfterRefund(c) == IF cpayout[c] = 0 THEN "approve" ELSE "reverse"

\* CreateRefund for the order's total under the request's key.
CreateRefund(c) ==
  /\ cpc[c] = "refund"
  /\ RefundAccepted(creq[c])
  /\ refunds' = refunds \cup {creq[c]}
  /\ CGoto(c, AfterRefund(c))
  /\ UNCHANGED <<orderVars, payoutVars, requestVars, pi, transfers, reversals, eventVars,
                 deliveryVars, creq, corder, cpayout, historyVars, faults>>

\* Mutant of StripeFailed: the error is only logged.
StripeFailedIgnored(c) == CGoto(c, "approve")

\* A Stripe error ends the approval in MarkFailed.
StripeFailed(c) == CGoto(c, "markFailed")

\* Refused, or a fault after which the refund may exist all the same.
RefundFails(c) ==
  /\ cpc[c] = "refund"
  /\ \/ ~RefundAccepted(creq[c]) /\ UNCHANGED <<refunds, faults>>
     \/ Fault /\ UNCHANGED refunds
     \/ Fault /\ RefundAccepted(creq[c]) /\ refunds' = refunds \cup {creq[c]}
  /\ StripeFailed(c)
  /\ UNCHANGED <<orderVars, payoutVars, requestVars, pi, transfers, reversals, eventVars,
                 deliveryVars, creq, corder, cpayout, historyVars>>

ReverseTransfer(c) ==
  /\ cpc[c] = "reverse"
  /\ ReversalAccepted(creq[c], cpayout[c])
  /\ reversals' = reversals \cup {<<creq[c], cpayout[c]>>}
  /\ CGoto(c, "approve")
  /\ UNCHANGED <<orderVars, payoutVars, requestVars, pi, transfers, refunds, eventVars,
                 deliveryVars, creq, corder, cpayout, historyVars, faults>>

ReversalFails(c) ==
  /\ cpc[c] = "reverse"
  /\ \/ ~ReversalAccepted(creq[c], cpayout[c]) /\ UNCHANGED <<reversals, faults>>
     \/ Fault /\ UNCHANGED reversals
     \/ /\ Fault /\ ReversalAccepted(creq[c], cpayout[c])
        /\ reversals' = reversals \cup {<<creq[c], cpayout[c]>>}
  /\ StripeFailed(c)
  /\ UNCHANGED <<orderVars, payoutVars, requestVars, pi, transfers, refunds, eventVars,
                 deliveryVars, creq, corder, cpayout, historyVars>>

\* ApproveTx: request, order and payouts in one transaction, or ErrAlreadyProcessed,
\* or ErrOrderStatusChanged. An order.cancelled follows a commit.
ApproveTx(c) ==
  /\ cpc[c] = "approve"
  /\ LET r == creq[c]
         o == corder[c]
     IN \/ /\ reqStatus[r] = "pending" /\ status[o] \in Cancellable
           /\ reqStatus' = [reqStatus EXCEPT ![r] = "approved"]
           /\ status' = [status EXCEPT ![o] = "cancelled"]
           /\ payout' = [payout EXCEPT ![o] = IF cpayout[c] = 0 THEN @ ELSE "reversed"]
           /\ CGoto(c, "publish")
        \/ /\ reqStatus[r] # "pending"
           /\ CGoto(c, "idle")
           /\ UNCHANGED <<reqStatus, status, payout>>
        \/ /\ reqStatus[r] = "pending" /\ status[o] \notin Cancellable
           /\ CGoto(c, "markFailed")
           /\ UNCHANGED <<reqStatus, status, payout>>
  /\ UNCHANGED <<claim, published, payoutTransfer, reqOrder, stripeVars, eventVars,
                 deliveryVars, creq, corder, cpayout, historyVars, faults>>

\* Mutant of FailedFrom: MarkFailed without its status guard.
FailedFromAny(s) == "failed"

\* The UPDATE of MarkFailed, guarded on status = 'pending'.
FailedFrom(s) == IF s = "pending" THEN "failed" ELSE s

MarkFailed(c) ==
  /\ cpc[c] = "markFailed"
  /\ reqStatus' = [reqStatus EXCEPT ![creq[c]] = FailedFrom(@)]
  /\ CGoto(c, "idle")
  /\ UNCHANGED <<orderVars, payoutVars, reqOrder, stripeVars, eventVars,
                 deliveryVars, creq, corder, cpayout, historyVars, faults>>

\* publishApproved and publishOrderCancelled.
PublishCancelled(c) ==
  /\ cpc[c] = "publish"
  /\ cancelledEvents' = cancelledEvents \cup {corder[c]}
  /\ CGoto(c, "idle")
  /\ UNCHANGED <<orderVars, payoutVars, requestVars, stripeVars, discountVars, paidEvents,
                 deliveryVars, creq, corder, cpayout, historyVars, faults>>

\* A database error, a lost event (publishing is best-effort) or a crash.
CallerFails(c) ==
  /\ cpc[c] # "idle"
  /\ Fault
  /\ CGoto(c, "idle")
  /\ UNCHANGED <<orderVars, payoutVars, requestVars, stripeVars, eventVars,
                 deliveryVars, creq, corder, cpayout, historyVars>>

-------------------------------------------------------------------------------
(***************************************************************************)
(* Fulfilment. OrderRepository.UpdateStatus has no status guard, whether a *)
(* seller calls it (UpdateOrderStatus) or a shipment event does.           *)
(***************************************************************************)

UpdateStatus(o, s) ==
  /\ status[o] # s
  /\ status' = [status EXCEPT ![o] = s]
  /\ UNCHANGED <<claim, published, payoutVars, requestVars, stripeVars, eventVars,
                 deliveryVars, callerVars, expired, skipped, faults>>

UpdateOrderStatus(o, s)   == s \in SellerStatuses /\ UpdateStatus(o, s)
HandleShipmentEvent(o, s) == s \in ShipmentStatuses /\ UpdateStatus(o, s)

-------------------------------------------------------------------------------

Delivery(d) ==
  \/ StartDelivery(d) \/ SetPaid(d) \/ ReadPayout(d)
  \/ Transfer(d) \/ TransferFails(d) \/ RecordTransfer(d) \/ RecordFailure(d)
  \/ CommitDiscounts(d) \/ ClaimPublish(d)
  \/ PublishPaid(d) \/ PublishPayoutCompleted(d) \/ MarkPublished(d)

Caller(c) ==
  \/ \E o \in Orders : RequestCancellation(c, o) \/ AdminForceCancel(c, o)
  \/ InsertRequest(c) \/ AdminLatest(c) \/ AdminCreate(c) \/ AdminReload(c)
  \/ \E r \in Requests : ApproveCancellation(c, r)
  \/ ListPayouts(c) \/ CreateRefund(c) \/ RefundFails(c)
  \/ ReverseTransfer(c) \/ ReversalFails(c)
  \/ ApproveTx(c) \/ MarkFailed(c) \/ PublishCancelled(c)

Next ==
  \/ PaymentSucceeds
  \/ \E d \in Deliveries : Delivery(d) \/ DeliveryFails(d)
  \/ \E o \in Orders : ClaimExpires(o)
  \/ \E k \in Discounts : ReservationLapses(k)
  \/ \E c \in Callers : Caller(c) \/ CallerFails(c)
  \/ \E r \in Requests : RejectCancellation(r)
  \/ \E o \in Orders, s \in OrderStatus : UpdateOrderStatus(o, s) \/ HandleShipmentEvent(o, s)

Spec == Init /\ [][Next]_vars

\* Running handlers take their next step, Stripe redelivers until it gets a
\* 200, and time passes.
Fairness ==
  /\ \A d \in Deliveries : WF_vars(Delivery(d))
  /\ \A o \in Orders : WF_vars(ClaimExpires(o))

FairSpec == Spec /\ Fairness

-------------------------------------------------------------------------------
(***************************************************************************)
(* Properties.                                                             *)
(***************************************************************************)

RowTypes ==
  /\ status \in [Orders -> OrderStatus]
  /\ claim \in [Orders -> {"none", "fresh", "stale"}]
  /\ published \in [Orders -> BOOLEAN]
  /\ payout \in [Orders -> PayoutStatus]
  /\ payoutTransfer \in [Orders -> TransferIds \cup {0}]
  /\ reqOrder \in [Requests -> Orders]
  /\ reqStatus \in [Requests -> RequestStatus]

StripeTypes ==
  /\ pi \in {"requires_payment", "succeeded"}
  /\ transfers \in [TransferIds -> Orders \cup {0}]
  /\ refunds \subseteq Requests
  /\ reversals \subseteq Requests \X TransferIds

EventTypes ==
  /\ carriers \in [Discounts -> SUBSET Orders]
  /\ committed \subseteq Discounts \X Orders
  /\ lapsed \subseteq Discounts
  /\ paidEvents \in [Orders -> 0..2]
  /\ cancelledEvents \subseteq Orders
  /\ expired \subseteq Orders /\ skipped \subseteq Orders
  /\ faults \in 0..MaxFaults

HandlerTypes ==
  /\ pc \in [Deliveries -> DeliveryPC]
  /\ at \in [Deliveries -> Orders]
  /\ seenCancelled \in [Deliveries -> SUBSET Orders]
  /\ seenPublished \in [Deliveries -> SUBSET Orders]
  /\ transferOf \in [Deliveries -> TransferIds \cup {0}]
  /\ acked \in BOOLEAN

CallerTypes ==
  /\ cpc \in [Callers -> CallerPC]
  /\ creq \in [Callers -> Requests \cup {0}]
  /\ corder \in [Callers -> Orders]
  /\ cpayout \in [Callers -> TransferIds \cup {0}]

\* The type invariant of the rows, of Stripe, of the events published and of
\* the handlers' and callers' local variables.
TypeOK == RowTypes /\ StripeTypes /\ EventTypes /\ HandlerTypes /\ CallerTypes

\* A payout recorded as completed names a transfer that Stripe made for that
\* very order, whatever handlers, failures and redeliveries preceded it.
PayoutCompletedIsBacked ==
  \A o \in Orders : payout[o] = "completed" =>
    /\ payoutTransfer[o] # 0
    /\ transfers[payoutTransfer[o]] = o

\* Stripe before the database: a request is approved only after its refund
\* exists, and a payout is reversed only after the transfer it named was
\* reversed for an approved request of that order.
ApprovedIsRefunded ==
  \A r \in Requests : reqStatus[r] = "approved" => r \in refunds

ReversedPayoutIsReversed ==
  \A o \in Orders : payout[o] = "reversed" =>
    \E r \in Requests, t \in TransferIds :
      /\ <<r, t>> \in reversals
      /\ transfers[t] = o
      /\ reqOrder[r] = o /\ reqStatus[r] = "approved"

\* order.paid is published twice only if a claim outlived publishClaimTTL: the
\* claim is exclusive between concurrent handlers and across redeliveries.
DuplicatePaidOnlyAfterExpiry ==
  \A o \in Orders : paidEvents[o] = 2 => o \in expired

\* order.paid announces an order that has left "pending", whose seller was
\* paid and whose discounts were committed.
PaidEventNeedsSettlement ==
  \A o \in Orders : paidEvents[o] > 0 =>
    /\ status[o] # "pending"
    /\ \E t \in TransferIds : transfers[t] = o
    /\ \A k \in Discounts : <<k, o>> \in committed

\* No lost event: once Stripe has its 200 (it stops redelivering), order.paid
\* is out for every order that no handler deliberately skipped.
AckedIsHandled ==
  acked => \A o \in Orders : paidEvents[o] > 0 \/ o \in skipped

\* The webhook never resurrects an order: it becomes paid only from pending.
PaidOnlyFromPending ==
  [][\A o \in Orders : status'[o] = "paid" => status[o] \in {"pending", "paid"}]_vars

\* A processed request keeps its verdict: approve, reject and the failure path
\* race on one row and only the first of them writes it.
VerdictIsFinal ==
  [][\A r \in Requests :
       reqStatus[r] \in {"approved", "rejected", "failed"} => reqStatus'[r] = reqStatus[r]]_vars

\* A successful payment is eventually acknowledged to Stripe: no handler waits
\* for ever on a publish claim that a crashed one left behind, and no sequence of
\* failed deliveries leaves work that a redelivery cannot finish. What can keep a
\* payment unacknowledged is a commit refused for good: the reservation was reaped
\* before the webhook came, or another order of the cart committed it.
PaymentEventuallySettled ==
  (pi = "succeeded") ~> (acked \/ \E k \in Discounts, o \in Orders : ~Accepts(k, o))

-------------------------------------------------------------------------------
(***************************************************************************)
(* What docs/payment.md says and the code does not keep.                   *)
(***************************************************************************)

\* "Stripe calls exactly once per order" (order_service.go): no order gets two
\* transfers.
AtMostOneTransfer ==
  \A t, u \in TransferIds : transfers[t] # 0 /\ transfers[t] = transfers[u] => t = u

===============================================================================
