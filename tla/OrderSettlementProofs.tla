------------------------- MODULE OrderSettlementProofs -------------------------
(***************************************************************************)
(* Theorems about OrderSettlement, for every number of orders, handlers,   *)
(* callers, requests and faults.                                           *)
(***************************************************************************)
EXTENDS OrderSettlement, TLAPS

\* Past its first steps a cancellation call holds a request, and it reverses
\* only a transfer it has read.
CallerOK ==
  \A c \in Callers :
    /\ cpc[c] \in {"payouts", "refund", "reverse", "approve", "markFailed", "publish"}
         => creq[c] \in Requests
    /\ cpc[c] = "reverse" => cpayout[c] \in TransferIds

TypeInv == TypeOK /\ CallerOK

USE DEF Orders, Requests, TransferIds, Discounts, discountVars, OrderStatus, Cancellable, PayoutStatus,
        RequestStatus, DeliveryPC, CallerPC, Fault, Goto, CGoto, TransferFailed, StripeFailed,
        orderVars, payoutVars, requestVars, stripeVars, eventVars, localVars,
        deliveryVars, callerVars, historyVars

LEMMA TypeInit == Init => TypeInv
<1> SUFFICES ASSUME Init PROVE TypeInv
  OBVIOUS
<1>1. 1 \in Orders /\ 0 \in 0..MaxFaults
  BY NumOrdersAssumption, MaxFaultsAssumption
<1>2. RowTypes
  BY <1>1 DEF Init, RowTypes
<1>3. StripeTypes /\ EventTypes
  BY <1>1, CartsAssumption DEF Init, StripeTypes, EventTypes
<1>4. HandlerTypes
  BY <1>1 DEF Init, HandlerTypes
<1>5. CallerTypes /\ CallerOK
  BY <1>1 DEF Init, CallerTypes, CallerOK
<1> QED
  BY <1>2, <1>3, <1>4, <1>5 DEF TypeInv, TypeOK

\* Both outcomes of `continue` keep the handler's control state typed.
LEMMA ContinueTypes ==
  ASSUME HandlerTypes, NEW d \in Deliveries, Continue(d)
  PROVE  /\ pc' \in [Deliveries -> DeliveryPC]
         /\ at' \in [Deliveries -> Orders]
         /\ acked' \in BOOLEAN
<1>1. CASE at[d] = NumOrders
  BY <1>1 DEF Continue, HandlerTypes
<1>2. CASE at[d] # NumOrders
  <2>1. at[d] + 1 \in Orders
    BY <1>2, NumOrdersAssumption DEF HandlerTypes
  <2> QED
    BY <1>2, <2>1 DEF Continue, HandlerTypes
<1> QED
  BY <1>1, <1>2

\* Each step of a webhook handler keeps the types.
LEMMA TypeDelivery ==
  ASSUME TypeInv, NEW d \in Deliveries, Delivery(d) \/ DeliveryFails(d)
  PROVE  TypeInv'
<1> USE NumOrdersAssumption, MaxFaultsAssumption DEF TypeInv, TypeOK
<1>1. CASE StartDelivery(d)
  <2> USE <1>1 DEF StartDelivery
  <2>1. EventTypes'
    BY DEF EventTypes, HandlerTypes, CallerTypes, CallerOK
  <2>2. HandlerTypes'
    BY DEF HandlerTypes, StripeTypes, RowTypes
  <2>3. (RowTypes /\ StripeTypes /\ CallerTypes /\ CallerOK)'
    BY DEF RowTypes, StripeTypes, CallerTypes, CallerOK
  <2> QED
    BY <2>1, <2>2, <2>3
<1>2. CASE SetPaid(d)
  <2> USE <1>2 DEF SetPaid
  <2>1. RowTypes'
    <3>1. \A s \in OrderStatus : PaidFrom(s) \in OrderStatus
      BY DEF PaidFrom
    <3>2. status' \in [Orders -> OrderStatus]
      BY <3>1 DEF RowTypes, HandlerTypes
    <3> QED
      BY <3>2 DEF RowTypes
  <2>2. EventTypes'
    BY DEF Skip, EventTypes, HandlerTypes, CallerTypes, CallerOK
  <2>3. HandlerTypes'
    BY ContinueTypes DEF Skip, HandlerTypes, RowTypes
  <2>4. (StripeTypes /\ CallerTypes /\ CallerOK)'
    BY DEF StripeTypes, CallerTypes, CallerOK
  <2> QED
    BY <2>1, <2>2, <2>3, <2>4
<1>3. CASE ReadPayout(d)
  <2> USE <1>3 DEF ReadPayout
  <2>1. EventTypes'
    <3>1. skipped' = skipped \/ skipped' = skipped \cup {at[d]}
      BY DEF Skip
    <3>2. skipped' \subseteq Orders
      BY <3>1 DEF EventTypes, HandlerTypes
    <3> QED
      BY <3>2 DEF EventTypes
  <2>2. HandlerTypes'
    <3>1. transferOf' \in [Deliveries -> TransferIds \cup {0}]
      BY DEF HandlerTypes, RowTypes
    <3>2. (\E l \in DeliveryPC : Goto(d, l)) \/ Continue(d)
      BY DEF Skip
    <3>3. /\ pc' \in [Deliveries -> DeliveryPC]
          /\ at' \in [Deliveries -> Orders]
          /\ acked' \in BOOLEAN
      BY <3>2, ContinueTypes DEF HandlerTypes
    <3> QED
      BY <3>1, <3>3 DEF HandlerTypes
  <2>3. (RowTypes /\ StripeTypes /\ CallerTypes /\ CallerOK)'
    BY DEF RowTypes, StripeTypes, CallerTypes, CallerOK
  <2> QED
    BY <2>1, <2>2, <2>3
<1>4. CASE Transfer(d)
  <2> USE <1>4 DEF Transfer, NextTransfer
  <2>1. StripeTypes'
    BY DEF StripeTypes, HandlerTypes, CallerTypes, CallerOK
  <2>2. HandlerTypes'
    BY DEF HandlerTypes, StripeTypes, RowTypes
  <2>3. (RowTypes /\ EventTypes /\ CallerTypes /\ CallerOK)'
    BY DEF RowTypes, EventTypes, CallerTypes, CallerOK
  <2> QED
    BY <2>1, <2>2, <2>3
<1>5. CASE TransferFails(d)
  <2> USE <1>5 DEF TransferFails, NextTransfer
  <2>1. StripeTypes'
    BY DEF StripeTypes, HandlerTypes, CallerTypes, CallerOK
  <2>2. EventTypes'
    BY DEF EventTypes, HandlerTypes, CallerTypes, CallerOK
  <2>3. HandlerTypes'
    BY DEF HandlerTypes, StripeTypes, RowTypes
  <2>4. (RowTypes /\ CallerTypes /\ CallerOK)'
    BY DEF RowTypes, CallerTypes, CallerOK
  <2> QED
    BY <2>1, <2>2, <2>3, <2>4
<1>6. CASE RecordTransfer(d)
  <2> USE <1>6 DEF RecordTransfer
  <2>1. RowTypes'
    BY DEF RowTypes, HandlerTypes, CallerTypes, CallerOK
  <2>2. HandlerTypes'
    BY DEF HandlerTypes, StripeTypes, RowTypes
  <2>3. (StripeTypes /\ EventTypes /\ CallerTypes /\ CallerOK)'
    BY DEF StripeTypes, EventTypes, CallerTypes, CallerOK
  <2> QED
    BY <2>1, <2>2, <2>3
<1>7. CASE RecordFailure(d)
  <2> USE <1>7 DEF RecordFailure
  <2>1. RowTypes'
    BY DEF RowTypes, HandlerTypes, CallerTypes, CallerOK
  <2>2. EventTypes'
    <3>1. skipped' \subseteq Orders
      BY DEF Skip, EventTypes, HandlerTypes
    <3>2. faults' \in 0..MaxFaults
      BY DEF EventTypes
    <3> QED
      BY <3>1, <3>2 DEF EventTypes
  <2>3. HandlerTypes'
    BY ContinueTypes DEF Skip, HandlerTypes, RowTypes
  <2>4. (StripeTypes /\ CallerTypes /\ CallerOK)'
    BY DEF StripeTypes, CallerTypes, CallerOK
  <2> QED
    BY <2>1, <2>2, <2>3, <2>4
<1>8. CASE CommitDiscounts(d)
  <2> USE DEF CommitDiscount, CommitRefused, AfterCommit
  <2>1. PICK k \in Discounts : CommitDiscount(d, k) \/ CommitRefused(d, k)
    BY <1>8 DEF CommitDiscounts
  <2>2. EventTypes'
    <3>1. committed' \subseteq Discounts \X Orders
      BY <2>1 DEF EventTypes, HandlerTypes
    <3> QED
      BY <2>1, <3>1 DEF EventTypes
  <2>3. HandlerTypes'
    BY <2>1 DEF HandlerTypes, StripeTypes, RowTypes
  <2>4. (RowTypes /\ StripeTypes /\ CallerTypes /\ CallerOK)'
    BY <2>1 DEF RowTypes, StripeTypes, CallerTypes, CallerOK
  <2> QED
    BY <2>2, <2>3, <2>4
<1>9. CASE ClaimPublish(d)
  <2> USE <1>9 DEF ClaimPublish, ClaimHeld
  <2>1. RowTypes'
    BY DEF RowTypes, HandlerTypes, CallerTypes, CallerOK
  <2>2. HandlerTypes'
    BY ContinueTypes DEF Skip, HandlerTypes, RowTypes
  <2>3. (StripeTypes /\ EventTypes /\ CallerTypes /\ CallerOK)'
    BY DEF StripeTypes, EventTypes, CallerTypes, CallerOK
  <2> QED
    BY <2>1, <2>2, <2>3
<1>10. CASE PublishPaid(d)
  <2> USE <1>10 DEF PublishPaid
  <2>1. EventTypes'
    BY DEF EventTypes, HandlerTypes, CallerTypes, CallerOK
  <2>2. HandlerTypes'
    BY DEF HandlerTypes, StripeTypes, RowTypes
  <2>3. (RowTypes /\ StripeTypes /\ CallerTypes /\ CallerOK)'
    BY DEF RowTypes, StripeTypes, CallerTypes, CallerOK
  <2> QED
    BY <2>1, <2>2, <2>3
<1>11. CASE PublishPayoutCompleted(d)
  <2> USE <1>11 DEF PublishPayoutCompleted
  <2>1. HandlerTypes'
    BY DEF HandlerTypes, StripeTypes, RowTypes
  <2>2. (RowTypes /\ StripeTypes /\ EventTypes /\ CallerTypes /\ CallerOK)'
    BY DEF RowTypes, StripeTypes, EventTypes, CallerTypes, CallerOK
  <2> QED
    BY <2>1, <2>2
<1>12. CASE MarkPublished(d)
  <2> USE <1>12 DEF MarkPublished
  <2>1. RowTypes'
    BY DEF RowTypes, HandlerTypes, CallerTypes, CallerOK
  <2>2. EventTypes'
    BY DEF Skip, EventTypes, HandlerTypes, CallerTypes, CallerOK
  <2>3. HandlerTypes'
    BY ContinueTypes DEF Skip, HandlerTypes, RowTypes
  <2>4. (StripeTypes /\ CallerTypes /\ CallerOK)'
    BY DEF StripeTypes, CallerTypes, CallerOK
  <2> QED
    BY <2>1, <2>2, <2>3, <2>4
<1>13. CASE DeliveryFails(d)
  <2> USE <1>13 DEF DeliveryFails
  <2>1. EventTypes'
    BY DEF EventTypes, HandlerTypes, CallerTypes, CallerOK
  <2>2. HandlerTypes'
    BY DEF HandlerTypes, StripeTypes, RowTypes
  <2>3. (RowTypes /\ StripeTypes /\ CallerTypes /\ CallerOK)'
    BY DEF RowTypes, StripeTypes, CallerTypes, CallerOK
  <2> QED
    BY <2>1, <2>2, <2>3
<1> QED
  BY <1>1, <1>2, <1>3, <1>4, <1>5, <1>6, <1>7, <1>8, <1>9, <1>10, <1>11, <1>12, <1>13 DEF Delivery

\* Each step of a cancellation call keeps the types.
LEMMA TypeCaller ==
  ASSUME TypeInv, NEW c \in Callers, Caller(c) \/ CallerFails(c)
  PROVE  TypeInv'
<1> USE NumOrdersAssumption, NumRequestsAssumption, MaxFaultsAssumption DEF TypeInv, TypeOK
<1>1. ASSUME NEW o \in Orders, RequestCancellation(c, o) \/ AdminForceCancel(c, o)
      PROVE  TypeInv'
  <2> USE <1>1 DEF RequestCancellation, AdminForceCancel, OpenByOrder
  <2>1. CallerTypes'
    BY DEF CallerTypes, RowTypes
  <2>2. CallerOK'
    BY DEF CallerOK, CallerTypes, RowTypes
  <2>3. (RowTypes /\ StripeTypes)'
    BY DEF RowTypes, StripeTypes
  <2>4. (EventTypes /\ HandlerTypes)'
    BY DEF EventTypes, HandlerTypes
  <2> QED
    BY <2>1, <2>2, <2>3, <2>4
<1>2. ASSUME NEW r \in Requests, ApproveCancellation(c, r)
      PROVE  TypeInv'
  <2> USE <1>2 DEF ApproveCancellation
  <2>1. CallerTypes'
    BY DEF CallerTypes, RowTypes
  <2>2. CallerOK'
    BY DEF CallerOK, CallerTypes, RowTypes
  <2>3. (RowTypes /\ StripeTypes /\ EventTypes /\ HandlerTypes)'
    BY DEF RowTypes, StripeTypes, EventTypes, HandlerTypes
  <2> QED
    BY <2>1, <2>2, <2>3
<1>3. CASE InsertRequest(c)
  <2> USE <1>3 DEF InsertRequest
  <2>1. RowTypes'
    <3>1. CASE \E r \in Requests : CreateRequest(corder[c], r)
      BY <3>1 DEF CreateRequest, RowTypes, CallerTypes
    <3>2. CASE UNCHANGED requestVars
      BY <3>2 DEF RowTypes
    <3> QED
      BY <3>1, <3>2
  <2>2. CallerTypes'
    BY DEF CallerTypes, RowTypes
  <2>3. CallerOK'
    BY DEF CallerOK, CallerTypes, RowTypes
  <2>4. (StripeTypes /\ EventTypes /\ HandlerTypes)'
    BY DEF StripeTypes, EventTypes, HandlerTypes
  <2> QED
    BY <2>1, <2>2, <2>3, <2>4
<1>4. CASE AdminLatest(c)
  <2> USE <1>4 DEF AdminLatest
  <2>1. CallerTypes'
    BY DEF CallerTypes, RowTypes
  <2>2. CallerOK'
    <3>1. PICK k : CGoto(c, k) /\ (k = "payouts" => creq'[c] \in Requests)
                  /\ k \in {"payouts", "adminCreate"}
      BY DEF CallerTypes
    <3>2. \A b \in Callers : b # c => creq'[b] = creq[b]
      BY DEF CallerTypes
    <3> QED
      BY <3>1, <3>2 DEF CallerOK, CallerTypes
  <2>3. (RowTypes /\ StripeTypes /\ EventTypes /\ HandlerTypes)'
    BY DEF RowTypes, StripeTypes, EventTypes, HandlerTypes
  <2> QED
    BY <2>1, <2>2, <2>3
<1>5. CASE AdminCreate(c)
  <2> USE <1>5 DEF AdminCreate
  <2>1. RowTypes'
    <3>1. CASE \E r \in Requests : CreateRequest(corder[c], r)
      BY <3>1 DEF CreateRequest, RowTypes, CallerTypes
    <3>2. CASE UNCHANGED requestVars
      BY <3>2 DEF RowTypes
    <3> QED
      BY <3>1, <3>2
  <2>2. CallerTypes'
    <3>1. creq' \in [Callers -> Requests \cup {0}]
      BY DEF CallerTypes
    <3>2. cpc' \in [Callers -> CallerPC]
      BY DEF CallerTypes
    <3> QED
      BY <3>1, <3>2 DEF CallerTypes
  <2>3. CallerOK'
    <3>1. PICK k : CGoto(c, k) /\ (k = "payouts" => creq'[c] \in Requests)
                  /\ k \in {"payouts", "adminReload"}
      BY DEF CallerTypes
    <3>2. \A b \in Callers : b # c => creq'[b] = creq[b]
      BY DEF CallerTypes
    <3> QED
      BY <3>1, <3>2 DEF CallerOK, CallerTypes
  <2>4. (StripeTypes /\ EventTypes /\ HandlerTypes)'
    BY DEF StripeTypes, EventTypes, HandlerTypes
  <2> QED
    BY <2>1, <2>2, <2>3, <2>4
<1>6. CASE AdminReload(c)
  <2> USE <1>6 DEF AdminReload
  <2>1. CallerTypes'
    BY DEF CallerTypes, RowTypes
  <2>2. CallerOK'
    BY DEF CallerOK, CallerTypes, RowTypes
  <2>3. (RowTypes /\ StripeTypes /\ EventTypes /\ HandlerTypes)'
    BY DEF RowTypes, StripeTypes, EventTypes, HandlerTypes
  <2> QED
    BY <2>1, <2>2, <2>3
<1>7. CASE ListPayouts(c)
  <2> USE <1>7 DEF ListPayouts
  <2>1. CallerTypes'
    BY DEF CallerTypes, RowTypes
  <2>2. CallerOK'
    BY DEF CallerOK, CallerTypes, RowTypes
  <2>3. (RowTypes /\ StripeTypes /\ EventTypes /\ HandlerTypes)'
    BY DEF RowTypes, StripeTypes, EventTypes, HandlerTypes
  <2> QED
    BY <2>1, <2>2, <2>3
<1>8. CASE CreateRefund(c)
  <2> USE <1>8 DEF CreateRefund, AfterRefund
  <2>1. StripeTypes'
    BY DEF StripeTypes, HandlerTypes, CallerTypes, CallerOK
  <2>2. CallerTypes'
    BY DEF CallerTypes, RowTypes
  <2>3. CallerOK'
    BY DEF CallerOK, CallerTypes, RowTypes
  <2>4. (RowTypes /\ EventTypes /\ HandlerTypes)'
    BY DEF RowTypes, EventTypes, HandlerTypes
  <2> QED
    BY <2>1, <2>2, <2>3, <2>4
<1>9. CASE RefundFails(c)
  <2> USE <1>9 DEF RefundFails
  <2>1. StripeTypes'
    BY DEF StripeTypes, HandlerTypes, CallerTypes, CallerOK
  <2>2. EventTypes'
    BY DEF EventTypes, HandlerTypes, CallerTypes, CallerOK
  <2>3. CallerTypes'
    BY DEF CallerTypes, RowTypes
  <2>4. CallerOK'
    BY DEF CallerOK, CallerTypes, RowTypes
  <2>5. (RowTypes /\ HandlerTypes)'
    BY DEF RowTypes, HandlerTypes
  <2> QED
    BY <2>1, <2>2, <2>3, <2>4, <2>5
<1>10. CASE ReverseTransfer(c)
  <2> USE <1>10 DEF ReverseTransfer
  <2>1. StripeTypes'
    BY DEF StripeTypes, HandlerTypes, CallerTypes, CallerOK
  <2>2. CallerTypes'
    BY DEF CallerTypes, RowTypes
  <2>3. CallerOK'
    BY DEF CallerOK, CallerTypes, RowTypes
  <2>4. (RowTypes /\ EventTypes /\ HandlerTypes)'
    BY DEF RowTypes, EventTypes, HandlerTypes
  <2> QED
    BY <2>1, <2>2, <2>3, <2>4
<1>11. CASE ReversalFails(c)
  <2> USE <1>11 DEF ReversalFails
  <2>1. StripeTypes'
    BY DEF StripeTypes, HandlerTypes, CallerTypes, CallerOK
  <2>2. EventTypes'
    BY DEF EventTypes, HandlerTypes, CallerTypes, CallerOK
  <2>3. CallerTypes'
    BY DEF CallerTypes, RowTypes
  <2>4. CallerOK'
    BY DEF CallerOK, CallerTypes, RowTypes
  <2>5. (RowTypes /\ HandlerTypes)'
    BY DEF RowTypes, HandlerTypes
  <2> QED
    BY <2>1, <2>2, <2>3, <2>4, <2>5
<1>12. CASE ApproveTx(c)
  <2> USE <1>12 DEF ApproveTx
  <2>1. RowTypes'
    <3>1. status' \in [Orders -> OrderStatus]
      BY DEF RowTypes, CallerTypes
    <3>2. reqStatus' \in [Requests -> RequestStatus]
      BY DEF RowTypes, CallerOK
    <3>3. payout' \in [Orders -> PayoutStatus]
      BY DEF RowTypes, CallerTypes
    <3> QED
      BY <3>1, <3>2, <3>3 DEF RowTypes
  <2>2. CallerTypes'
    BY DEF CallerTypes, RowTypes
  <2>3. CallerOK'
    BY DEF CallerOK, CallerTypes, RowTypes
  <2>4. (StripeTypes /\ EventTypes /\ HandlerTypes)'
    BY DEF StripeTypes, EventTypes, HandlerTypes
  <2> QED
    BY <2>1, <2>2, <2>3, <2>4
<1>13. CASE MarkFailed(c)
  <2> USE <1>13 DEF MarkFailed, FailedFrom
  <2>1. RowTypes'
    BY DEF RowTypes, HandlerTypes, CallerTypes, CallerOK
  <2>2. CallerTypes'
    BY DEF CallerTypes, RowTypes
  <2>3. CallerOK'
    BY DEF CallerOK, CallerTypes, RowTypes
  <2>4. (StripeTypes /\ EventTypes /\ HandlerTypes)'
    BY DEF StripeTypes, EventTypes, HandlerTypes
  <2> QED
    BY <2>1, <2>2, <2>3, <2>4
<1>14. CASE PublishCancelled(c)
  <2> USE <1>14 DEF PublishCancelled
  <2>1. EventTypes'
    BY DEF EventTypes, HandlerTypes, CallerTypes, CallerOK
  <2>2. CallerTypes'
    BY DEF CallerTypes, RowTypes
  <2>3. CallerOK'
    BY DEF CallerOK, CallerTypes, RowTypes
  <2>4. (RowTypes /\ StripeTypes /\ HandlerTypes)'
    BY DEF RowTypes, StripeTypes, HandlerTypes
  <2> QED
    BY <2>1, <2>2, <2>3, <2>4
<1>15. CASE CallerFails(c)
  <2> USE <1>15 DEF CallerFails
  <2>1. EventTypes'
    BY DEF EventTypes, HandlerTypes, CallerTypes, CallerOK
  <2>2. CallerTypes'
    BY DEF CallerTypes, RowTypes
  <2>3. CallerOK'
    BY DEF CallerOK, CallerTypes, RowTypes
  <2>4. (RowTypes /\ StripeTypes /\ HandlerTypes)'
    BY DEF RowTypes, StripeTypes, HandlerTypes
  <2> QED
    BY <2>1, <2>2, <2>3, <2>4
<1> QED
  BY <1>1, <1>2, <1>3, <1>4, <1>5, <1>6, <1>7, <1>8, <1>9, <1>10, <1>11, <1>12, <1>13, <1>14, <1>15 DEF Caller

\* The next-state relation keeps the types.
LEMMA TypeStep == TypeInv /\ [Next]_vars => TypeInv'
<1> SUFFICES ASSUME TypeInv, [Next]_vars PROVE TypeInv'
  OBVIOUS
<1> USE DEF TypeInv, TypeOK
<1>1. CASE PaymentSucceeds
  BY <1>1 DEF PaymentSucceeds, RowTypes, StripeTypes, EventTypes, HandlerTypes, CallerTypes, CallerOK
<1>2. ASSUME NEW d \in Deliveries, Delivery(d) \/ DeliveryFails(d) PROVE TypeInv'
  BY <1>2, TypeDelivery
<1>3. ASSUME NEW o \in Orders, ClaimExpires(o) PROVE TypeInv'
  BY <1>3 DEF ClaimExpires, RowTypes, StripeTypes, EventTypes, HandlerTypes, CallerTypes, CallerOK
<1>4. ASSUME NEW c \in Callers, Caller(c) \/ CallerFails(c) PROVE TypeInv'
  BY <1>4, TypeCaller
<1>5. ASSUME NEW r \in Requests, RejectCancellation(r) PROVE TypeInv'
  BY <1>5 DEF RejectCancellation, RowTypes, StripeTypes, EventTypes, HandlerTypes, CallerTypes, CallerOK
<1>6. ASSUME NEW o \in Orders, NEW s \in OrderStatus,
             UpdateOrderStatus(o, s) \/ HandleShipmentEvent(o, s)
      PROVE  TypeInv'
  <2> USE <1>6 DEF UpdateOrderStatus, HandleShipmentEvent, UpdateStatus
  <2>1. RowTypes'
    BY DEF RowTypes
  <2>2. EventTypes'
    BY DEF EventTypes
  <2>3. (StripeTypes /\ HandlerTypes /\ CallerTypes /\ CallerOK)'
    BY DEF StripeTypes, HandlerTypes, CallerTypes, CallerOK
  <2> QED
    BY <2>1, <2>2, <2>3
<1>7. ASSUME NEW k \in Discounts, ReservationLapses(k) PROVE TypeInv'
  BY <1>7 DEF ReservationLapses, RowTypes, StripeTypes, EventTypes, HandlerTypes, CallerTypes,
     CallerOK
<1>8. CASE UNCHANGED vars
  BY <1>8 DEF vars, RowTypes, StripeTypes, EventTypes, HandlerTypes, CallerTypes, CallerOK
<1> QED
  BY <1>1, <1>2, <1>3, <1>4, <1>5, <1>6, <1>7, <1>8 DEF Next

\* Every reachable state is well typed.
THEOREM TypeCorrect == Spec => []TypeOK
<1>1. TypeInv => TypeOK
  BY DEF TypeInv
<1> QED
  BY <1>1, TypeInit, TypeStep, PTL DEF Spec

-------------------------------------------------------------------------------
(***************************************************************************)
(* What handlers and callers leave alone: the frame of the proofs below.   *)
(***************************************************************************)

LEMMA DeliveryFrame ==
  ASSUME NEW d \in Deliveries, Delivery(d) \/ DeliveryFails(d)
  PROVE  UNCHANGED <<requestVars, pi, refunds, reversals, cancelledEvents, callerVars>>
  BY DEF Delivery, StartDelivery, SetPaid, ReadPayout, Transfer, TransferFails,
         RecordTransfer, RecordFailure, CommitDiscounts, CommitDiscount, CommitRefused,
         ClaimPublish, PublishPaid,
         PublishPayoutCompleted, MarkPublished, DeliveryFails

LEMMA CallerFrame ==
  ASSUME NEW c \in Callers, Caller(c) \/ CallerFails(c)
  PROVE  UNCHANGED <<claim, published, payoutTransfer, pi, transfers, discountVars,
                     paidEvents, deliveryVars, historyVars>>
  BY DEF Caller, RequestCancellation, AdminForceCancel, OpenByOrder, InsertRequest,
         AdminLatest, AdminCreate, AdminReload, ApproveCancellation, ListPayouts,
         CreateRefund, RefundFails, ReverseTransfer, ReversalFails, ApproveTx, MarkFailed,
         PublishCancelled, CallerFails

-------------------------------------------------------------------------------
(***************************************************************************)
(* Stripe before the database.                                             *)
(***************************************************************************)

\* A call that is past CreateRefund holds a request Stripe has refunded.
RefundInv ==
  /\ ApprovedIsRefunded
  /\ \A c \in Callers : cpc[c] \in {"reverse", "approve", "publish"} => creq[c] \in refunds

\* A cancellation call keeps RefundInv: only CreateRefund enters the guarded
\* labels, refunds only grow, and ApproveTx approves the request it holds.
LEMMA RefundCaller ==
  ASSUME TypeInv, RefundInv, NEW c \in Callers, Caller(c) \/ CallerFails(c)
  PROVE  RefundInv'
<1> USE DEF TypeInv, TypeOK, CallerTypes, CallerOK, RowTypes, RefundInv, ApprovedIsRefunded
<1>1. ASSUME NEW o \in Orders, RequestCancellation(c, o) \/ AdminForceCancel(c, o)
      PROVE  RefundInv'
  BY <1>1 DEF RequestCancellation, AdminForceCancel, OpenByOrder
<1>2. ASSUME NEW r \in Requests, ApproveCancellation(c, r)
      PROVE  RefundInv'
  BY <1>2 DEF ApproveCancellation
<1>3. CASE InsertRequest(c)
  BY <1>3 DEF InsertRequest, CreateRequest
<1>4. CASE AdminLatest(c)
  <2>1. reqStatus' = reqStatus /\ refunds' = refunds
    BY <1>4 DEF AdminLatest, requestVars, stripeVars
  <2>2. \A b \in Callers : b # c => cpc'[b] = cpc[b] /\ creq'[b] = creq[b]
    BY <1>4 DEF AdminLatest, CGoto
  <2>3. cpc'[c] \notin {"reverse", "approve", "publish"}
    BY <1>4 DEF AdminLatest, CGoto
  <2>4. ApprovedIsRefunded'
    BY <2>1
  <2>5. ASSUME NEW b \in Callers, cpc'[b] \in {"reverse", "approve", "publish"}
        PROVE  creq'[b] \in refunds'
    BY <2>1, <2>2, <2>3, <2>5
  <2> QED
    BY <2>4, <2>5
<1>5. CASE AdminCreate(c)
  <2>1. \A r \in Requests : reqStatus'[r] = "approved" => reqStatus[r] = "approved"
    BY <1>5 DEF AdminCreate, CreateRequest
  <2>2. \A b \in Callers : /\ cpc'[b] \in {"reverse", "approve", "publish"} => cpc'[b] = cpc[b]
                           /\ b # c => creq'[b] = creq[b]
    BY <1>5 DEF AdminCreate
  <2>3. cpc'[c] \notin {"reverse", "approve", "publish"} /\ refunds' = refunds
    BY <1>5 DEF AdminCreate
  <2>4. ApprovedIsRefunded'
    BY <2>1, <2>3
  <2>5. ASSUME NEW b \in Callers, cpc'[b] \in {"reverse", "approve", "publish"}
        PROVE  creq'[b] \in refunds'
    <3>1. b # c /\ cpc[b] \in {"reverse", "approve", "publish"}
      BY <2>2, <2>3, <2>5
    <3>2. creq[b] \in refunds
      BY <3>1
    <3> QED
      BY <3>1, <3>2, <2>2, <2>3
  <2> QED
    BY <2>4, <2>5
<1>6. CASE AdminReload(c)
  BY <1>6 DEF AdminReload
<1>7. CASE ListPayouts(c)
  BY <1>7 DEF ListPayouts
<1>8. CASE CreateRefund(c)
  BY <1>8 DEF CreateRefund, AfterRefund
<1>9. CASE RefundFails(c)
  BY <1>9 DEF RefundFails
<1>10. CASE ReverseTransfer(c)
  BY <1>10 DEF ReverseTransfer
<1>11. CASE ReversalFails(c)
  BY <1>11 DEF ReversalFails
<1>12. CASE ApproveTx(c)
  <2>1. creq[c] \in refunds /\ refunds' = refunds /\ creq' = creq
    BY <1>12 DEF ApproveTx
  <2>2. \A r \in Requests : reqStatus'[r] = "approved" => reqStatus[r] = "approved" \/ r = creq[c]
    <3>1. reqStatus' = reqStatus \/ reqStatus' = [reqStatus EXCEPT ![creq[c]] = "approved"]
      BY <1>12 DEF ApproveTx
    <3> QED
      BY <3>1
  <2>3. \A b \in Callers : b # c => cpc'[b] = cpc[b]
    BY <1>12 DEF ApproveTx
  <2> QED
    BY <2>1, <2>2, <2>3
<1>13. CASE MarkFailed(c)
  BY <1>13 DEF MarkFailed, FailedFrom
<1>14. CASE PublishCancelled(c)
  BY <1>14 DEF PublishCancelled
<1>15. CASE CallerFails(c)
  BY <1>15 DEF CallerFails
<1> QED
  BY <1>1, <1>2, <1>3, <1>4, <1>5, <1>6, <1>7, <1>8, <1>9, <1>10, <1>11, <1>12, <1>13, <1>14, <1>15 DEF Caller

\* An approved cancellation request has its Stripe refund, for every number of
\* callers, requests and faults.
THEOREM StripeBeforeDatabase == Spec => []ApprovedIsRefunded
<1>1. Init => RefundInv
  BY DEF Init, RefundInv, ApprovedIsRefunded
<1>2. TypeInv /\ RefundInv /\ [Next]_vars => RefundInv'
  <2> SUFFICES ASSUME TypeInv, RefundInv, [Next]_vars PROVE RefundInv'
    OBVIOUS
  <2> USE DEF RefundInv, ApprovedIsRefunded
  <2>1. CASE PaymentSucceeds
    BY <2>1 DEF PaymentSucceeds
  <2>2. ASSUME NEW d \in Deliveries, Delivery(d) \/ DeliveryFails(d) PROVE RefundInv'
    BY <2>2, DeliveryFrame
  <2>3. ASSUME NEW o \in Orders, ClaimExpires(o) PROVE RefundInv'
    BY <2>3 DEF ClaimExpires
  <2>4. ASSUME NEW c \in Callers, Caller(c) \/ CallerFails(c) PROVE RefundInv'
    BY <2>4, RefundCaller
  <2>5. ASSUME NEW r \in Requests, RejectCancellation(r) PROVE RefundInv'
    BY <2>5 DEF RejectCancellation, TypeInv, TypeOK, RowTypes
  <2>6. ASSUME NEW o \in Orders, NEW s \in OrderStatus,
               UpdateOrderStatus(o, s) \/ HandleShipmentEvent(o, s)
        PROVE  RefundInv'
    BY <2>6 DEF UpdateOrderStatus, HandleShipmentEvent, UpdateStatus
  <2>7. ASSUME NEW k \in Discounts, ReservationLapses(k) PROVE RefundInv'
    BY <2>7 DEF ReservationLapses
  <2>8. CASE UNCHANGED vars
    BY <2>8 DEF vars
  <2> QED
    BY <2>1, <2>2, <2>3, <2>4, <2>5, <2>6, <2>7, <2>8 DEF Next
<1>3. RefundInv => ApprovedIsRefunded
  BY DEF RefundInv
<1> QED
  BY <1>1, <1>2, <1>3, TypeInit, TypeStep, PTL DEF Spec

-------------------------------------------------------------------------------
(***************************************************************************)
(* The publish claim is exclusive until it expires.                        *)
(***************************************************************************)

\* Handler d holds the right to publish order.paid for o.
Publishing(d, o) == pc[d] = "publishPaid" /\ at[d] = o

\* An unclaimed order has no event and no publisher; until its claim has
\* expired once, it has at most one publisher, and none after its event.
ClaimInv ==
  \A o \in Orders :
    /\ claim[o] = "stale" => o \in expired
    /\ claim[o] = "none" => paidEvents[o] = 0 /\ \A d \in Deliveries : ~Publishing(d, o)
    /\ o \notin expired => paidEvents[o] < 2
    /\ o \notin expired => \A d, e \in Deliveries :
         Publishing(d, o) /\ Publishing(e, o) => d = e /\ paidEvents[o] = 0

\* A handler whose step neither claims nor publishes keeps ClaimInv.
LEMMA ClaimIdleStep ==
  ASSUME TypeInv, ClaimInv, UNCHANGED <<claim, expired, paidEvents>>,
         \A d \in Deliveries, o \in Orders : Publishing(d, o)' => Publishing(d, o)
  PROVE  ClaimInv'
  BY DEF ClaimInv

LEMMA ClaimDelivery ==
  ASSUME TypeInv, ClaimInv, NEW d \in Deliveries, Delivery(d) \/ DeliveryFails(d)
  PROVE  ClaimInv'
<1> USE DEF TypeInv, TypeOK, HandlerTypes, RowTypes, EventTypes
<1>1. ASSUME NEW e \in Deliveries, e # d
      PROVE  pc'[e] = pc[e] /\ at'[e] = at[e]
  BY <1>1 DEF Delivery, StartDelivery, SetPaid, ReadPayout, Transfer, TransferFails,
         RecordTransfer, RecordFailure, CommitDiscounts, CommitDiscount, CommitRefused,
         ClaimPublish, ClaimHeld, PublishPaid,
         PublishPayoutCompleted, MarkPublished, DeliveryFails, Skip, Continue
<1>2. CASE ClaimPublish(d)
  <2>1. CASE UNCHANGED claim
    <3>1. pc'[d] # "publishPaid"
      BY <1>2, <2>1 DEF ClaimPublish, Continue, ClaimHeld, ClaimFree
    <3> QED
      BY <1>1, <1>2, <2>1, <3>1, ClaimIdleStep DEF ClaimPublish, Publishing
  <2>2. CASE claim' # claim
    <3> DEFINE o == at[d]
    <3>1. ClaimFree(o) /\ claim' = [claim EXCEPT ![o] = "fresh"]
          /\ UNCHANGED <<at, expired, paidEvents>>
      BY <1>2, <2>2 DEF ClaimPublish
    <3>2. claim[o] = "none" \/ o \in expired
      BY <3>1 DEF ClaimFree, ClaimInv
    <3>3. \A q \in Orders : q # o => claim'[q] = claim[q]
                               /\ \A e \in Deliveries : Publishing(e, q)' => Publishing(e, q)
      BY <1>1, <3>1 DEF Publishing
    <3>4. claim'[o] = "fresh" /\ \A e \in Deliveries : Publishing(e, o)' => e = d \/ Publishing(e, o)
      BY <1>1, <3>1 DEF Publishing
    <3>5. o \notin expired => paidEvents[o] = 0 /\ \A e \in Deliveries : ~Publishing(e, o)
      BY <3>2 DEF ClaimInv
    <3> SUFFICES ASSUME NEW q \in Orders
                 PROVE  /\ claim'[q] = "stale" => q \in expired
                        /\ claim'[q] = "none" => paidEvents[q] = 0
                             /\ \A e \in Deliveries : ~Publishing(e, q)'
                        /\ q \notin expired => paidEvents[q] < 2
                        /\ q \notin expired => \A e, f \in Deliveries :
                             Publishing(e, q)' /\ Publishing(f, q)' => e = f /\ paidEvents[q] = 0
      BY <3>1 DEF ClaimInv
    <3>6. CASE q # o
      BY <3>3, <3>6 DEF ClaimInv
    <3>7. CASE q = o
      BY <3>1, <3>4, <3>5, <3>7 DEF ClaimInv
    <3> QED
      BY <3>6, <3>7
  <2> QED
    BY <2>1, <2>2
<1>3. CASE PublishPaid(d)
  <2> DEFINE o == at[d]
  <2>1. Publishing(d, o) /\ claim[o] # "none"
    BY <1>3 DEF PublishPaid, Publishing, ClaimInv
  <2>2. \A e \in Deliveries, q \in Orders : Publishing(e, q)' => e # d /\ Publishing(e, q)
    BY <1>1, <1>3 DEF PublishPaid, Publishing
  <2>3. \A q \in Orders : q # o => paidEvents'[q] = paidEvents[q]
    BY <1>3 DEF PublishPaid
  <2>4. UNCHANGED <<claim, expired>>
    BY <1>3 DEF PublishPaid
  <2>5. o \notin expired => paidEvents'[o] = 1 /\ \A e \in Deliveries : ~Publishing(e, o)'
    BY <1>3, <2>1, <2>2 DEF PublishPaid, ClaimInv
  <2>6. ASSUME NEW q \in Orders
        PROVE  /\ claim'[q] = "stale" => q \in expired'
               /\ claim'[q] = "none" => paidEvents'[q] = 0 /\ \A e \in Deliveries : ~Publishing(e, q)'
               /\ q \notin expired' => paidEvents'[q] < 2
               /\ q \notin expired' => \A e, f \in Deliveries :
                    Publishing(e, q)' /\ Publishing(f, q)' => e = f /\ paidEvents'[q] = 0
    <3>1. CASE q = o
      BY <2>1, <2>2, <2>4, <2>5, <3>1 DEF ClaimInv
    <3>2. CASE q # o
      BY <2>2, <2>3, <2>4, <3>2 DEF ClaimInv
    <3> QED
      BY <3>1, <3>2
  <2> QED
    BY <2>6 DEF ClaimInv
<1>4. CASE ~ClaimPublish(d) /\ ~PublishPaid(d)
  <2>1. pc'[d] # "publishPaid" /\ UNCHANGED <<claim, expired, paidEvents>>
    BY <1>4 DEF Delivery, StartDelivery, SetPaid, ReadPayout, Transfer, TransferFails,
         RecordTransfer, RecordFailure, CommitDiscounts, CommitDiscount, CommitRefused,
         AfterCommit, PublishPayoutCompleted, MarkPublished, DeliveryFails, Skip, Continue
  <2> QED
    BY <1>1, <2>1, ClaimIdleStep DEF Publishing
<1> QED
  BY <1>2, <1>3, <1>4

\* order.paid is published a second time only after a claim has outlived its TTL.
THEOREM ClaimIsExclusive == Spec => []DuplicatePaidOnlyAfterExpiry
<1>1. Init => ClaimInv
  BY DEF Init, ClaimInv, Publishing
<1>2. TypeInv /\ ClaimInv /\ [Next]_vars => ClaimInv'
  <2> SUFFICES ASSUME TypeInv, ClaimInv, [Next]_vars PROVE ClaimInv'
    OBVIOUS
  <2>1. CASE PaymentSucceeds
    BY <2>1, ClaimIdleStep DEF PaymentSucceeds, Publishing
  <2>2. ASSUME NEW d \in Deliveries, Delivery(d) \/ DeliveryFails(d) PROVE ClaimInv'
    BY <2>2, ClaimDelivery
  <2>3. ASSUME NEW o \in Orders, ClaimExpires(o) PROVE ClaimInv'
    BY <2>3 DEF ClaimExpires, ClaimInv, Publishing, TypeInv, TypeOK, RowTypes
  <2>4. ASSUME NEW c \in Callers, Caller(c) \/ CallerFails(c) PROVE ClaimInv'
    BY <2>4, CallerFrame, ClaimIdleStep DEF Publishing
  <2>5. ASSUME NEW r \in Requests, RejectCancellation(r) PROVE ClaimInv'
    BY <2>5, ClaimIdleStep DEF RejectCancellation, Publishing
  <2>6. ASSUME NEW o \in Orders, NEW s \in OrderStatus,
               UpdateOrderStatus(o, s) \/ HandleShipmentEvent(o, s)
        PROVE  ClaimInv'
    BY <2>6, ClaimIdleStep DEF UpdateOrderStatus, HandleShipmentEvent, UpdateStatus, Publishing
  <2>7. ASSUME NEW k \in Discounts, ReservationLapses(k) PROVE ClaimInv'
    BY <2>7, ClaimIdleStep DEF ReservationLapses, Publishing
  <2>8. CASE UNCHANGED vars
    BY <2>8, ClaimIdleStep DEF vars, Publishing
  <2> QED
    BY <2>1, <2>2, <2>3, <2>4, <2>5, <2>6, <2>7, <2>8 DEF Next
<1>3. TypeInv /\ ClaimInv => DuplicatePaidOnlyAfterExpiry
  BY DEF ClaimInv, DuplicatePaidOnlyAfterExpiry, TypeInv, TypeOK, EventTypes
<1> QED
  BY <1>1, <1>2, <1>3, TypeInit, TypeStep, PTL DEF Spec

-------------------------------------------------------------------------------
(***************************************************************************)
(* History: what no step of any actor takes back.                          *)
(***************************************************************************)

\* A handler writes its own local variables only.
LEMMA DeliveryLocal ==
  ASSUME TypeInv, NEW d \in Deliveries, Delivery(d) \/ DeliveryFails(d),
         NEW e \in Deliveries, e # d
  PROVE  /\ pc'[e] = pc[e] /\ at'[e] = at[e]
         /\ seenPublished'[e] = seenPublished[e] /\ transferOf'[e] = transferOf[e]
<1> USE DEF TypeInv, TypeOK, HandlerTypes
<1>1. pc'[e] = pc[e] /\ at'[e] = at[e]
  BY DEF Delivery, StartDelivery, SetPaid, ReadPayout, Transfer, TransferFails,
         RecordTransfer, RecordFailure, CommitDiscounts, CommitDiscount, CommitRefused,
         ClaimPublish, ClaimHeld, PublishPaid,
         PublishPayoutCompleted, MarkPublished, DeliveryFails, Skip, Continue
<1>2. seenPublished'[e] = seenPublished[e] /\ transferOf'[e] = transferOf[e]
  BY DEF Delivery, StartDelivery, SetPaid, ReadPayout, Transfer, TransferFails,
         RecordTransfer, RecordFailure, CommitDiscounts, CommitDiscount, CommitRefused,
         ClaimPublish, PublishPaid,
         PublishPayoutCompleted, MarkPublished, DeliveryFails
<1> QED
  BY <1>1, <1>2

\* So does a cancellation call.
LEMMA CallerLocal ==
  ASSUME TypeInv, NEW c \in Callers, Caller(c) \/ CallerFails(c),
         NEW b \in Callers, b # c
  PROVE  cpc'[b] = cpc[b] /\ creq'[b] = creq[b] /\ corder'[b] = corder[b] /\ cpayout'[b] = cpayout[b]
<1> USE DEF TypeInv, TypeOK, CallerTypes
<1>1. cpc'[b] = cpc[b]
  BY DEF Caller, RequestCancellation, AdminForceCancel, OpenByOrder, InsertRequest,
         AdminLatest, AdminCreate, AdminReload, ApproveCancellation, ListPayouts,
         CreateRefund, RefundFails, ReverseTransfer, ReversalFails, ApproveTx, MarkFailed,
         PublishCancelled, CallerFails
<1>2. creq'[b] = creq[b] /\ corder'[b] = corder[b] /\ cpayout'[b] = cpayout[b]
  BY DEF Caller, RequestCancellation, AdminForceCancel, OpenByOrder, InsertRequest,
         AdminLatest, AdminCreate, AdminReload, ApproveCancellation, ListPayouts,
         CreateRefund, RefundFails, ReverseTransfer, ReversalFails, ApproveTx, MarkFailed,
         PublishCancelled, CallerFails
<1> QED
  BY <1>1, <1>2

\* Whatever is left of Next once handlers and callers are set apart.
Environment ==
  \/ PaymentSucceeds
  \/ \E o \in Orders : ClaimExpires(o)
  \/ \E k \in Discounts : ReservationLapses(k)
  \/ \E r \in Requests : RejectCancellation(r)
  \/ \E o \in Orders, s \in OrderStatus : UpdateOrderStatus(o, s) \/ HandleShipmentEvent(o, s)

\* The environment touches no local variable, transfer, discount or event.
LEMMA EnvironmentFrame ==
  ASSUME Environment \/ UNCHANGED vars
  PROVE  UNCHANGED <<published, payoutVars, reqOrder, transfers, refunds, reversals,
                     carriers, committed, paidEvents, cancelledEvents, deliveryVars,
                     callerVars, skipped>>
  BY DEF Environment, PaymentSucceeds, ClaimExpires, ReservationLapses, RejectCancellation,
         UpdateOrderStatus, HandleShipmentEvent, UpdateStatus, vars

\* An order that has left "pending" never returns to it.
LEMMA StatusLeavesPending ==
  ASSUME TypeInv, [Next]_vars, NEW o \in Orders, status[o] # "pending"
  PROVE  status'[o] # "pending"
<1> USE DEF TypeInv, TypeOK, RowTypes
<1>1. ASSUME NEW d \in Deliveries, Delivery(d) \/ DeliveryFails(d) PROVE status'[o] # "pending"
  <2>1. CASE SetPaid(d)
    BY <2>1 DEF SetPaid, PaidFrom
  <2>2. CASE ~SetPaid(d)
    BY <1>1, <2>2 DEF Delivery, StartDelivery, ReadPayout, Transfer, TransferFails,
         RecordTransfer, RecordFailure, CommitDiscounts, CommitDiscount, CommitRefused,
         ClaimPublish, PublishPaid,
         PublishPayoutCompleted, MarkPublished, DeliveryFails
  <2> QED
    BY <2>1, <2>2
<1>2. ASSUME NEW c \in Callers, Caller(c) \/ CallerFails(c) PROVE status'[o] # "pending"
  <2>1. CASE ApproveTx(c)
    BY <2>1 DEF ApproveTx
  <2>2. CASE ~ApproveTx(c)
    BY <1>2, <2>2 DEF Caller, RequestCancellation, AdminForceCancel, OpenByOrder, InsertRequest,
         AdminLatest, AdminCreate, AdminReload, ApproveCancellation, ListPayouts,
         CreateRefund, RefundFails, ReverseTransfer, ReversalFails, MarkFailed,
         PublishCancelled, CallerFails
  <2> QED
    BY <2>1, <2>2
<1>3. ASSUME Environment \/ UNCHANGED vars PROVE status'[o] # "pending"
  BY <1>3, FulfilmentAssumption DEF Environment, PaymentSucceeds, ClaimExpires, ReservationLapses,
     RejectCancellation, UpdateOrderStatus, HandleShipmentEvent, UpdateStatus, vars
<1> QED
  BY <1>1, <1>2, <1>3 DEF Next, Environment

\* Stripe forgets no transfer and no reversal, and what was published, committed
\* or skipped stays so.
LEMMA HistoryGrows ==
  ASSUME TypeInv, [Next]_vars
  PROVE  /\ \A t \in TransferIds : transfers[t] # 0 => transfers'[t] = transfers[t]
         /\ \A o \in Orders : published[o] => published'[o]
         /\ \A o \in Orders : paidEvents[o] > 0 => paidEvents'[o] > 0
         /\ committed \subseteq committed' /\ skipped \subseteq skipped'
         /\ reversals \subseteq reversals'
<1> DEFINE P ==
      /\ \A t \in TransferIds : transfers[t] # 0 => transfers'[t] = transfers[t]
      /\ \A o \in Orders : published[o] => published'[o]
      /\ \A o \in Orders : paidEvents[o] > 0 => paidEvents'[o] > 0
      /\ committed \subseteq committed' /\ skipped \subseteq skipped'
      /\ reversals \subseteq reversals'
<1>1. ASSUME NEW d \in Deliveries, Delivery(d) \/ DeliveryFails(d) PROVE P
  <2> USE <1>1 DEF TypeInv, TypeOK, StripeTypes, RowTypes, EventTypes
  <2>1. \A t \in TransferIds : transfers[t] # 0 => transfers'[t] = transfers[t]
    BY DEF Delivery, StartDelivery, SetPaid, ReadPayout, Transfer, TransferFails, NextTransfer,
         RecordTransfer, RecordFailure, CommitDiscounts, CommitDiscount, CommitRefused,
         ClaimPublish, PublishPaid,
         PublishPayoutCompleted, MarkPublished, DeliveryFails
  <2>2. \A o \in Orders : published[o] => published'[o]
    BY DEF Delivery, StartDelivery, SetPaid, ReadPayout, Transfer, TransferFails,
         RecordTransfer, RecordFailure, CommitDiscounts, CommitDiscount, CommitRefused,
         ClaimPublish, PublishPaid,
         PublishPayoutCompleted, MarkPublished, DeliveryFails
  <2>3. \A o \in Orders : paidEvents[o] > 0 => paidEvents'[o] > 0
    <3>1. CASE PublishPaid(d)
      BY <3>1 DEF PublishPaid, HandlerTypes
    <3>2. CASE ~PublishPaid(d)
      <4>1. UNCHANGED paidEvents
        BY <3>2 DEF Delivery, StartDelivery, SetPaid, ReadPayout, Transfer, TransferFails,
           RecordTransfer, RecordFailure, CommitDiscounts, CommitDiscount, CommitRefused,
           ClaimPublish,
           PublishPayoutCompleted, MarkPublished, DeliveryFails
      <4> QED
        BY <4>1
    <3> QED
      BY <3>1, <3>2
  <2>4. committed \subseteq committed' /\ skipped \subseteq skipped'
    BY DEF Delivery, StartDelivery, SetPaid, ReadPayout, Transfer, TransferFails, Skip,
         RecordTransfer, RecordFailure, CommitDiscounts, CommitDiscount, CommitRefused,
         ClaimPublish, PublishPaid,
         PublishPayoutCompleted, MarkPublished, DeliveryFails
  <2> QED
    BY <1>1, <2>1, <2>2, <2>3, <2>4, DeliveryFrame
<1>2. ASSUME NEW c \in Callers, Caller(c) \/ CallerFails(c) PROVE P
  <2>1. reversals \subseteq reversals'
    BY <1>2 DEF Caller, RequestCancellation, AdminForceCancel, OpenByOrder, InsertRequest,
       AdminLatest, AdminCreate, AdminReload, ApproveCancellation, ListPayouts,
       CreateRefund, RefundFails, ReverseTransfer, ReversalFails, ApproveTx, MarkFailed,
       PublishCancelled, CallerFails
  <2> QED
    BY <1>2, <2>1, CallerFrame
<1>3. ASSUME Environment \/ UNCHANGED vars PROVE P
  BY <1>3, EnvironmentFrame
<1> QED
  BY <1>1, <1>2, <1>3 DEF Next, Environment

-------------------------------------------------------------------------------
(***************************************************************************)
(* Two action properties.                                                  *)
(***************************************************************************)

\* The webhook never resurrects an order: of all the statements that write a
\* status only SetPaid writes "paid", and it is guarded.
THEOREM WebhookNeverResurrects == Spec => PaidOnlyFromPending
<1>1. TypeInv /\ [Next]_vars =>
        [\A o \in Orders : status'[o] = "paid" => status[o] \in {"pending", "paid"}]_vars
  <2> SUFFICES ASSUME TypeInv, [Next]_vars, NEW o \in Orders, status'[o] = "paid"
               PROVE  status[o] \in {"pending", "paid"}
    OBVIOUS
  <2> USE DEF TypeInv, TypeOK, RowTypes
  <2>1. ASSUME NEW d \in Deliveries, Delivery(d) \/ DeliveryFails(d)
        PROVE  status[o] \in {"pending", "paid"}
    <3>1. CASE SetPaid(d)
      BY <3>1 DEF SetPaid, PaidFrom
    <3>2. CASE ~SetPaid(d)
      BY <2>1, <3>2 DEF Delivery, StartDelivery, ReadPayout, Transfer, TransferFails,
           RecordTransfer, RecordFailure, CommitDiscounts, CommitDiscount, CommitRefused,
           ClaimPublish, PublishPaid,
           PublishPayoutCompleted, MarkPublished, DeliveryFails
    <3> QED
      BY <3>1, <3>2
  <2>2. ASSUME NEW c \in Callers, Caller(c) \/ CallerFails(c)
        PROVE  status[o] \in {"pending", "paid"}
    <3>1. CASE ApproveTx(c)
      BY <3>1 DEF ApproveTx
    <3>2. CASE ~ApproveTx(c)
      BY <2>2, <3>2 DEF Caller, RequestCancellation, AdminForceCancel, OpenByOrder, InsertRequest,
           AdminLatest, AdminCreate, AdminReload, ApproveCancellation, ListPayouts,
           CreateRefund, RefundFails, ReverseTransfer, ReversalFails, MarkFailed,
           PublishCancelled, CallerFails
    <3> QED
      BY <3>1, <3>2
  <2>3. ASSUME Environment \/ UNCHANGED vars PROVE status[o] \in {"pending", "paid"}
    BY <2>3, FulfilmentAssumption DEF Environment, PaymentSucceeds, ClaimExpires, ReservationLapses,
       RejectCancellation, UpdateOrderStatus, HandleShipmentEvent, UpdateStatus, vars
  <2> QED
    BY <2>1, <2>2, <2>3 DEF Next, Environment
<1> QED
  BY <1>1, TypeInit, TypeStep, PTL DEF Spec, PaidOnlyFromPending

\* A step moves a request only out of "none" or "pending", and fixes its order.
LEMMA RequestHistory ==
  ASSUME TypeInv, [Next]_vars, NEW r \in Requests
  PROVE  /\ reqStatus[r] \in {"approved", "rejected", "failed"} => reqStatus'[r] = reqStatus[r]
         /\ reqStatus[r] # "none" => reqStatus'[r] # "none" /\ reqOrder'[r] = reqOrder[r]
<1> DEFINE P ==
      /\ reqStatus[r] \in {"approved", "rejected", "failed"} => reqStatus'[r] = reqStatus[r]
      /\ reqStatus[r] # "none" => reqStatus'[r] # "none" /\ reqOrder'[r] = reqOrder[r]
<1> USE DEF TypeInv, TypeOK, RowTypes
<1>1. ASSUME NEW d \in Deliveries, Delivery(d) \/ DeliveryFails(d) PROVE P
  BY <1>1, DeliveryFrame
<1>2. ASSUME NEW c \in Callers, Caller(c) \/ CallerFails(c) PROVE P
  <2>1. CASE InsertRequest(c)
    BY <2>1 DEF InsertRequest, CreateRequest
  <2>2. CASE AdminCreate(c)
    <3>1. (\E q \in Requests : CreateRequest(corder[c], q)) \/ UNCHANGED requestVars
      BY <2>2 DEF AdminCreate
    <3> QED
      BY <3>1 DEF CreateRequest
  <2>3. CASE ApproveTx(c)
    <3>1. reqOrder' = reqOrder
      BY <2>3 DEF ApproveTx
    <3>2. \/ reqStatus[creq[c]] = "pending" /\ reqStatus' = [reqStatus EXCEPT ![creq[c]] = "approved"]
          \/ UNCHANGED reqStatus
      BY <2>3 DEF ApproveTx
    <3> QED
      BY <3>1, <3>2
  <2>4. CASE MarkFailed(c)
    BY <2>4 DEF MarkFailed, FailedFrom
  <2>5. CASE ~(InsertRequest(c) \/ AdminCreate(c) \/ ApproveTx(c) \/ MarkFailed(c))
    BY <1>2, <2>5 DEF Caller, RequestCancellation, AdminForceCancel, OpenByOrder,
         AdminLatest, AdminReload, ApproveCancellation, ListPayouts,
         CreateRefund, RefundFails, ReverseTransfer, ReversalFails,
         PublishCancelled, CallerFails
  <2> QED
    BY <2>1, <2>2, <2>3, <2>4, <2>5
<1>3. ASSUME Environment \/ UNCHANGED vars PROVE P
  BY <1>3 DEF Environment, PaymentSucceeds, ClaimExpires, ReservationLapses, RejectCancellation,
     UpdateOrderStatus, HandleShipmentEvent, UpdateStatus, vars
<1> QED
  BY <1>1, <1>2, <1>3 DEF Next, Environment

\* Of approval, rejection and failure, which race on one row, the first wins.
THEOREM FirstVerdictWins == Spec => VerdictIsFinal
<1>1. TypeInv /\ [Next]_vars =>
        [\A r \in Requests :
           reqStatus[r] \in {"approved", "rejected", "failed"} => reqStatus'[r] = reqStatus[r]]_vars
  BY RequestHistory
<1> QED
  BY <1>1, TypeInit, TypeStep, PTL DEF Spec, VerdictIsFinal

-------------------------------------------------------------------------------
(***************************************************************************)
(* A completed payout names a real transfer.                               *)
(***************************************************************************)

\* What RecordTransfer is about to write is a transfer made for its order.
BackedInv ==
  /\ PayoutCompletedIsBacked
  /\ \A d \in Deliveries : pc[d] = "record" =>
       transferOf[d] \in TransferIds /\ transfers[transferOf[d]] = at[d]

\* Only Transfer enters "record" and only RecordTransfer completes a payout.
LEMMA BackedDelivery ==
  ASSUME TypeInv, BackedInv, [Next]_vars,
         NEW d \in Deliveries, Delivery(d) \/ DeliveryFails(d)
  PROVE  BackedInv'
<1> USE DEF TypeInv, TypeOK
<1>1. \A t \in TransferIds, o \in Orders : transfers[t] = o => transfers'[t] = o
  BY HistoryGrows
<1>2. ASSUME NEW o \in Orders, payout'[o] = "completed"
      PROVE  payoutTransfer'[o] # 0 /\ transfers'[payoutTransfer'[o]] = o
  <2>1. CASE RecordTransfer(d) /\ o = at[d]
    BY <1>1, <1>2, <2>1 DEF RecordTransfer, BackedInv, RowTypes, HandlerTypes
  <2>2. CASE ~(RecordTransfer(d) /\ o = at[d])
    <3>1. payout[o] = "completed" /\ payoutTransfer'[o] = payoutTransfer[o]
      BY <1>2, <2>2 DEF RowTypes, HandlerTypes, Delivery, StartDelivery, SetPaid, ReadPayout,
         Transfer, TransferFails, RecordTransfer, RecordFailure, CommitDiscounts,
         CommitDiscount, CommitRefused, ClaimPublish,
         PublishPaid, PublishPayoutCompleted, MarkPublished, DeliveryFails
    <3>2. payoutTransfer[o] # 0 /\ transfers[payoutTransfer[o]] = o
      BY <3>1 DEF BackedInv, PayoutCompletedIsBacked
    <3> QED
      BY <1>1, <3>1, <3>2 DEF RowTypes
  <2> QED
    BY <2>1, <2>2
<1>3. ASSUME NEW e \in Deliveries, pc'[e] = "record"
      PROVE  transferOf'[e] \in TransferIds /\ transfers'[transferOf'[e]] = at'[e]
  <2>1. CASE e = d
    <3>1. Transfer(d)
      BY <1>3, <2>1 DEF HandlerTypes, Delivery, StartDelivery, SetPaid, ReadPayout,
         TransferFails, RecordTransfer, RecordFailure, CommitDiscounts, CommitDiscount,
         CommitRefused, AfterCommit, ClaimPublish, ClaimHeld,
         PublishPaid, PublishPayoutCompleted, MarkPublished, DeliveryFails, Skip, Continue
    <3> QED
      BY <2>1, <3>1 DEF Transfer, HandlerTypes, StripeTypes
  <2>2. CASE e # d
    <3>1. /\ pc[e] = "record" /\ at'[e] = at[e] /\ transferOf'[e] = transferOf[e]
      BY <1>3, <2>2, DeliveryLocal
    <3> QED
      BY <1>1, <3>1 DEF BackedInv, HandlerTypes
  <2> QED
    BY <2>1, <2>2
<1> QED
  BY <1>2, <1>3 DEF BackedInv, PayoutCompletedIsBacked

LEMMA BackedStep == TypeInv /\ BackedInv /\ [Next]_vars => BackedInv'
<1> SUFFICES ASSUME TypeInv, BackedInv, [Next]_vars PROVE BackedInv'
  OBVIOUS
<1>1. ASSUME NEW d \in Deliveries, Delivery(d) \/ DeliveryFails(d) PROVE BackedInv'
  BY <1>1, BackedDelivery
<1>2. ASSUME NEW c \in Callers, Caller(c) \/ CallerFails(c) PROVE BackedInv'
  <2>1. UNCHANGED <<payoutTransfer, transfers, pc, at, transferOf>>
    BY <1>2, CallerFrame
  <2>2. \A o \in Orders : payout'[o] = "completed" => payout[o] = "completed"
    <3>1. CASE ApproveTx(c)
      BY <3>1 DEF ApproveTx, TypeInv, TypeOK, RowTypes, CallerTypes
    <3>2. CASE ~ApproveTx(c)
      BY <1>2, <3>2 DEF Caller, RequestCancellation, AdminForceCancel, OpenByOrder,
         InsertRequest, AdminLatest, AdminCreate, AdminReload, ApproveCancellation, ListPayouts,
         CreateRefund, RefundFails, ReverseTransfer, ReversalFails, MarkFailed,
         PublishCancelled, CallerFails
    <3> QED
      BY <3>1, <3>2
  <2> QED
    BY <2>1, <2>2 DEF BackedInv, PayoutCompletedIsBacked
<1>3. ASSUME Environment \/ UNCHANGED vars PROVE BackedInv'
  BY <1>3, EnvironmentFrame DEF BackedInv, PayoutCompletedIsBacked
<1> QED
  BY <1>1, <1>2, <1>3 DEF Next, Environment

\* A payout is completed only with the id of a transfer Stripe made for that
\* order: a handler cannot record another order's transfer, nor an error's.
THEOREM PayoutsAreBacked == Spec => []PayoutCompletedIsBacked
<1>1. Init => BackedInv
  BY DEF Init, BackedInv, PayoutCompletedIsBacked
<1>2. BackedInv => PayoutCompletedIsBacked
  BY DEF BackedInv
<1> QED
  BY <1>1, <1>2, BackedStep, TypeInit, TypeStep, PTL DEF Spec

-------------------------------------------------------------------------------
(***************************************************************************)
(* order.paid follows the settlement.                                      *)
(***************************************************************************)

HasTransfer(o)  == \E t \in TransferIds : transfers[t] = o
HasDiscounts(o) == \A k \in Discounts : <<k, o>> \in committed

\* From the discounts on, order.paid is being published or has been.
Announcing == {"claim", "publishPaid", "publishPayout", "mark"}

\* A handler past SetPaid works on an order that is not pending; past the
\* payout, on one whose transfer exists; past the commit, on one whose
\* discounts are in.
SettledInv ==
  /\ PaidEventNeedsSettlement
  /\ \A d \in Deliveries :
       /\ pc[d] \notin {"idle", "setPaid"} => status[at[d]] # "pending"
       /\ pc[d] \in {"record", "coupon", "points"} \cup Announcing => HasTransfer(at[d])
       /\ pc[d] \in {"points"} \cup Announcing => <<"coupon", at[d]>> \in committed
       /\ pc[d] \in Announcing => HasDiscounts(at[d])

\* What the invariant says of handler d, and what a step keeps of it while d
\* stays where it is.
SettledAt(d) ==
  /\ pc[d] \notin {"idle", "setPaid"} => status[at[d]] # "pending"
  /\ pc[d] \in {"record", "coupon", "points"} \cup Announcing => HasTransfer(at[d])
  /\ pc[d] \in {"points"} \cup Announcing => <<"coupon", at[d]>> \in committed
  /\ pc[d] \in Announcing => HasDiscounts(at[d])

LEMMA SettlementGrows ==
  ASSUME TypeInv, [Next]_vars, NEW o \in Orders
  PROVE  /\ status[o] # "pending" => status'[o] # "pending"
         /\ HasTransfer(o) => HasTransfer(o)'
         /\ <<"coupon", o>> \in committed => <<"coupon", o>> \in committed'
         /\ HasDiscounts(o) => HasDiscounts(o)'
<1>1. HasTransfer(o) => HasTransfer(o)'
  BY HistoryGrows DEF HasTransfer
<1> QED
  BY <1>1, HistoryGrows, StatusLeavesPending DEF HasDiscounts

LEMMA SettledElsewhere ==
  ASSUME TypeInv, [Next]_vars, NEW d \in Deliveries, SettledAt(d),
         pc'[d] = pc[d], at'[d] = at[d]
  PROVE  SettledAt(d)'
<1>1. at[d] \in Orders
  BY DEF TypeInv, TypeOK, HandlerTypes
<1> QED
  BY <1>1, SettlementGrows DEF SettledAt

\* The step of a handler: each label is entered from where its facts are known.
LEMMA SettledHere ==
  ASSUME TypeInv, BackedInv, SettledInv, [Next]_vars,
         NEW d \in Deliveries, Delivery(d) \/ DeliveryFails(d)
  PROVE  SettledAt(d)'
<1> USE DEF TypeInv, TypeOK, HandlerTypes
<1> PICK o \in Orders : o = at[d]
  OBVIOUS
<1>1. SettledAt(d)
  BY DEF SettledInv, SettledAt
<1>2. /\ status[o] # "pending" => status'[o] # "pending"
      /\ HasTransfer(o) => HasTransfer(o)'
      /\ <<"coupon", o>> \in committed => <<"coupon", o>> \in committed'
      /\ HasDiscounts(o) => HasDiscounts(o)'
  BY <1>1, SettlementGrows
<1>3. CASE pc'[d] \in {"idle", "setPaid"}
  BY <1>3 DEF SettledAt, Announcing
<1>4. CASE SetPaid(d) /\ pc'[d] \notin {"idle", "setPaid"}
  <2>1. pc'[d] = "payout" /\ at' = at /\ status' = [status EXCEPT ![o] = PaidFrom(@)]
    BY <1>4 DEF SetPaid, Skip, Continue
  <2>2. status'[o] # "pending"
    BY <1>1, <2>1 DEF PaidFrom, RowTypes
  <2> QED
    BY <2>1, <2>2 DEF SettledAt, Announcing
<1>5. CASE ReadPayout(d) /\ pc'[d] \notin {"idle", "setPaid"}
  <2>1. ~Continue(d)
    BY <1>5 DEF Continue
  <2>2. /\ at' = at /\ pc[d] = "payout"
        /\ pc'[d] = "transfer" \/ (pc'[d] = "coupon" /\ payout[o] = "completed")
    BY <1>5, <2>1 DEF ReadPayout, Skip
  <2>3. payout[o] = "completed" => HasTransfer(o)
    BY DEF BackedInv, PayoutCompletedIsBacked, RowTypes, HasTransfer
  <2> QED
    BY <1>1, <1>2, <2>2, <2>3 DEF SettledAt, Announcing
<1>6. CASE Transfer(d)
  <2>1. at' = at /\ pc[d] = "transfer" /\ pc'[d] = "record"
    BY <1>6 DEF Transfer
  <2>2. HasTransfer(o)'
    BY <1>6, <2>1 DEF Transfer, HasTransfer, StripeTypes
  <2> QED
    BY <1>1, <1>2, <2>1, <2>2 DEF SettledAt, Announcing
<1>7. CASE TransferFails(d) \/ RecordTransfer(d)
  <2>1. /\ at' = at
        /\ \/ pc[d] = "transfer" /\ pc'[d] = "recordFailed"
           \/ pc[d] = "record" /\ pc'[d] = "coupon"
    BY <1>7 DEF TransferFails, RecordTransfer
  <2> QED
    BY <1>1, <1>2, <2>1 DEF SettledAt, Announcing
<1>8. CASE CommitDiscounts(d) /\ pc'[d] \notin {"idle", "setPaid"}
  <2>1. PICK k \in Discounts : CommitDiscount(d, k)
    BY <1>8 DEF CommitDiscounts, CommitRefused
  <2>2. at' = at /\ pc[d] = k /\ pc'[d] = AfterCommit(k) /\ <<k, o>> \in committed'
    BY <2>1 DEF CommitDiscount, AfterCommit
  <2>3. CASE k = "coupon"
    BY <1>1, <1>2, <2>2, <2>3 DEF SettledAt, Announcing, AfterCommit
  <2>4. CASE k = "points"
    <3>1. pc'[d] = "claim" /\ HasDiscounts(o)'
      BY <1>1, <1>2, <2>2, <2>4 DEF SettledAt, HasDiscounts, AfterCommit
    <3> QED
      BY <1>1, <1>2, <2>2, <2>4, <3>1 DEF SettledAt, Announcing
  <2> QED
    BY <2>3, <2>4
<1>9. CASE (ClaimPublish(d) \/ PublishPaid(d) \/ PublishPayoutCompleted(d))
           /\ pc'[d] \notin {"idle", "setPaid"}
  <2>1. at' = at /\ pc[d] \in Announcing /\ pc'[d] \in Announcing
    BY <1>9 DEF ClaimPublish, ClaimHeld, PublishPaid, PublishPayoutCompleted, Continue, Announcing
  <2> QED
    BY <1>1, <1>2, <2>1 DEF SettledAt, Announcing
<1>10. CASE StartDelivery(d) \/ RecordFailure(d) \/ MarkPublished(d) \/ DeliveryFails(d)
  <2>1. pc'[d] \in {"idle", "setPaid"}
    BY <1>10 DEF StartDelivery, RecordFailure, MarkPublished, DeliveryFails, Skip, Continue
  <2> QED
    BY <1>3, <2>1
<1> QED
  BY <1>3, <1>4, <1>5, <1>6, <1>7, <1>8, <1>9, <1>10 DEF Delivery

LEMMA SettledStep == TypeInv /\ BackedInv /\ SettledInv /\ [Next]_vars => SettledInv'
<1> SUFFICES ASSUME TypeInv, BackedInv, SettledInv, [Next]_vars PROVE SettledInv'
  OBVIOUS
<1>1. ASSUME NEW d \in Deliveries PROVE SettledAt(d)
  BY DEF SettledInv, SettledAt
<1>2. ASSUME NEW o \in Orders, paidEvents[o] > 0
      PROVE  (status[o] # "pending" /\ HasTransfer(o) /\ HasDiscounts(o))'
  <2>1. status[o] # "pending" /\ HasTransfer(o) /\ HasDiscounts(o)
    BY <1>2 DEF SettledInv, PaidEventNeedsSettlement, HasTransfer, HasDiscounts
  <2> QED
    BY <2>1, SettlementGrows
<1>3. ASSUME NEW d \in Deliveries, Delivery(d) \/ DeliveryFails(d) PROVE SettledInv'
  <2>1. ASSUME NEW e \in Deliveries PROVE SettledAt(e)'
    BY <1>1, <1>3, SettledHere, SettledElsewhere, DeliveryLocal
  <2>2. ASSUME NEW o \in Orders, paidEvents'[o] > 0, ~(paidEvents[o] > 0)
        PROVE  (status[o] # "pending" /\ HasTransfer(o) /\ HasDiscounts(o))'
    <3>1. PublishPaid(d) /\ o = at[d]
      <4>1. CASE PublishPaid(d)
        BY <2>2, <4>1 DEF PublishPaid, TypeInv, TypeOK, EventTypes, HandlerTypes
      <4>2. CASE ~PublishPaid(d)
        <5>1. UNCHANGED paidEvents
          BY <1>3, <4>2 DEF Delivery, StartDelivery, SetPaid, ReadPayout, Transfer, TransferFails,
             RecordTransfer, RecordFailure, CommitDiscounts, CommitDiscount, CommitRefused,
             ClaimPublish,
             PublishPayoutCompleted, MarkPublished, DeliveryFails
        <5> QED
          BY <2>2, <5>1
      <4> QED
        BY <4>1, <4>2
    <3>2. status[o] # "pending" /\ HasTransfer(o) /\ HasDiscounts(o)
      BY <1>1, <3>1 DEF PublishPaid, SettledAt, Announcing
    <3> QED
      BY <3>2, SettlementGrows
  <2> QED
    BY <1>2, <2>1, <2>2 DEF SettledInv, SettledAt, PaidEventNeedsSettlement, HasTransfer, HasDiscounts
<1>4. ASSUME UNCHANGED <<paidEvents, pc, at>> PROVE SettledInv'
  <2>1. ASSUME NEW e \in Deliveries PROVE SettledAt(e)'
    BY <1>1, <1>4, SettledElsewhere
  <2> QED
    BY <1>2, <1>4, <2>1 DEF SettledInv, SettledAt, PaidEventNeedsSettlement, HasTransfer, HasDiscounts
<1>5. ASSUME NEW c \in Callers, Caller(c) \/ CallerFails(c) PROVE SettledInv'
  BY <1>4, <1>5, CallerFrame
<1>6. ASSUME Environment \/ UNCHANGED vars PROVE SettledInv'
  BY <1>4, <1>6, EnvironmentFrame
<1> QED
  BY <1>3, <1>5, <1>6 DEF Next, Environment

\* order.paid is published only for an order that has left "pending", was paid
\* out to its seller and has its discounts committed, whatever was redelivered.
THEOREM PaidFollowsSettlement == Spec => []PaidEventNeedsSettlement
<1>1. Init => BackedInv /\ SettledInv
  <2>1. Init => BackedInv
    BY DEF Init, BackedInv, PayoutCompletedIsBacked
  <2>2. Init => PaidEventNeedsSettlement
    BY DEF Init, PaidEventNeedsSettlement
  <2> QED
    BY <2>1, <2>2 DEF Init, SettledInv, Announcing
<1>2. SettledInv => PaidEventNeedsSettlement
  BY DEF SettledInv
<1> QED
  BY <1>1, <1>2, BackedStep, SettledStep, TypeInit, TypeStep, PTL DEF Spec

-------------------------------------------------------------------------------
(***************************************************************************)
(* No event is lost behind a 200.                                          *)
(***************************************************************************)

\* order.paid is out for o, or a handler gave o up on purpose.
Handled(o) == paidEvents[o] > 0 \/ o \in skipped

\* A running handler has left only handled orders behind it, what it has read
\* as published is published, and it marks only what it has announced.
HandledAt(d) ==
  /\ pc[d] # "idle" => \A o \in seenPublished[d] : published[o]
  /\ pc[d] # "idle" => \A o \in Orders : o < at[d] => Handled(o)
  /\ pc[d] \in {"publishPayout", "mark"} => paidEvents[at[d]] > 0

HandledInv ==
  /\ acked => \A o \in Orders : Handled(o)
  /\ \A o \in Orders : published[o] => paidEvents[o] > 0
  /\ \A d \in Deliveries : HandledAt(d)

LEMMA HandledGrows ==
  ASSUME TypeInv, [Next]_vars, NEW o \in Orders, Handled(o)
  PROVE  Handled(o)'
  BY HistoryGrows DEF Handled

LEMMA HandledElsewhere ==
  ASSUME TypeInv, [Next]_vars, NEW d \in Deliveries, HandledAt(d),
         pc'[d] = pc[d], at'[d] = at[d], seenPublished'[d] = seenPublished[d]
  PROVE  HandledAt(d)'
<1> USE DEF TypeInv, TypeOK, HandlerTypes
<1>1. pc'[d] # "idle" => \A o \in seenPublished'[d] : published'[o]
  BY HistoryGrows DEF HandledAt
<1>2. pc'[d] # "idle" => \A o \in Orders : o < at'[d] => Handled(o)'
  BY HandledGrows DEF HandledAt
<1>3. pc'[d] \in {"publishPayout", "mark"} => paidEvents'[at'[d]] > 0
  BY HistoryGrows DEF HandledAt
<1> QED
  BY <1>1, <1>2, <1>3 DEF HandledAt

\* `continue` is sound once the current order is handled: the 200 that may end
\* the loop vouches for all of them.
LEMMA HandledContinue ==
  ASSUME TypeInv, HandledInv, [Next]_vars, NEW d \in Deliveries, pc[d] # "idle",
         Continue(d), UNCHANGED seenPublished,
         NEW o \in Orders, o = at[d], Handled(o)'
  PROVE  HandledAt(d)' /\ (acked' => \A p \in Orders : Handled(p)')
<1> USE DEF TypeInv, TypeOK, HandlerTypes
<1>1. \A p \in Orders : p < o => Handled(p)'
  BY HandledGrows DEF HandledInv, HandledAt
<1>2. \A p \in seenPublished'[d] : published'[p]
  BY HistoryGrows DEF HandledInv, HandledAt
<1>3. CASE o = NumOrders
  <2>1. \A p \in Orders : Handled(p)'
    BY <1>1, <1>3, NumOrdersAssumption
  <2>2. pc'[d] = "idle"
    BY <1>3 DEF Continue
  <2> QED
    BY <2>1, <2>2 DEF HandledAt
<1>4. CASE o # NumOrders
  <2>1. pc'[d] = "setPaid" /\ at'[d] = o + 1 /\ acked' = acked
    BY <1>4 DEF Continue
  <2>2. \A p \in Orders : p < at'[d] => Handled(p)'
    BY <1>1, <2>1, NumOrdersAssumption
  <2>3. acked' => \A p \in Orders : Handled(p)'
    BY <2>1, HandledGrows DEF HandledInv
  <2> QED
    BY <1>2, <2>1, <2>2, <2>3 DEF HandledAt
<1> QED
  BY <1>3, <1>4

LEMMA HandledHere ==
  ASSUME TypeInv, HandledInv, [Next]_vars,
         NEW d \in Deliveries, Delivery(d) \/ DeliveryFails(d)
  PROVE  HandledAt(d)' /\ (acked' => \A o \in Orders : Handled(o)')
<1> USE DEF TypeInv, TypeOK, HandlerTypes
<1> DEFINE Acked == acked' => \A o \in Orders : Handled(o)'
<1> PICK o \in Orders : o = at[d]
  OBVIOUS
<1>1. HandledAt(d)
  BY DEF HandledInv
<1>2. UNCHANGED acked => Acked
  BY HandledGrows DEF HandledInv
<1>3. CASE StartDelivery(d)
  <2>1. /\ pc'[d] = "setPaid" /\ at'[d] = 1 /\ UNCHANGED <<acked, published>>
        /\ seenPublished'[d] = {p \in Orders : published[p]}
    BY <1>3 DEF StartDelivery
  <2>2. \A p \in Orders : ~(p < at'[d])
    BY <2>1, NumOrdersAssumption
  <2> QED
    BY <1>2, <2>1, <2>2 DEF HandledAt
<1>4. CASE Skip(d) /\ ~StartDelivery(d)
  <2>1. pc[d] # "idle" /\ UNCHANGED seenPublished
    BY <1>3, <1>4 DEF Delivery, SetPaid, ReadPayout, RecordFailure, Transfer, TransferFails,
       RecordTransfer, CommitDiscounts, CommitDiscount, CommitRefused, ClaimPublish,
       PublishPaid, PublishPayoutCompleted,
       MarkPublished, DeliveryFails, StartDelivery
  <2>2. Handled(o)'
    BY <1>4 DEF Skip, Handled
  <2> QED
    BY <1>4, <2>1, <2>2, HandledContinue DEF Skip
<1>5. CASE ClaimPublish(d) /\ (o \in seenPublished[d] \/ published[o])
           /\ Continue(d)
  <2>1. pc[d] = "claim" /\ UNCHANGED seenPublished /\ Continue(d)
    BY <1>5 DEF ClaimPublish, ClaimFree
  <2>2. paidEvents[o] > 0
    BY <1>1, <1>5, <2>1 DEF HandledInv, HandledAt
  <2>3. Handled(o)'
    BY <2>2, HistoryGrows DEF Handled
  <2> QED
    BY <2>1, <2>3, HandledContinue
<1>6. CASE MarkPublished(d)
  <2>1. pc[d] = "mark" /\ UNCHANGED seenPublished /\ Continue(d)
    BY <1>6 DEF MarkPublished
  <2>2. Handled(o)'
    BY <1>1, <2>1, HistoryGrows DEF Handled, HandledAt
  <2> QED
    BY <2>1, <2>2, HandledContinue
<1>7. CASE DeliveryFails(d)
  <2>1. pc'[d] = "idle" /\ UNCHANGED acked
    BY <1>7 DEF DeliveryFails
  <2> QED
    BY <1>2, <2>1 DEF HandledAt
<1>8. CASE PublishPaid(d)
  <2>1. /\ pc[d] = "publishPaid" /\ pc'[d] = "publishPayout"
        /\ UNCHANGED <<at, acked, seenPublished, published>>
    BY <1>8 DEF PublishPaid
  <2>2. paidEvents'[o] > 0
    BY <1>8 DEF PublishPaid, EventTypes
  <2>3. \A p \in Orders : p < at'[d] => Handled(p)'
    BY <1>1, <2>1, HandledGrows DEF HandledAt
  <2> QED
    BY <1>1, <1>2, <2>1, <2>2, <2>3 DEF HandledAt
<1>9. CASE \E l \in DeliveryPC \ {"publishPayout"} : Goto(d, l) /\ (l = "mark" => pc[d] = "publishPayout")
           /\ pc[d] # "idle" /\ UNCHANGED seenPublished
  <2>1. /\ UNCHANGED <<at, acked, seenPublished>> /\ pc[d] # "idle"
        /\ pc'[d] # "publishPayout" /\ (pc'[d] = "mark" => pc[d] = "publishPayout")
    BY <1>9
  <2>2. \A p \in seenPublished'[d] : published'[p]
    BY <1>1, <2>1, HistoryGrows DEF HandledAt
  <2>3. \A p \in Orders : p < at'[d] => Handled(p)'
    BY <1>1, <2>1, HandledGrows DEF HandledAt
  <2>4. pc'[d] = "mark" => paidEvents'[o] > 0
    BY <1>1, <2>1, HistoryGrows DEF HandledAt
  <2> QED
    BY <1>2, <2>1, <2>2, <2>3, <2>4 DEF HandledAt
<1>10. CASE ClaimPublish(d) /\ (ClaimHeld(d) \/ Goto(d, "publishPaid"))
  BY <1>9, <1>10 DEF ClaimPublish, ClaimHeld
<1>11. CASE /\ ~Skip(d) /\ ~StartDelivery(d) /\ ~DeliveryFails(d)
            /\ ~ClaimPublish(d) /\ ~PublishPaid(d) /\ ~MarkPublished(d)
  BY <1>9, <1>11 DEF Delivery, SetPaid, ReadPayout, RecordFailure, Transfer, TransferFails,
     RecordTransfer, CommitDiscounts, CommitDiscount, CommitRefused, AfterCommit,
     PublishPayoutCompleted
<1> QED
  BY <1>3, <1>4, <1>5, <1>6, <1>7, <1>8, <1>10, <1>11 DEF ClaimPublish

LEMMA HandledStep == TypeInv /\ HandledInv /\ [Next]_vars => HandledInv'
<1> SUFFICES ASSUME TypeInv, HandledInv, [Next]_vars PROVE HandledInv'
  OBVIOUS
<1>1. ASSUME NEW d \in Deliveries, Delivery(d) \/ DeliveryFails(d) PROVE HandledInv'
  <2>1. \A e \in Deliveries : HandledAt(e)'
    BY <1>1, HandledHere, HandledElsewhere, DeliveryLocal DEF HandledInv
  <2>2. ASSUME NEW o \in Orders, published'[o] PROVE paidEvents'[o] > 0
    <3>1. CASE published[o]
      BY <3>1, HistoryGrows DEF HandledInv
    <3>2. CASE ~published[o]
      <4>1. MarkPublished(d) /\ o = at[d]
        BY <1>1, <2>2, <3>2 DEF Delivery, StartDelivery, SetPaid, ReadPayout, Transfer,
           TransferFails, RecordTransfer, RecordFailure, CommitDiscounts, CommitDiscount,
           CommitRefused, ClaimPublish,
           PublishPaid, PublishPayoutCompleted, MarkPublished, DeliveryFails,
           TypeInv, TypeOK, RowTypes, HandlerTypes
      <4> QED
        BY <4>1, HistoryGrows DEF MarkPublished, HandledInv, HandledAt
    <3> QED
      BY <3>1, <3>2
  <2> QED
    BY <1>1, <2>1, <2>2, HandledHere DEF HandledInv
<1>2. ASSUME UNCHANGED <<acked, published, paidEvents, skipped, pc, at, seenPublished>>
      PROVE  HandledInv'
  BY <1>2 DEF HandledInv, HandledAt, Handled
<1>3. ASSUME NEW c \in Callers, Caller(c) \/ CallerFails(c) PROVE HandledInv'
  BY <1>2, <1>3, CallerFrame
<1>4. ASSUME Environment \/ UNCHANGED vars PROVE HandledInv'
  BY <1>2, <1>4, EnvironmentFrame
<1> QED
  BY <1>1, <1>3, <1>4 DEF Next, Environment

\* Once Stripe has its 200 and stops redelivering, order.paid is out for every
\* order that no handler gave up on purpose: crashes, lost claims and stale
\* reads of `published` only delay it.
THEOREM AckLosesNoEvent == Spec => []AckedIsHandled
<1>1. Init => HandledInv
  BY DEF Init, HandledInv, HandledAt
<1>2. HandledInv => AckedIsHandled
  BY DEF HandledInv, Handled, AckedIsHandled
<1> QED
  BY <1>1, <1>2, HandledStep, TypeInit, TypeStep, PTL DEF Spec

-------------------------------------------------------------------------------
(***************************************************************************)
(* A reversed payout has its transfer reversed at Stripe.                  *)
(***************************************************************************)

\* From ListPayouts on a call works on one request of one order; the transfer
\* it is to reverse was made for that order, and is reversed before ApproveTx.
ReversingAt(c) ==
  /\ cpc[c] \in {"payouts", "refund", "reverse", "approve", "markFailed", "publish"} =>
       reqStatus[creq[c]] # "none" /\ reqOrder[creq[c]] = corder[c]
  /\ cpc[c] \in {"refund", "reverse", "approve"} /\ cpayout[c] # 0 =>
       transfers[cpayout[c]] = corder[c]
  /\ cpc[c] = "approve" /\ cpayout[c] # 0 => <<creq[c], cpayout[c]>> \in reversals

ReversedInv == ReversedPayoutIsReversed /\ \A c \in Callers : ReversingAt(c)

LEMMA ReversingElsewhere ==
  ASSUME TypeInv, [Next]_vars, NEW c \in Callers, ReversingAt(c),
         cpc'[c] = cpc[c], creq'[c] = creq[c], corder'[c] = corder[c], cpayout'[c] = cpayout[c]
  PROVE  ReversingAt(c)'
<1> USE DEF TypeInv, TypeOK, CallerTypes, CallerOK
<1>1. cpc'[c] \in {"payouts", "refund", "reverse", "approve", "markFailed", "publish"} =>
        reqStatus'[creq'[c]] # "none" /\ reqOrder'[creq'[c]] = corder'[c]
  BY RequestHistory DEF ReversingAt
<1>2. cpc'[c] \in {"refund", "reverse", "approve"} /\ cpayout'[c] # 0 =>
        transfers'[cpayout'[c]] = corder'[c]
  BY HistoryGrows DEF ReversingAt
<1>3. cpc'[c] = "approve" /\ cpayout'[c] # 0 => <<creq'[c], cpayout'[c]>> \in reversals'
  BY HistoryGrows DEF ReversingAt
<1> QED
  BY <1>1, <1>2, <1>3 DEF ReversingAt

\* The step of a caller: a request in hand exists before "payouts" is entered,
\* ListPayouts reads a backed payout, and "approve" is entered past the reversal.
LEMMA ReversingHere ==
  ASSUME TypeInv, BackedInv, ReversedInv, [Next]_vars,
         NEW c \in Callers, Caller(c) \/ CallerFails(c)
  PROVE  ReversingAt(c)'
<1> USE DEF TypeInv, TypeOK, CallerTypes, CallerOK
<1>1. ReversingAt(c) /\ UNCHANGED transfers
  BY CallerFrame DEF ReversedInv
<1>2. CASE cpc'[c] \in {"idle", "create", "adminLatest", "adminCreate", "adminReload"}
  BY <1>2 DEF ReversingAt
<1>3. ASSUME cpc'[c] = "payouts", NEW r \in Requests, creq'[c] = r,
             reqStatus'[r] # "none", reqOrder'[r] = corder'[c]
      PROVE  ReversingAt(c)'
  BY <1>3 DEF ReversingAt
<1>4. ASSUME NEW r \in Requests, ApproveCancellation(c, r) PROVE ReversingAt(c)'
  BY <1>3, <1>4 DEF ApproveCancellation
<1>5. CASE AdminLatest(c)
  <2>1. PICK r : \/ r \in Requests /\ LatestOf(corder[c], r) /\ creq' = [creq EXCEPT ![c] = r]
                   /\ cpc'[c] = "payouts"
                 \/ cpc'[c] = "adminCreate"
    BY <1>5 DEF AdminLatest
  <2>2. UNCHANGED <<requestVars, corder>>
    BY <1>5 DEF AdminLatest
  <2> QED
    BY <1>2, <1>3, <2>1, <2>2 DEF LatestOf
<1>6. CASE AdminCreate(c)
  <2>1. PICK r : \/ r \in Requests /\ CreateRequest(corder[c], r) /\ creq' = [creq EXCEPT ![c] = r]
                   /\ cpc'[c] = "payouts"
                 \/ cpc'[c] = "adminReload"
    BY <1>6 DEF AdminCreate
  <2>2. UNCHANGED corder
    BY <1>6 DEF AdminCreate
  <2> QED
    BY <1>2, <1>3, <2>1, <2>2 DEF CreateRequest, RowTypes
<1>7. CASE AdminReload(c)
  BY <1>3, <1>7 DEF AdminReload, LatestOf
<1>8. CASE ListPayouts(c)
  <2>1. cpc'[c] = "refund" /\ UNCHANGED <<requestVars, creq, corder>>
    BY <1>8 DEF ListPayouts
  <2>2. cpayout'[c] # 0 => transfers[cpayout'[c]] = corder[c]
    BY <1>8 DEF ListPayouts, BackedInv, PayoutCompletedIsBacked, RowTypes
  <2> QED
    BY <1>1, <1>8, <2>1, <2>2 DEF ReversingAt, ListPayouts
<1>9. CASE CreateRefund(c)
  BY <1>1, <1>9 DEF ReversingAt, CreateRefund, AfterRefund
<1>10. CASE ReverseTransfer(c)
  BY <1>1, <1>10 DEF ReversingAt, ReverseTransfer
<1>11. CASE RefundFails(c) \/ ReversalFails(c)
  BY <1>1, <1>11 DEF ReversingAt, RefundFails, ReversalFails
<1>12. CASE ApproveTx(c)
  <2>1. /\ cpc[c] = "approve" /\ cpc'[c] \in {"idle", "publish", "markFailed"}
        /\ UNCHANGED <<creq, corder>>
    BY <1>12 DEF ApproveTx
  <2>2. reqStatus'[creq[c]] # "none" /\ reqOrder'[creq[c]] = corder[c]
    BY <1>1, <2>1, RequestHistory DEF ReversingAt
  <2> QED
    BY <2>1, <2>2 DEF ReversingAt
<1>13. CASE InsertRequest(c) \/ MarkFailed(c) \/ PublishCancelled(c) \/ CallerFails(c)
  <2>1. cpc'[c] = "idle"
    BY <1>13 DEF InsertRequest, MarkFailed, PublishCancelled, CallerFails
  <2> QED
    BY <1>2, <2>1
<1>14. ASSUME NEW o \in Orders, RequestCancellation(c, o) \/ AdminForceCancel(c, o)
       PROVE  ReversingAt(c)'
  BY <1>2, <1>14 DEF RequestCancellation, AdminForceCancel, OpenByOrder
<1> QED
  BY <1>4, <1>5, <1>6, <1>7, <1>8, <1>9, <1>10, <1>11, <1>12, <1>13, <1>14 DEF Caller

LEMMA ReversedStep == TypeInv /\ BackedInv /\ ReversedInv /\ [Next]_vars => ReversedInv'
<1> SUFFICES ASSUME TypeInv, BackedInv, ReversedInv, [Next]_vars PROVE ReversedInv'
  OBVIOUS
<1> DEFINE Witnessed(o) == \E r \in Requests, t \in TransferIds :
                             /\ <<r, t>> \in reversals
                             /\ transfers[t] = o
                             /\ reqOrder[r] = o /\ reqStatus[r] = "approved"
<1>1. ASSUME NEW o \in Orders, payout[o] = "reversed" PROVE Witnessed(o)'
  <2>1. PICK r \in Requests, t \in TransferIds :
          <<r, t>> \in reversals /\ transfers[t] = o /\ reqOrder[r] = o /\ reqStatus[r] = "approved"
    BY <1>1 DEF ReversedInv, ReversedPayoutIsReversed
  <2>2. <<r, t>> \in reversals' /\ transfers'[t] = o
    BY <2>1, HistoryGrows
  <2>3. reqOrder'[r] = o /\ reqStatus'[r] = "approved"
    BY <2>1, RequestHistory
  <2> QED
    BY <2>2, <2>3
<1>2. ASSUME NEW c \in Callers, Caller(c) \/ CallerFails(c) PROVE ReversedInv'
  <2>1. \A b \in Callers : ReversingAt(b)'
    BY <1>2, ReversingHere, ReversingElsewhere, CallerLocal DEF ReversedInv
  <2>2. ASSUME NEW o \in Orders, payout'[o] = "reversed", payout[o] # "reversed"
        PROVE  Witnessed(o)'
    <3>1. ApproveTx(c)
      BY <1>2, <2>2 DEF Caller, RequestCancellation, AdminForceCancel, OpenByOrder, InsertRequest,
         AdminLatest, AdminCreate, AdminReload, ApproveCancellation, ListPayouts,
         CreateRefund, RefundFails, ReverseTransfer, ReversalFails, MarkFailed,
         PublishCancelled, CallerFails
    <3>2. /\ cpc[c] = "approve" /\ o = corder[c] /\ cpayout[c] # 0
          /\ reqStatus' = [reqStatus EXCEPT ![creq[c]] = "approved"]
          /\ UNCHANGED <<reqOrder, transfers, reversals>>
      BY <2>2, <3>1 DEF ApproveTx, TypeInv, TypeOK, RowTypes, CallerTypes
    <3>3. creq[c] \in Requests /\ cpayout[c] \in TransferIds
      BY <3>2 DEF TypeInv, TypeOK, CallerOK, CallerTypes
    <3>4. /\ <<creq[c], cpayout[c]>> \in reversals /\ transfers[cpayout[c]] = o
          /\ reqOrder[creq[c]] = o
      BY <3>2 DEF ReversedInv, ReversingAt
    <3>5. reqStatus'[creq[c]] = "approved"
      BY <3>2, <3>3 DEF TypeInv, TypeOK, RowTypes
    <3> QED
      BY <3>2, <3>3, <3>4, <3>5
  <2> QED
    BY <1>1, <2>1, <2>2 DEF ReversedInv, ReversedPayoutIsReversed
<1>3. ASSUME \A o \in Orders : payout'[o] = "reversed" => payout[o] = "reversed",
             UNCHANGED callerVars
      PROVE  ReversedInv'
  <2>1. \A c \in Callers : ReversingAt(c)'
    BY <1>3, ReversingElsewhere DEF ReversedInv
  <2> QED
    BY <1>1, <1>3, <2>1 DEF ReversedInv, ReversedPayoutIsReversed
<1>4. ASSUME NEW d \in Deliveries, Delivery(d) \/ DeliveryFails(d) PROVE ReversedInv'
  <2>1. \A o \in Orders : payout'[o] = "reversed" => payout[o] = "reversed"
    BY <1>4 DEF Delivery, StartDelivery, SetPaid, ReadPayout, Transfer, TransferFails,
       RecordTransfer, RecordFailure, CommitDiscounts, CommitDiscount, CommitRefused,
       ClaimPublish, PublishPaid,
       PublishPayoutCompleted, MarkPublished, DeliveryFails, TypeInv, TypeOK, RowTypes
  <2> QED
    BY <1>3, <1>4, <2>1, DeliveryFrame
<1>5. ASSUME Environment \/ UNCHANGED vars PROVE ReversedInv'
  BY <1>3, <1>5, EnvironmentFrame
<1> QED
  BY <1>2, <1>4, <1>5 DEF Next, Environment

\* A payout row says "reversed" only when Stripe reversed a transfer of that
\* very order for an approved request of that order, whichever calls raced.
THEOREM ReversalsAreReal == Spec => []ReversedPayoutIsReversed
<1>1. Init => BackedInv
  BY DEF Init, BackedInv, PayoutCompletedIsBacked
<1>2. Init => ReversedInv
  BY DEF Init, ReversedInv, ReversedPayoutIsReversed, ReversingAt
<1>3. ReversedInv => ReversedPayoutIsReversed
  BY DEF ReversedInv
<1> QED
  BY <1>1, <1>2, <1>3, BackedStep, ReversedStep, TypeInit, TypeStep, PTL DEF Spec
====
