---------------------------- MODULE CouponRedemption ----------------------------
(***************************************************************************)
(* coupon-svc: the seats of one coupon. A checkout reserves a seat for its *)
(* whole cart, the payment webhook commits the reservation once per seller *)
(* order of the cart, a failed checkout releases it, the reaper expires it,*)
(* and order.cancelled events give the discount back order by order.       *)
(*                                                                         *)
(* Reserve, refund and reaper are one transaction each. Commit and release *)
(* read the reservation before they write, so they are two steps: Postgres *)
(* runs them at READ COMMITTED and the row may change in between.          *)
(***************************************************************************)
EXTENDS DiscountMath, FiniteSets

CONSTANTS
  NumReservations,     \* reservations that can be made, in id order
  Buyers,
  CartSize,            \* seller orders of every cart
  Shares,              \* Shares[i]: the discount stamped on the cart's i-th order
  Discount,            \* discount_amount of a reservation
  Limits,              \* values usage_limit_total takes; 0 is NULL
  PerUserLimit,        \* usage_limit_per_user; 0 is NULL
  Workers,             \* commit and release calls that can run at once
  MaxFaults            \* acknowledgements of an event that can be lost

Reservations == 1..NumReservations
Positions    == 1..CartSize
Orders       == Reservations \X Positions

ASSUME CouponAssumption ==
  /\ NumReservations \in Nat \ {0} /\ CartSize \in Nat \ {0}
  /\ Discount \in Nat \ {0} /\ Shares \in [Positions -> Nat]
  /\ Limits \subseteq Nat /\ Limits # {} /\ PerUserLimit \in Nat
  /\ MaxFaults \in Nat

VARIABLES
  \* coupon_svc.coupons
  usage, limit, couponStatus,
  \* coupon_svc.coupon_reservations; lapsed: those past expires_at
  resStatus, resBuyer, lapsed,
  \* coupon_svc.coupon_redemptions (reservation, order position) with
  \* refunded_amount and refunded_at; coupon_svc.coupon_refund_events
  redemptions, refunded, fullyRefunded, refundEvents,
  \* order-svc: carts paid for, orders whose Commit call succeeded
  paid, settled,
  \* order.cancelled events published and acknowledged; early: those handled
  \* before the cart's redemption existed; whether they carry the coupon columns
  cancelled, acked, early, carried,
  \* calls in flight: what they are about to write, and for which order
  wpc, worder,
  \* has an administrator lowered the limit below the seats taken?
  lowered,
  faults

couponVars      == <<usage, limit, couponStatus>>
reservationVars == <<resStatus, resBuyer, lapsed>>
refundVars      == <<refunded, fullyRefunded, refundEvents>>
eventVars       == <<cancelled, acked, early, carried>>
workerVars      == <<wpc, worder>>
vars == <<couponVars, reservationVars, redemptions, refundVars, paid, settled,
          eventVars, workerVars, lowered, faults>>

Init ==
  /\ usage = 0
  /\ limit \in Limits
  /\ couponStatus = "active"
  /\ resStatus = [r \in Reservations |-> "none"]
  /\ resBuyer \in [Reservations -> Buyers]
  /\ lapsed = {}
  /\ redemptions = {}
  /\ refunded = [r \in Reservations |-> 0]
  /\ fullyRefunded = {}
  /\ refundEvents = {}
  /\ paid = {}
  /\ settled = {}
  /\ cancelled = {}
  /\ acked = {}
  /\ early = {}
  /\ carried \in BOOLEAN
  /\ wpc = [w \in Workers |-> "idle"]
  /\ worder = [w \in Workers |-> <<1, 1>>]
  /\ lowered = FALSE
  /\ faults = 0

-------------------------------------------------------------------------------
(***************************************************************************)
(* Seats. A limit of 0 is NULL: no limit.                                  *)
(***************************************************************************)

\* Mutant of SeatFree: off by one.
SeatFreeOffByOne == limit = 0 \/ usage <= limit

\* The WHERE clause of IncrementUsageIfBelowLimit.
SeatFree == limit = 0 \/ usage < limit

\* DecrementUsage, n times: GREATEST(0, usage_count - 1).
DecrementUsage(n) == usage' = IF usage > n THEN usage - n ELSE 0

\* CountByBuyerAndCoupon counts redemptions, not reservations.
RedeemedBy(b) == {x \in redemptions : resBuyer[x[1]] = b}

\* The gate of resolveCoupon, as far as it changes over time. Currency, validity
\* window and minimum order amount are met by the carts that get here.
Usable(b) ==
  /\ couponStatus = "active"
  /\ PerUserLimit = 0 \/ Cardinality(RedeemedBy(b)) < PerUserLimit

\* ReserveCoupon: the coupon row is locked for the whole transaction.
ReserveCoupon(r) ==
  /\ resStatus[r] = "none" /\ \A q \in 1..(r - 1) : resStatus[q] # "none"
  /\ Usable(resBuyer[r])
  /\ SeatFree
  /\ usage' = usage + 1
  /\ resStatus' = [resStatus EXCEPT ![r] = "pending"]
  /\ UNCHANGED <<limit, couponStatus, resBuyer, lapsed, redemptions, refundVars, paid,
                 settled, eventVars, workerVars, lowered, faults>>

\* expires_at passes.
ReservationLapses(r) ==
  /\ resStatus[r] = "pending" /\ r \notin lapsed
  /\ lapsed' = lapsed \cup {r}
  /\ UNCHANGED <<couponVars, resStatus, resBuyer, redemptions, refundVars, paid, settled,
                 eventVars, workerVars, lowered, faults>>

\* The rows ClaimExpired may pick up.
Expirable == {r \in Reservations : resStatus[r] = "pending" /\ r \in lapsed}

\* ExpireStaleReservations: a batch; rows locked by others are skipped.
ExpireStaleReservations ==
  \E S \in SUBSET Expirable \ {{}} :
    /\ resStatus' = [r \in Reservations |-> IF r \in S THEN "expired" ELSE resStatus[r]]
    /\ DecrementUsage(Cardinality(S))
    /\ UNCHANGED <<limit, couponStatus, resBuyer, lapsed, redemptions, refundVars, paid,
                   settled, eventVars, workerVars, lowered, faults>>

-------------------------------------------------------------------------------
(***************************************************************************)
(* Commit and release. HandlePaymentSuccess works through the cart's       *)
(* orders in turn and commits every one that carries the reservation id:   *)
(* the ones with a share. An error stops it and the webhook starts over.   *)
(***************************************************************************)

PaymentSucceeds(r) ==
  /\ resStatus[r] # "none" /\ r \notin paid
  /\ paid' = paid \cup {r}
  /\ UNCHANGED <<couponVars, reservationVars, redemptions, refundVars, settled, eventVars,
                 workerVars, lowered, faults>>

\* CreateCheckout stamps the reservation on the orders that got a share.
Stamped == {i \in Positions : Shares[i] > 0}

\* The loop has reached the cart's i-th order.
Reached(r, i) == \A j \in Stamped : j < i => <<r, j>> \in settled

\* CommitReservation up to its first write: the call succeeds at once for an
\* order that has its redemption, and fails without a trace (the webhook will
\* be redelivered) for a reservation that is not pending.
CommitLoad(w, r, i) ==
  /\ wpc[w] = "idle"
  /\ r \in paid /\ i \in Stamped /\ Reached(r, i)
  /\ \/ /\ <<r, i>> \in redemptions /\ <<r, i>> \notin settled
        /\ settled' = settled \cup {<<r, i>>}
        /\ UNCHANGED workerVars
     \/ /\ <<r, i>> \notin redemptions /\ resStatus[r] = "pending"
        /\ wpc' = [wpc EXCEPT ![w] = "commit"]
        /\ worder' = [worder EXCEPT ![w] = <<r, i>>]
        /\ UNCHANGED settled
  /\ UNCHANGED <<couponVars, reservationVars, redemptions, refundVars, paid, eventVars,
                 lowered, faults>>

\* Mutant of StillPending: UpdateStatus without its expected status.
AnyStatus(r) == TRUE

\* The WHERE clause of UpdateStatus(pending -> ...).
StillPending(r) == resStatus[r] = "pending"

\* UpdateStatus and, if it hit, the redemption. The answer may get lost on its
\* way to order-svc. A miss is ErrReservationAlreadyTerminal. The redemption
\* cannot clash with another: an order carries one reservation.
CommitWrite(w) ==
  /\ wpc[w] = "commit"
  /\ LET r == worder[w][1]
     IN \/ /\ StillPending(r)
           /\ resStatus' = [resStatus EXCEPT ![r] = "committed"]
           /\ redemptions' = redemptions \cup {worder[w]}
           /\ \/ settled' = settled \cup {worder[w]} /\ UNCHANGED faults
              \/ faults < MaxFaults /\ faults' = faults + 1 /\ UNCHANGED settled
        \/ ~StillPending(r) /\ UNCHANGED <<resStatus, redemptions, settled, faults>>
  /\ wpc' = [wpc EXCEPT ![w] = "idle"]
  /\ UNCHANGED <<couponVars, resBuyer, lapsed, refundVars, paid, eventVars, worder, lowered>>

\* ReleaseReservation: order-svc calls it when a checkout fails, so never for
\* a cart that can still be paid.
ReleaseLoad(w, r) ==
  /\ wpc[w] = "idle"
  /\ resStatus[r] = "pending" /\ r \notin paid
  /\ wpc' = [wpc EXCEPT ![w] = "release"]
  /\ worder' = [worder EXCEPT ![w] = <<r, 1>>]
  /\ UNCHANGED <<couponVars, reservationVars, redemptions, refundVars, paid, settled,
                 eventVars, lowered, faults>>

ReleaseWrite(w) ==
  /\ wpc[w] = "release"
  /\ LET r == worder[w][1]
     IN \/ /\ StillPending(r)
           /\ resStatus' = [resStatus EXCEPT ![r] = "released"]
           /\ DecrementUsage(1)
        \/ ~StillPending(r) /\ UNCHANGED <<resStatus, usage>>
  /\ wpc' = [wpc EXCEPT ![w] = "idle"]
  /\ UNCHANGED <<limit, couponStatus, resBuyer, lapsed, redemptions, refundVars, paid,
                 settled, eventVars, worder, lowered, faults>>

-------------------------------------------------------------------------------
(***************************************************************************)
(* Refunds, driven by order.cancelled events (delivered at least once).    *)
(***************************************************************************)

\* order-svc publishes order.cancelled for one order of the cart. The event has
\* the coupon columns of the row that ApproveTx returns: today none, as its
\* RETURNING does not list them. The subscriber is written for either form.
OrderCancelled(r, i) ==
  /\ resStatus[r] # "none" /\ i \in Stamped /\ <<r, i>> \notin cancelled
  /\ cancelled' = cancelled \cup {<<r, i>>}
  /\ UNCHANGED <<couponVars, reservationVars, redemptions, refundVars, paid, settled, acked,
                 early, carried, workerVars, lowered, faults>>

\* The handler returned nil: the event is acknowledged, or the
\* acknowledgement is lost and the event comes again.
Acknowledge(x) ==
  \/ acked' = acked \cup {x} /\ UNCHANGED faults
  \/ faults < MaxFaults /\ faults' = faults + 1 /\ UNCHANGED acked

Committed(r) == \E x \in redemptions : x[1] = r

\* Mutant of HasRedemption: looks the redemption up by the cancelled order.
HasRedemptionOfOrder(r, i) == <<r, i>> \in redemptions

\* GetByReservationID: the redemption is keyed on the order that committed
\* first, the cancelled one may be another order of the cart.
HasRedemption(r, i) == Committed(r)

\* An event without coupon columns, or for a cart that was never committed.
RefundSkipped(r, i) ==
  /\ <<r, i>> \in cancelled \ acked
  /\ ~carried \/ ~HasRedemption(r, i)
  /\ early' = IF Committed(r) THEN early ELSE early \cup {<<r, i>>}
  /\ Acknowledge(<<r, i>>)
  /\ UNCHANGED <<couponVars, reservationVars, redemptions, refundVars, paid, settled,
                 cancelled, carried, workerVars, lowered>>

\* Mutant of FirstRefund: no refund-event ledger.
EveryRefund(x) == TRUE

\* InsertRefundEvent hits no UNIQUE (redemption_id, cancelled_order_id).
FirstRefund(x) == x \notin refundEvents

\* ApplyPartialRefund: LEAST(refunded_amount + share, discount_applied).
PlusShare(r, i) == Lower(refunded[r] + Shares[i], Discount)

\* RefundRedemption for an order's first event. The seat is freed by the
\* refund that makes the redemption full. (A repeated event violates the UNIQUE
\* key inside the transaction, so its commit fails and the event is nacked:
\* nothing changes and it stays unacknowledged.)
RefundRedemption(r, i) ==
  /\ <<r, i>> \in cancelled \ acked
  /\ carried /\ HasRedemption(r, i) /\ FirstRefund(<<r, i>>)
  /\ refundEvents' = refundEvents \cup {<<r, i>>}
  /\ \/ /\ r \in fullyRefunded
        /\ UNCHANGED <<refunded, fullyRefunded, usage>>
     \/ /\ r \notin fullyRefunded
        /\ refunded' = [refunded EXCEPT ![r] = PlusShare(r, i)]
        /\ IF PlusShare(r, i) = Discount
             THEN fullyRefunded' = fullyRefunded \cup {r} /\ DecrementUsage(1)
             ELSE UNCHANGED <<fullyRefunded, usage>>
  /\ Acknowledge(<<r, i>>)
  /\ UNCHANGED <<limit, couponStatus, reservationVars, redemptions, paid, settled, cancelled,
                 early, carried, workerVars, lowered>>

-------------------------------------------------------------------------------
(***************************************************************************)
(* Administration.                                                         *)
(***************************************************************************)

\* UpdateCoupon may set any limit, whatever the usage count is.
UpdateCoupon(l) ==
  /\ l \in Limits /\ l # limit
  /\ limit' = l
  /\ lowered' = (l # 0 /\ usage > l)
  /\ UNCHANGED <<usage, couponStatus, reservationVars, redemptions, refundVars, paid, settled,
                 eventVars, workerVars, faults>>

RevokeCoupon ==
  /\ couponStatus = "active"
  /\ couponStatus' = "revoked"
  /\ UNCHANGED <<usage, limit, reservationVars, redemptions, refundVars, paid, settled,
                 eventVars, workerVars, lowered, faults>>

-------------------------------------------------------------------------------

Call(w) ==
  \/ \E r \in Reservations, i \in Positions : CommitLoad(w, r, i)
  \/ CommitWrite(w) \/ ReleaseWrite(w)

Deliver(r, i) == RefundSkipped(r, i) \/ RefundRedemption(r, i)

Next ==
  \/ \E r \in Reservations : ReserveCoupon(r) \/ ReservationLapses(r) \/ PaymentSucceeds(r)
  \/ ExpireStaleReservations
  \/ \E w \in Workers : Call(w) \/ \E r \in Reservations : ReleaseLoad(w, r)
  \/ \E r \in Reservations, i \in Positions : OrderCancelled(r, i) \/ Deliver(r, i)
  \/ \E l \in Limits : UpdateCoupon(l)
  \/ RevokeCoupon

Spec == Init /\ [][Next]_vars

\* Time passes, the reaper runs, order-svc's webhook is redelivered until its
\* commits succeed, calls return and the broker redelivers.
Fairness ==
  /\ \A r \in Reservations : WF_vars(ReservationLapses(r))
  /\ WF_vars(ExpireStaleReservations)
  /\ \A w \in Workers : WF_vars(Call(w))
  /\ \A r \in Reservations, i \in Positions : WF_vars(Deliver(r, i))

FairSpec == Spec /\ Fairness

-------------------------------------------------------------------------------
(***************************************************************************)
(* Properties.                                                             *)
(***************************************************************************)

\* The type invariant of the coupon's tables and of the calls in flight.
TypeOK ==
  /\ usage \in Nat /\ limit \in Nat
  /\ couponStatus \in {"active", "revoked"}
  /\ resStatus \in [Reservations -> {"none", "pending", "committed", "released", "expired"}]
  /\ resBuyer \in [Reservations -> Buyers]
  /\ lapsed \subseteq Reservations
  /\ redemptions \subseteq Orders
  /\ refunded \in [Reservations -> 0..Discount]
  /\ fullyRefunded \subseteq Reservations
  /\ refundEvents \subseteq Orders
  /\ paid \subseteq Reservations
  /\ settled \subseteq Orders
  /\ cancelled \subseteq Orders /\ acked \subseteq Orders
  /\ early \subseteq Orders /\ carried \in BOOLEAN
  /\ wpc \in [Workers -> {"idle", "commit", "release"}]
  /\ worder \in [Workers -> Orders]
  /\ lowered \in BOOLEAN
  /\ faults \in 0..MaxFaults

\* A reservation holds a seat while it is pending, and while it is committed
\* and not refunded in full.
Holding == {r \in Reservations :
              \/ resStatus[r] = "pending"
              \/ resStatus[r] = "committed" /\ r \notin fullyRefunded}

\* usage_count is exactly the number of seats held: whatever races, no seat
\* is freed twice (the floor at zero never hides one) and none is leaked.
UsageCountsSeats == usage = Cardinality(Holding)

\* The coupon is never oversold: usage_count exceeds the total limit only if
\* an administrator lowered the limit below it.
NotOversold == limit = 0 \/ usage <= limit \/ lowered

\* One redemption for a committed cart and none for any other, although the
\* orders of a cart commit and the reaper and releases run concurrently.
OneRedemptionPerCart ==
  \A r \in Reservations :
    Cardinality({x \in redemptions : x[1] = r}) = IF resStatus[r] = "committed" THEN 1 ELSE 0

\* The shares of the orders in the refund ledger.
RefundedShares(r) ==
  Total([i \in Positions |-> IF <<r, i>> \in refundEvents THEN Shares[i] ELSE 0])

\* What a redemption has given back is the sum of the shares of its cancelled
\* orders, each counted once, capped at the discount, and it is marked as
\* refunded exactly when that is everything.
RefundsAddUp ==
  \A r \in Reservations :
    /\ refunded[r] = Lower(RefundedShares(r), Discount)
    /\ r \in fullyRefunded <=> refunded[r] = Discount

\* Where order.cancelled events carry the coupon columns, one is acknowledged
\* only after its order's share was refunded, unless the cart had no redemption
\* when it was handled. Those that order-svc sends today carry none, and are
\* acknowledged with nothing refunded.
CarriedCancelIsRefunded == carried => acked \subseteq refundEvents \cup early

-------------------------------------------------------------------------------
(***************************************************************************)
(* What order_service.go:511 says and the code does not keep.              *)
(***************************************************************************)

\* The orders of a paid cart whose reservation was committed all get past the
\* coupon step of the webhook.
PaidCartSettles ==
  \A r \in Reservations :
    (resStatus[r] = "committed" /\ r \in paid) ~> (\A i \in Stamped : <<r, i>> \in settled)

===============================================================================
