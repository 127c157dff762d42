------------------------------ MODULE CouponProofs ------------------------------
(***************************************************************************)
(* For every number of carts, orders per cart, buyers and concurrent calls, *)
(* every limit and every split of the discount: the seats of a coupon are   *)
(* counted, and its redemptions and refunds add up.                         *)
(***************************************************************************)
EXTENDS CouponRedemption, DiscountMathProofs

Statuses  == {"none", "pending", "committed", "released", "expired"}
CallSteps == {"idle", "commit", "release"}

\* Every action keeps the types.
LEMMA TypesNext == ASSUME TypeOK, [Next]_vars PROVE TypeOK'
<1> USE CouponAssumption DEF TypeOK, Orders
<1>1. ASSUME NEW r \in Reservations, ReserveCoupon(r) PROVE TypeOK'
  BY <1>1 DEF ReserveCoupon, refundVars, eventVars, workerVars
<1>2. ASSUME NEW r \in Reservations, ReservationLapses(r) PROVE TypeOK'
  BY <1>2 DEF ReservationLapses, couponVars, refundVars, eventVars, workerVars
<1>3. ASSUME NEW r \in Reservations, PaymentSucceeds(r) PROVE TypeOK'
  BY <1>3 DEF PaymentSucceeds, couponVars, reservationVars, refundVars, eventVars, workerVars
<1>4. CASE ExpireStaleReservations
  <2>1. PICK S \in SUBSET Expirable \ {{}} :
          /\ resStatus' = [r \in Reservations |-> IF r \in S THEN "expired" ELSE resStatus[r]]
          /\ DecrementUsage(Cardinality(S))
          /\ UNCHANGED <<limit, couponStatus, resBuyer, lapsed, redemptions, refundVars, paid,
                         settled, eventVars, workerVars, lowered, faults>>
    BY <1>4 DEF ExpireStaleReservations
  <2>2. IsFiniteSet(Reservations) /\ S \in SUBSET Reservations
    BY FS_Interval DEF Reservations, Expirable
  <2>3. Cardinality(S) \in Nat
    BY <2>2, FS_Subset, FS_CardinalityType
  <2>4. usage' \in Nat
    BY <2>1, <2>3 DEF DecrementUsage
  <2> QED
    BY <2>1, <2>4 DEF refundVars, eventVars, workerVars
<1>5. ASSUME NEW w \in Workers, NEW r \in Reservations, NEW i \in Positions, CommitLoad(w, r, i)
      PROVE  TypeOK'
  <2>1. settled' \subseteq Orders
    BY <1>5 DEF CommitLoad, Orders
  <2>2. wpc' \in [Workers -> {"idle", "commit", "release"}] /\ worder' \in [Workers -> Orders]
    BY <1>5 DEF CommitLoad, Orders, workerVars
  <2> QED
    BY <1>5, <2>1, <2>2 DEF CommitLoad, couponVars, reservationVars, refundVars, eventVars
<1>6. ASSUME NEW w \in Workers, CommitWrite(w) PROVE TypeOK'
  <2>1. worder[w] \in Orders /\ worder[w][1] \in Reservations
    OBVIOUS
  <2>2. resStatus' \in [Reservations -> Statuses] /\ redemptions' \subseteq Orders
    BY <1>6, <2>1 DEF CommitWrite, Statuses
  <2>3. settled' \subseteq Orders /\ faults' \in 0..MaxFaults
    BY <1>6, <2>1 DEF CommitWrite
  <2> QED
    BY <1>6, <2>2, <2>3 DEF CommitWrite, Statuses, couponVars, refundVars, eventVars
<1>7. ASSUME NEW w \in Workers, NEW r \in Reservations, ReleaseLoad(w, r) PROVE TypeOK'
  <2>1. 1 \in Positions
    BY DEF Positions
  <2> QED
    BY <1>7, <2>1 DEF ReleaseLoad, couponVars, reservationVars, refundVars, eventVars
<1>8. ASSUME NEW w \in Workers, ReleaseWrite(w) PROVE TypeOK'
  <2>1. usage' \in Nat
    BY <1>8 DEF ReleaseWrite, DecrementUsage
  <2> QED
    BY <1>8, <2>1 DEF ReleaseWrite, refundVars, eventVars
<1>9. ASSUME NEW r \in Reservations, NEW i \in Positions, OrderCancelled(r, i) PROVE TypeOK'
  BY <1>9 DEF OrderCancelled, couponVars, reservationVars, refundVars, workerVars
<1>10. ASSUME NEW r \in Reservations, NEW i \in Positions, RefundSkipped(r, i) PROVE TypeOK'
  <2>1. acked' \subseteq Orders /\ faults' \in 0..MaxFaults /\ early' \subseteq Orders
    BY <1>10 DEF RefundSkipped, Acknowledge
  <2> QED
    BY <1>10, <2>1 DEF RefundSkipped, couponVars, reservationVars, refundVars, workerVars
<1>11. ASSUME NEW r \in Reservations, NEW i \in Positions, RefundRedemption(r, i) PROVE TypeOK'
  <2>1. acked' \subseteq Orders /\ faults' \in 0..MaxFaults
    BY <1>11 DEF RefundRedemption, Acknowledge
  <2>2. PlusShare(r, i) \in 0..Discount
    BY DEF PlusShare, Lower
  <2>3. /\ refunded' \in [Reservations -> 0..Discount] /\ fullyRefunded' \subseteq Reservations
        /\ usage' \in Nat
    <3> HIDE DEF PlusShare
    <3> QED
      BY <1>11, <2>2 DEF RefundRedemption, DecrementUsage
  <2> QED
    BY <1>11, <2>1, <2>3 DEF RefundRedemption, reservationVars, workerVars
<1>12. ASSUME NEW l \in Limits, UpdateCoupon(l) PROVE TypeOK'
  BY <1>12 DEF UpdateCoupon, reservationVars, refundVars, eventVars, workerVars
<1>13. CASE RevokeCoupon
  BY <1>13 DEF RevokeCoupon, reservationVars, refundVars, eventVars, workerVars
<1>14. CASE UNCHANGED vars
  BY <1>14 DEF vars, couponVars, reservationVars, refundVars, eventVars, workerVars
<1> QED
  BY <1>1, <1>2, <1>3, <1>4, <1>5, <1>6, <1>7, <1>8, <1>9, <1>10, <1>11, <1>12, <1>13, <1>14
     DEF Next, Call, Deliver

LEMMA TypesInit == Init => TypeOK
<1> SUFFICES ASSUME Init PROVE TypeOK
  OBVIOUS
<1>1. <<1, 1>> \in Orders
  BY CouponAssumption DEF Orders, Reservations, Positions
<1>2. limit \in Nat /\ 0 \in 0..Discount /\ 0 \in 0..MaxFaults
  BY CouponAssumption DEF Init
<1> QED
  BY <1>1, <1>2 DEF Init, TypeOK

\* coupon-svc: every reachable state is well typed; no refund exceeds the discount.
THEOREM TypeCorrect == Spec => []TypeOK
<1> QED
  BY TypesInit, TypesNext, PTL DEF Spec

-----------------------------------------------------------------------------
(***************************************************************************)
(* Seats.                                                                  *)
(***************************************************************************)

\* A reservation is committed by the insertion of its one redemption, and only a
\* committed one is refunded in full.  Without this the seat of a reservation that is
\* not committed could be freed by a refund.
Redeemed ==
  /\ \A x, y \in redemptions : x[1] = y[1] => x = y
  /\ \A r \in Reservations : resStatus[r] = "committed" <=> Committed(r)
  /\ \A r \in fullyRefunded : resStatus[r] = "committed"

SeatsInv == TypeOK /\ Redeemed /\ UsageCountsSeats

LEMMA FinitelyHeld ==
  IsFiniteSet(Reservations) /\ IsFiniteSet(Holding) /\ Cardinality(Holding) \in Nat
<1>1. IsFiniteSet(Reservations)
  BY CouponAssumption, FS_Interval DEF Reservations
<1>2. Holding \in SUBSET Reservations
  BY DEF Holding
<1> QED
  BY <1>1, <1>2, FS_Subset, FS_CardinalityType

\* GREATEST(0, usage_count - n) frees exactly n seats: the floor hides nothing.
LEMMA SeatsFreed ==
  ASSUME UsageCountsSeats, NEW S \in SUBSET Holding, Holding' = Holding \ S,
         DecrementUsage(Cardinality(S))
  PROVE  UsageCountsSeats' /\ usage' <= usage
<1>1. Cardinality(S) \in Nat /\ Cardinality(S) <= Cardinality(Holding)
  BY FinitelyHeld, FS_Subset, FS_CardinalityType
<1>2. Cardinality(Holding \ S) = Cardinality(Holding) - Cardinality(S)
  <2>1. Holding \cap S = S
    OBVIOUS
  <2>2. Cardinality(Holding \ S) = Cardinality(Holding) - Cardinality(Holding \cap S)
    BY FinitelyHeld, FS_Difference
  <2> QED
    BY <2>1, <2>2
<1>3. usage' = Cardinality(Holding) - Cardinality(S) /\ usage' <= usage
  <2>1. usage = Cardinality(Holding) /\ Cardinality(Holding) \in Nat
    BY FinitelyHeld DEF UsageCountsSeats
  <2> QED
    BY <1>1, <2>1 DEF DecrementUsage
<1> QED
  BY <1>2, <1>3 DEF UsageCountsSeats

LEMMA SeatFreed ==
  ASSUME UsageCountsSeats, NEW r \in Holding, Holding' = Holding \ {r}, DecrementUsage(1)
  PROVE  UsageCountsSeats' /\ usage' <= usage
<1>1. Cardinality({r}) = 1
  BY FS_Singleton
<1> QED
  BY <1>1, SeatsFreed

\* A step that leaves the statuses, the redemptions and the refunds alone.
LEMMA SeatsStay ==
  ASSUME SeatsInv, [Next]_vars, UNCHANGED <<usage, resStatus, redemptions, fullyRefunded>>
  PROVE  SeatsInv' /\ usage' <= usage
<1>1. TypeOK'
  BY TypesNext DEF SeatsInv
<1>2. Redeemed' /\ UsageCountsSeats'
  BY DEF SeatsInv, Redeemed, Committed, UsageCountsSeats, Holding
<1>3. usage \in Nat
  BY DEF SeatsInv, TypeOK
<1> QED
  BY <1>1, <1>2, <1>3 DEF SeatsInv

\* Every action keeps the count, and only a reservation raises it.
LEMMA SeatsNext ==
  ASSUME SeatsInv, [Next]_vars
  PROVE  SeatsInv' /\ (usage' <= usage \/ (usage' = usage + 1 /\ SeatFree))
<1> DEFINE Kept == SeatsInv' /\ (usage' <= usage \/ (usage' = usage + 1 /\ SeatFree))
<1> SUFFICES Kept
  OBVIOUS
<1>0. TypeOK /\ TypeOK' /\ Redeemed /\ UsageCountsSeats /\ usage \in Nat
  BY TypesNext DEF SeatsInv, TypeOK
<1>1. ASSUME NEW r \in Reservations, ReserveCoupon(r) PROVE Kept
  <2>1. resStatus[r] = "none" /\ resStatus' = [resStatus EXCEPT ![r] = "pending"]
        /\ usage' = usage + 1 /\ SeatFree /\ UNCHANGED <<redemptions, fullyRefunded>>
    BY <1>1 DEF ReserveCoupon, refundVars
  <2>2. Redeemed'
    BY <1>0, <2>1 DEF TypeOK, Redeemed, Committed
  <2>3. Holding' = Holding \cup {r} /\ r \notin Holding
    BY <1>0, <2>1 DEF TypeOK, Holding
  <2>4. Cardinality(Holding \cup {r}) = Cardinality(Holding) + 1
    BY <2>3, FinitelyHeld, FS_AddElement
  <2>5. UsageCountsSeats'
    BY <1>0, <2>1, <2>3, <2>4 DEF UsageCountsSeats
  <2> QED
    BY <1>0, <2>1, <2>2, <2>5 DEF SeatsInv
<1>2. ASSUME NEW r \in Reservations, ReservationLapses(r) \/ PaymentSucceeds(r) PROVE Kept
  BY <1>2, SeatsStay
     DEF ReservationLapses, PaymentSucceeds, couponVars, reservationVars, refundVars
<1>3. CASE ExpireStaleReservations
  <2>1. PICK S \in SUBSET Expirable \ {{}} :
          /\ resStatus' = [r \in Reservations |-> IF r \in S THEN "expired" ELSE resStatus[r]]
          /\ DecrementUsage(Cardinality(S))
          /\ UNCHANGED <<redemptions, fullyRefunded>>
    BY <1>3 DEF ExpireStaleReservations, refundVars
  <2>2. S \in SUBSET Holding /\ Holding' = Holding \ S
    BY <1>0, <2>1 DEF TypeOK, Holding, Expirable
  <2>3. UsageCountsSeats' /\ usage' <= usage
    BY <1>0, <2>1, <2>2, SeatsFreed
  <2>4. \A r \in S : resStatus[r] = "pending"
    BY DEF Expirable
  <2>5. Redeemed'
    BY <1>0, <2>1, <2>4 DEF TypeOK, Redeemed, Committed
  <2> QED
    BY <1>0, <2>3, <2>5 DEF SeatsInv
<1>4. /\ \A w \in Workers, r \in Reservations, i \in Positions : CommitLoad(w, r, i) => Kept
      /\ \A w \in Workers, r \in Reservations : ReleaseLoad(w, r) => Kept
  BY SeatsStay DEF CommitLoad, ReleaseLoad, couponVars, reservationVars, refundVars
<1>5. ASSUME NEW w \in Workers, CommitWrite(w) PROVE Kept
  <2> DEFINE r == worder[w][1]
  <2>1. worder[w] \in Orders /\ r \in Reservations
    BY <1>0 DEF TypeOK, Orders
  <2>2. CASE ~StillPending(r)
    BY <1>5, <2>2, SeatsStay DEF CommitWrite, couponVars, refundVars
  <2>3. CASE StillPending(r)
    <3>1. /\ resStatus' = [resStatus EXCEPT ![r] = "committed"]
          /\ redemptions' = redemptions \cup {worder[w]}
          /\ UNCHANGED <<usage, fullyRefunded>>
      BY <1>5, <2>3 DEF CommitWrite, couponVars, refundVars
    <3>2. resStatus[r] = "pending"
      BY <2>3 DEF StillPending
    <3>3. ~Committed(r)
      BY <1>0, <2>1, <3>2 DEF Redeemed
    <3>4. r \notin fullyRefunded
      BY <1>0, <3>2 DEF Redeemed
    <3>5. \A q \in Reservations : resStatus'[q] = IF q = r THEN "committed" ELSE resStatus[q]
      BY <1>0, <2>1, <3>1 DEF TypeOK
    <3> HIDE DEF r
    <3>6. Holding' = Holding
      BY <2>1, <3>1, <3>2, <3>4, <3>5 DEF Holding
    <3>7. \A x, y \in redemptions' : x[1] = y[1] => x = y
      <4> TAKE x, y \in redemptions'
      <4>1. \A z \in redemptions : z[1] # r
        BY <3>3 DEF Committed
      <4>2. worder[w][1] = r
        BY DEF r
      <4> QED
        BY <1>0, <3>1, <4>1, <4>2 DEF Redeemed
    <3>8. \A q \in Reservations : resStatus'[q] = "committed" <=> Committed(q)'
      <4> TAKE q \in Reservations
      <4>1. Committed(q)' <=> Committed(q) \/ worder[w][1] = q
        BY <3>1 DEF Committed
      <4> QED
        BY <1>0, <3>5, <4>1 DEF Redeemed, r
    <3>9. \A q \in fullyRefunded' : resStatus'[q] = "committed"
      BY <1>0, <3>1, <3>5 DEF TypeOK, Redeemed
    <3> QED
      BY <1>0, <3>1, <3>6, <3>7, <3>8, <3>9 DEF SeatsInv, Redeemed, UsageCountsSeats
  <2> QED
    BY <2>2, <2>3
<1>6. ASSUME NEW w \in Workers, ReleaseWrite(w) PROVE Kept
  <2> DEFINE r == worder[w][1]
  <2>1. r \in Reservations
    BY <1>0 DEF TypeOK, Orders
  <2>2. CASE ~StillPending(r)
    BY <1>6, <2>2, SeatsStay DEF ReleaseWrite, refundVars
  <2>3. CASE StillPending(r)
    <3>1. /\ resStatus' = [resStatus EXCEPT ![r] = "released"]
          /\ DecrementUsage(1) /\ UNCHANGED <<redemptions, fullyRefunded>>
      BY <1>6, <2>3 DEF ReleaseWrite, refundVars
    <3>2. resStatus[r] = "pending"
      BY <2>3 DEF StillPending
    <3>3. \A q \in Reservations : resStatus'[q] = IF q = r THEN "released" ELSE resStatus[q]
      BY <1>0, <2>1, <3>1 DEF TypeOK
    <3> HIDE DEF r
    <3>4. r \in Holding /\ Holding' = Holding \ {r}
      BY <2>1, <3>1, <3>2, <3>3 DEF Holding
    <3>5. UsageCountsSeats' /\ usage' <= usage
      BY <1>0, <3>1, <3>4, SeatFreed
    <3>6. Redeemed'
      BY <1>0, <3>1, <3>2, <3>3 DEF TypeOK, Redeemed, Committed
    <3> QED
      BY <1>0, <3>5, <3>6 DEF SeatsInv
  <2> QED
    BY <2>2, <2>3
<1>7. ASSUME NEW r \in Reservations, NEW i \in Positions, OrderCancelled(r, i) \/ RefundSkipped(r, i)
      PROVE  Kept
  BY <1>7, SeatsStay DEF OrderCancelled, RefundSkipped, couponVars, reservationVars, refundVars
<1>8. ASSUME NEW r \in Reservations, NEW i \in Positions, RefundRedemption(r, i) PROVE Kept
  <2>1. UNCHANGED <<resStatus, redemptions>> /\ Committed(r)
    BY <1>8 DEF RefundRedemption, reservationVars, HasRedemption
  <2>2. CASE UNCHANGED <<fullyRefunded, usage>>
    BY <2>1, <2>2, <1>8, SeatsStay
  <2>3. CASE r \notin fullyRefunded /\ fullyRefunded' = fullyRefunded \cup {r} /\ DecrementUsage(1)
    <3>1. resStatus[r] = "committed"
      BY <1>0, <2>1 DEF Redeemed
    <3>2. r \in Holding /\ Holding' = Holding \ {r}
      BY <2>1, <2>3, <3>1 DEF Holding
    <3>3. UsageCountsSeats' /\ usage' <= usage
      BY <1>0, <2>3, <3>2, SeatFreed
    <3>4. Redeemed'
      BY <1>0, <2>1, <2>3, <3>1 DEF Redeemed, Committed
    <3> QED
      BY <1>0, <3>3, <3>4 DEF SeatsInv
  <2> QED
    BY <1>8, <2>2, <2>3 DEF RefundRedemption
<1>9. ASSUME NEW l \in Limits, UpdateCoupon(l) PROVE Kept
  BY <1>9, SeatsStay DEF UpdateCoupon, reservationVars, refundVars
<1>10. CASE RevokeCoupon
  BY <1>10, SeatsStay DEF RevokeCoupon, reservationVars, refundVars
<1>11. CASE UNCHANGED vars
  BY <1>11, SeatsStay DEF vars, couponVars, reservationVars, refundVars
<1> HIDE DEF Kept
<1> QED
  BY <1>1, <1>2, <1>3, <1>4, <1>5, <1>6, <1>7, <1>8, <1>9, <1>10, <1>11 DEF Next, Call, Deliver

LEMMA SeatsInit == Init => SeatsInv
<1> SUFFICES ASSUME Init PROVE SeatsInv
  OBVIOUS
<1>1. TypeOK
  BY TypesInit
<1>2. Holding = {} /\ usage = 0
  BY DEF Init, Holding
<1>3. UsageCountsSeats
  BY <1>2, FS_EmptySet DEF UsageCountsSeats
<1>4. Redeemed
  BY DEF Init, Redeemed, Committed
<1> QED
  BY <1>1, <1>3, <1>4 DEF SeatsInv

\* coupon-svc, IncrementUsageIfBelowLimit, DecrementUsage and UpdateStatus: whatever
\* commits, releases, reapers and refunds race for, usage_count is the number of
\* seats held: no seat is freed twice and none is leaked.
THEOREM SeatsAreExact == Spec => []UsageCountsSeats
<1>1. SeatsInv /\ [Next]_vars => SeatsInv'
  BY SeatsNext
<1>2. SeatsInv => UsageCountsSeats
  BY DEF SeatsInv
<1> QED
  BY <1>1, <1>2, SeatsInit, PTL DEF Spec

\* coupon-svc: a committed reservation has one redemption, any other none.
LEMMA RedeemedOnce == SeatsInv => OneRedemptionPerCart
<1> SUFFICES ASSUME SeatsInv, NEW r \in Reservations
             PROVE  Cardinality({x \in redemptions : x[1] = r})
                      = IF resStatus[r] = "committed" THEN 1 ELSE 0
  BY DEF OneRedemptionPerCart
<1> DEFINE R == {x \in redemptions : x[1] = r}
<1>1. CASE resStatus[r] = "committed"
  <2>1. PICK x \in redemptions : x[1] = r
    BY <1>1 DEF SeatsInv, Redeemed, Committed
  <2>2. R = {x}
    BY <2>1 DEF SeatsInv, Redeemed
  <2> QED
    BY <1>1, <2>2, FS_Singleton
<1>2. CASE resStatus[r] # "committed"
  <2>1. R = {}
    BY <1>2 DEF SeatsInv, Redeemed, Committed
  <2> QED
    BY <1>2, <2>1, FS_EmptySet
<1> QED
  BY <1>1, <1>2

\* coupon-svc, CommitReservation: however many orders of a cart commit at once, and
\* whatever the reaper and releases do meanwhile, a cart is redeemed once or not.
THEOREM CartsAreRedeemedOnce == Spec => []OneRedemptionPerCart
<1>1. SeatsInv /\ [Next]_vars => SeatsInv'
  BY SeatsNext
<1> QED
  BY <1>1, SeatsInit, RedeemedOnce, PTL DEF Spec

\* Lowering the limit is the only way below the count: an increment is guarded by
\* the limit, everything else decrements.
LEMMA LimitNext == ASSUME SeatsInv, NotOversold, [Next]_vars PROVE NotOversold'
<1>1. usage \in Nat /\ limit \in Nat /\ usage' \in Nat /\ limit' \in Nat
      /\ (usage' <= usage \/ (usage' = usage + 1 /\ SeatFree))
  BY SeatsNext DEF SeatsInv, TypeOK
<1>2. CASE UNCHANGED <<limit, lowered>>
  BY <1>1, <1>2 DEF NotOversold, SeatFree
<1>3. ASSUME NEW l \in Limits, UpdateCoupon(l) PROVE NotOversold'
  <2>1. limit' = l /\ lowered' = (l # 0 /\ usage > l) /\ usage' = usage
    BY <1>3 DEF UpdateCoupon
  <2>2. l \in Nat /\ usage' \in Nat
    BY <1>1, <2>1
  <2>3. l = 0 \/ usage <= l \/ (l # 0 /\ usage > l)
    BY <1>1, <2>2
  <2>4. l # 0 /\ usage > l => lowered'
    BY <2>1, Zenon
  <2> QED
    BY <2>1, <2>3, <2>4 DEF NotOversold
<1>4. UNCHANGED <<limit, lowered>> \/ \E l \in Limits : UpdateCoupon(l)
  BY DEF Next, vars, ReserveCoupon, ReservationLapses, PaymentSucceeds, ExpireStaleReservations,
         Call, CommitLoad, CommitWrite, ReleaseWrite, ReleaseLoad, OrderCancelled, Deliver,
         RefundSkipped, RefundRedemption, RevokeCoupon, couponVars
<1> QED
  BY <1>2, <1>3, <1>4

LEMMA LimitInit == Init => NotOversold
<1> SUFFICES ASSUME Init PROVE NotOversold
  OBVIOUS
<1>1. usage = 0 /\ limit \in Nat
  BY CouponAssumption DEF Init
<1> QED
  BY <1>1 DEF NotOversold

\* coupon-svc, IncrementUsageIfBelowLimit: with any number of checkouts after the
\* last seat, the coupon is oversold only if its limit was lowered below the count.
THEOREM CouponIsNotOversold == Spec => []NotOversold
<1>1. SeatsInv /\ NotOversold /\ [Next]_vars => SeatsInv' /\ NotOversold'
  BY SeatsNext, LimitNext
<1> QED
  BY <1>1, SeatsInit, LimitInit, PTL DEF Spec

-----------------------------------------------------------------------------
(***************************************************************************)
(* Refunds.                                                                *)
(***************************************************************************)

\* The shares RefundedShares adds up.
Given(r) == [i \in Positions |-> IF <<r, i>> \in refundEvents THEN Shares[i] ELSE 0]

LEMMA GivenAmounts ==
  /\ CartSize \in Nat /\ Positions = 1..CartSize
  /\ \A r \in Reservations : /\ Given(r) \in [1..CartSize -> Int]
                             /\ RefundedShares(r) = Total(Given(r))
                             /\ RefundedShares(r) \in Int
<1>1. CartSize \in Nat /\ Positions = 1..CartSize /\ Shares \in [1..CartSize -> Nat]
  BY CouponAssumption DEF Positions
<1> SUFFICES ASSUME NEW r \in Reservations
             PROVE  /\ Given(r) \in [1..CartSize -> Int]
                    /\ RefundedShares(r) = Total(Given(r)) /\ RefundedShares(r) \in Int
  BY <1>1
<1>2. Given(r) \in [1..CartSize -> Int]
  BY <1>1 DEF Given
<1>3. RefundedShares(r) = Total(Given(r))
  BY DEF RefundedShares, Given
<1> QED
  BY <1>1, <1>2, <1>3, TotalIsInt

\* The first event of an order adds its share to the ledger's sum for the cart, and
\* leaves other carts alone.
LEMMA ShareIsAdded ==
  ASSUME NEW r \in Reservations, NEW i \in Positions, <<r, i>> \notin refundEvents,
         refundEvents' = refundEvents \cup {<<r, i>>}
  PROVE  \A q \in Reservations :
           RefundedShares(q)' = IF q = r THEN RefundedShares(q) + Shares[i] ELSE RefundedShares(q)
<1> TAKE q \in Reservations
<1> DEFINE old == Given(q)
           new == [j \in 1..CartSize |-> IF <<q, j>> \in refundEvents' THEN Shares[j] ELSE 0]
           share == [j \in 1..CartSize |-> IF j = i THEN Shares[i] ELSE 0]
<1>1. CartSize \in Nat /\ Positions = 1..CartSize /\ Shares \in [1..CartSize -> Nat]
  BY CouponAssumption DEF Positions
<1>2. RefundedShares(q)' = Total(new) /\ RefundedShares(q) = Total(old)
  BY <1>1 DEF RefundedShares, Given
<1>3. CASE q # r
  <2>1. \A j \in 1..CartSize : <<q, j>> \in refundEvents' <=> <<q, j>> \in refundEvents
    BY <1>3
  <2>2. new = old
    BY <1>1, <2>1 DEF Given
  <2> QED
    BY <1>2, <1>3, <2>2
<1>4. CASE q = r
  <2>1. old \in [1..CartSize -> Int]
    BY GivenAmounts
  <2>2. new \in [1..CartSize -> Int] /\ share \in [1..CartSize -> Int]
    BY <1>1
  <2>3. ASSUME NEW j \in 1..CartSize PROVE new[j] = old[j] + share[j]
    <3>1. <<q, j>> \in refundEvents' <=> <<q, j>> \in refundEvents \/ j = i
      BY <1>4
    <3>2. Shares[j] \in Nat
      BY <1>1
    <3>3. old[j] = IF <<q, j>> \in refundEvents THEN Shares[j] ELSE 0
      BY <1>1 DEF Given
    <3> QED
      BY <1>4, <3>1, <3>2, <3>3
  <2>4. i \in 1..CartSize /\ share[i] = Shares[i] /\ \A j \in 1..CartSize : j # i => share[j] = 0
    BY <1>1
  <2> HIDE DEF old, new, share
  <2>5. Total(share) = share[i]
    <3>1. CartSize \in Nat /\ share \in [1..CartSize -> Int]
      BY <1>1, <2>2
    <3>2. \A j \in 1..CartSize : j # i => share[j] = 0
      BY <2>4
    <3> QED
      BY <2>4, <3>1, <3>2, TotalSingle
  <2>6. Total(new) = Total(old) + Total(share)
    BY <1>1, <2>1, <2>2, <2>3, TotalAdds
  <2> QED
    BY <1>2, <1>4, <2>4, <2>5, <2>6
<1> QED
  BY <1>3, <1>4

LEMMA RefundsNext == ASSUME TypeOK, RefundsAddUp, [Next]_vars PROVE RefundsAddUp'
<1>1. CASE UNCHANGED <<refunded, fullyRefunded, refundEvents>>
  BY <1>1 DEF RefundsAddUp, RefundedShares
<1>2. ASSUME NEW r \in Reservations, NEW i \in Positions, RefundRedemption(r, i)
      PROVE  RefundsAddUp'
  <2>1. <<r, i>> \notin refundEvents /\ refundEvents' = refundEvents \cup {<<r, i>>}
    BY <1>2 DEF RefundRedemption, FirstRefund
  <2>2. \A q \in Reservations :
          RefundedShares(q)' = IF q = r THEN RefundedShares(q) + Shares[i] ELSE RefundedShares(q)
    BY <2>1, ShareIsAdded
  <2>3. /\ \A q \in Reservations : RefundedShares(q) \in Int
        /\ \A q \in Reservations : refunded[q] = Lower(RefundedShares(q), Discount)
        /\ \A q \in Reservations : q \in fullyRefunded <=> refunded[q] = Discount
        /\ Shares[i] \in Nat /\ Discount \in Nat \ {0}
    BY GivenAmounts, CouponAssumption DEF RefundsAddUp
  <2>4. \/ r \in fullyRefunded /\ UNCHANGED <<refunded, fullyRefunded>>
        \/ /\ r \notin fullyRefunded
           /\ refunded' = [refunded EXCEPT ![r] = PlusShare(r, i)]
           /\ fullyRefunded' = IF PlusShare(r, i) = Discount THEN fullyRefunded \cup {r}
                               ELSE fullyRefunded
    BY <1>2 DEF RefundRedemption
  <2> SUFFICES ASSUME NEW q \in Reservations
               PROVE  /\ refunded'[q] = Lower(RefundedShares(q)', Discount)
                      /\ q \in fullyRefunded' <=> refunded'[q] = Discount
    BY DEF RefundsAddUp
  <2> HIDE DEF RefundedShares
  <2>5. CASE q # r
    BY <2>2, <2>3, <2>4, <2>5 DEF TypeOK
  <2>6. CASE q = r /\ r \in fullyRefunded
    <3>1. refunded'[r] = Discount /\ r \in fullyRefunded'
      BY <2>3, <2>4, <2>6
    <3>2. RefundedShares(r) \in Int /\ RefundedShares(r) >= Discount
      BY <2>3, <2>6 DEF Lower
    <3>3. Lower(RefundedShares(r) + Shares[i], Discount) = Discount
      BY <2>3, <3>2 DEF Lower
    <3> QED
      BY <2>2, <2>6, <3>1, <3>3
  <2>7. CASE q = r /\ r \notin fullyRefunded
    <3>1. refunded[r] = RefundedShares(r) /\ RefundedShares(r) \in Int
      BY <2>3, <2>7 DEF Lower
    <3>2. refunded'[r] = Lower(RefundedShares(r) + Shares[i], Discount)
      BY <2>4, <2>7, <3>1 DEF PlusShare, TypeOK
    <3>3. r \in fullyRefunded' <=> refunded'[r] = Discount
      BY <2>4, <2>7, <3>1, <3>2 DEF PlusShare
    <3> QED
      BY <2>2, <2>7, <3>2, <3>3
  <2> QED
    BY <2>5, <2>6, <2>7
<1>3. \/ UNCHANGED <<refunded, fullyRefunded, refundEvents>>
      \/ \E r \in Reservations, i \in Positions : RefundRedemption(r, i)
  BY DEF Next, vars, ReserveCoupon, ReservationLapses, PaymentSucceeds, ExpireStaleReservations,
         Call, CommitLoad, CommitWrite, ReleaseWrite, ReleaseLoad, OrderCancelled, Deliver,
         RefundSkipped, UpdateCoupon, RevokeCoupon, refundVars
<1> QED
  BY <1>1, <1>2, <1>3

LEMMA RefundsInit == Init => RefundsAddUp
<1> SUFFICES ASSUME Init, NEW r \in Reservations
             PROVE  /\ refunded[r] = Lower(RefundedShares(r), Discount)
                    /\ r \in fullyRefunded <=> refunded[r] = Discount
  BY DEF RefundsAddUp
<1>1. refunded[r] = 0 /\ fullyRefunded = {} /\ refundEvents = {}
  BY DEF Init
<1>2. Discount \in Nat \ {0} /\ CartSize \in Nat /\ Positions = 1..CartSize
  BY CouponAssumption DEF Positions
<1>3. RefundedShares(r) = Total([i \in 1..CartSize |-> 0])
  BY <1>1, <1>2 DEF RefundedShares
<1>4. RefundedShares(r) = 0
  BY <1>2, <1>3, ZeroTotal
<1> QED
  BY <1>1, <1>2, <1>4 DEF Lower

\* coupon-svc, ApplyPartialRefund with the refund-event ledger: whatever is redelivered
\* and in whichever order the orders of a cart are cancelled, what a redemption has
\* given back is the sum of their shares, each counted once, capped at the discount.
THEOREM RefundsAreExact == Spec => []RefundsAddUp
<1>1. TypeOK /\ RefundsAddUp /\ [Next]_vars => TypeOK' /\ RefundsAddUp'
  BY TypesNext, RefundsNext
<1> QED
  BY <1>1, TypesInit, RefundsInit, PTL DEF Spec

LEMMA AckInit == Init => CarriedCancelIsRefunded
  BY DEF Init, CarriedCancelIsRefunded

LEMMA AckNext ==
  ASSUME CarriedCancelIsRefunded, [Next]_vars PROVE CarriedCancelIsRefunded'
<1>1. ASSUME NEW r \in Reservations, NEW i \in Positions, RefundSkipped(r, i)
      PROVE  CarriedCancelIsRefunded'
  BY <1>1 DEF CarriedCancelIsRefunded, RefundSkipped, HasRedemption, Acknowledge, refundVars
<1>2. ASSUME NEW r \in Reservations, NEW i \in Positions, RefundRedemption(r, i)
      PROVE  CarriedCancelIsRefunded'
  BY <1>2 DEF CarriedCancelIsRefunded, RefundRedemption, Acknowledge
<1>3. CASE UNCHANGED <<acked, early, carried, refundEvents>>
  BY <1>3 DEF CarriedCancelIsRefunded
<1>4. \/ UNCHANGED <<acked, early, carried, refundEvents>>
      \/ \E r \in Reservations, i \in Positions : RefundSkipped(r, i) \/ RefundRedemption(r, i)
  BY DEF Next, vars, ReserveCoupon, ReservationLapses, PaymentSucceeds,
         ExpireStaleReservations, Call, CommitLoad, CommitWrite, ReleaseWrite, ReleaseLoad,
         OrderCancelled, Deliver, UpdateCoupon, RevokeCoupon, refundVars, eventVars
<1> QED
  BY <1>1, <1>2, <1>3, <1>4

\* coupon-svc's order.cancelled subscriber: where events carry the coupon, one is
\* acknowledged only with its share refunded, or when nothing had been redeemed. It
\* says nothing of events without it, the only ones order-svc sends today.
THEOREM CarriedCancelIsRefundedOnAck == Spec => []CarriedCancelIsRefunded
<1>1. Init => CarriedCancelIsRefunded
  BY AckInit
<1>2. CarriedCancelIsRefunded /\ [Next]_vars => CarriedCancelIsRefunded'
  BY AckNext
<1> QED
  BY <1>1, <1>2, PTL DEF Spec
=============================================================================
