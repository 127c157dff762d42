---------------------------- MODULE DiscountsProofs ----------------------------
(***************************************************************************)
(* The two services that hold a checkout's discounts.  coupon-svc: what      *)
(* CouponProofs shows, for both instances of the module in which the         *)
(* services take turns.  loyalty-svc: for all orders, amounts, adjustments   *)
(* and concurrent calls, the ledger tells the account and the reservations   *)
(* tell what is pending; and the replay of the ledger explains the balance   *)
(* unless points were credited.                                              *)
(***************************************************************************)
EXTENDS MCDiscounts, CouponProofs

RefundProofs == INSTANCE CouponProofs WITH
  NumReservations <- 1, CartSize <- 3, Shares <- <<1, 1, 1>>, PerUserLimit <- 0, MaxFaults <- 2

\* The cart of three orders is an instance the theorems of CouponProofs are about: two
\* instances of one module, action by action.
LEMMA SameModule == (Refunds!Init <=> RefundProofs!Init) /\ (Refunds!Next <=> RefundProofs!Next)
<1>1. Refunds!Init <=> RefundProofs!Init
  BY DEF Refunds!Init, RefundProofs!Init, Refunds!Reservations,
     RefundProofs!Reservations, Refunds!Positions, RefundProofs!Positions, Refunds!Orders,
     RefundProofs!Orders
<1>2. \A S : Refunds!DecrementUsage(S) <=> RefundProofs!DecrementUsage(S)
  BY DEF Refunds!DecrementUsage, RefundProofs!DecrementUsage
<1>3. \A r \in Refunds!Reservations : Refunds!ReserveCoupon(r) <=> RefundProofs!ReserveCoupon(r)
  BY DEF Refunds!ReserveCoupon, RefundProofs!ReserveCoupon, Refunds!Usable,
     RefundProofs!Usable, Refunds!RedeemedBy, RefundProofs!RedeemedBy, Refunds!SeatFree,
     RefundProofs!SeatFree, Refunds!refundVars, RefundProofs!refundVars, Refunds!eventVars,
     RefundProofs!eventVars, Refunds!workerVars, RefundProofs!workerVars,
     Refunds!Cardinality, RefundProofs!Cardinality
<1>4. \A r \in Refunds!Reservations : Refunds!ReservationLapses(r) <=> RefundProofs!ReservationLapses(r)
  BY DEF Refunds!ReservationLapses, RefundProofs!ReservationLapses, Refunds!couponVars,
     RefundProofs!couponVars, Refunds!refundVars, RefundProofs!refundVars,
     Refunds!eventVars, RefundProofs!eventVars, Refunds!workerVars, RefundProofs!workerVars
<1>5. \A r \in Refunds!Reservations : Refunds!PaymentSucceeds(r) <=> RefundProofs!PaymentSucceeds(r)
  BY DEF Refunds!PaymentSucceeds, RefundProofs!PaymentSucceeds, Refunds!couponVars,
     RefundProofs!couponVars, Refunds!reservationVars, RefundProofs!reservationVars,
     Refunds!refundVars, RefundProofs!refundVars, Refunds!eventVars, RefundProofs!eventVars,
     Refunds!workerVars, RefundProofs!workerVars
<1>6. Refunds!ExpireStaleReservations <=> RefundProofs!ExpireStaleReservations
  BY DEF Refunds!ExpireStaleReservations, RefundProofs!ExpireStaleReservations,
     Refunds!Expirable, RefundProofs!Expirable, Refunds!Reservations,
     RefundProofs!Reservations, Refunds!refundVars, RefundProofs!refundVars,
     Refunds!eventVars, RefundProofs!eventVars, Refunds!workerVars, RefundProofs!workerVars,
     Refunds!Cardinality, RefundProofs!Cardinality, Refunds!DecrementUsage,
     RefundProofs!DecrementUsage
<1>7. \A w \in Workers, r \in Refunds!Reservations, i \in Refunds!Positions : Refunds!CommitLoad(w, r, i) <=> RefundProofs!CommitLoad(w, r, i)
  BY DEF Refunds!CommitLoad, RefundProofs!CommitLoad, Refunds!Stamped,
     RefundProofs!Stamped, Refunds!Reached, RefundProofs!Reached, Refunds!Positions,
     RefundProofs!Positions, Refunds!couponVars, RefundProofs!couponVars,
     Refunds!reservationVars, RefundProofs!reservationVars, Refunds!refundVars,
     RefundProofs!refundVars, Refunds!eventVars, RefundProofs!eventVars, Refunds!workerVars,
     RefundProofs!workerVars
<1>8. \A w \in Workers : Refunds!CommitWrite(w) <=> RefundProofs!CommitWrite(w)
  BY DEF Refunds!CommitWrite, RefundProofs!CommitWrite, Refunds!StillPending,
     RefundProofs!StillPending, Refunds!couponVars, RefundProofs!couponVars,
     Refunds!refundVars, RefundProofs!refundVars, Refunds!eventVars, RefundProofs!eventVars
<1>9. \A w \in Workers : Refunds!ReleaseWrite(w) <=> RefundProofs!ReleaseWrite(w)
  BY DEF Refunds!ReleaseWrite, RefundProofs!ReleaseWrite, Refunds!StillPending,
     RefundProofs!StillPending, Refunds!DecrementUsage, RefundProofs!DecrementUsage,
     Refunds!refundVars, RefundProofs!refundVars, Refunds!eventVars, RefundProofs!eventVars
<1>10. \A w \in Workers, r \in Refunds!Reservations : Refunds!ReleaseLoad(w, r) <=> RefundProofs!ReleaseLoad(w, r)
  BY DEF Refunds!ReleaseLoad, RefundProofs!ReleaseLoad, Refunds!couponVars,
     RefundProofs!couponVars, Refunds!reservationVars, RefundProofs!reservationVars,
     Refunds!refundVars, RefundProofs!refundVars, Refunds!eventVars, RefundProofs!eventVars
<1>11. \A r \in Refunds!Reservations, i \in Refunds!Positions : Refunds!OrderCancelled(r, i) <=> RefundProofs!OrderCancelled(r, i)
  BY DEF Refunds!OrderCancelled, RefundProofs!OrderCancelled, Refunds!Stamped,
     RefundProofs!Stamped, Refunds!Positions, RefundProofs!Positions, Refunds!couponVars,
     RefundProofs!couponVars, Refunds!reservationVars, RefundProofs!reservationVars,
     Refunds!refundVars, RefundProofs!refundVars, Refunds!workerVars,
     RefundProofs!workerVars
<1>12. \A r \in Refunds!Reservations, i \in Refunds!Positions : Refunds!RefundSkipped(r, i) <=> RefundProofs!RefundSkipped(r, i)
  BY DEF Refunds!RefundSkipped, RefundProofs!RefundSkipped, Refunds!HasRedemption,
     RefundProofs!HasRedemption, Refunds!Committed, RefundProofs!Committed,
     Refunds!Acknowledge, RefundProofs!Acknowledge, Refunds!couponVars,
     RefundProofs!couponVars, Refunds!reservationVars, RefundProofs!reservationVars,
     Refunds!refundVars, RefundProofs!refundVars, Refunds!workerVars,
     RefundProofs!workerVars
<1>13. \A r \in Refunds!Reservations, i \in Refunds!Positions : Refunds!RefundRedemption(r, i) <=> RefundProofs!RefundRedemption(r, i)
  BY DEF Refunds!RefundRedemption, RefundProofs!RefundRedemption, Refunds!HasRedemption,
     RefundProofs!HasRedemption, Refunds!Committed, RefundProofs!Committed,
     Refunds!FirstRefund, RefundProofs!FirstRefund, Refunds!PlusShare,
     RefundProofs!PlusShare, Refunds!Lower, RefundProofs!Lower, Refunds!DecrementUsage,
     RefundProofs!DecrementUsage, Refunds!Acknowledge, RefundProofs!Acknowledge,
     Refunds!reservationVars, RefundProofs!reservationVars, Refunds!workerVars,
     RefundProofs!workerVars
<1>14. \A l \in Limits : Refunds!UpdateCoupon(l) <=> RefundProofs!UpdateCoupon(l)
  BY DEF Refunds!UpdateCoupon, RefundProofs!UpdateCoupon, Refunds!reservationVars,
     RefundProofs!reservationVars, Refunds!refundVars, RefundProofs!refundVars,
     Refunds!eventVars, RefundProofs!eventVars, Refunds!workerVars, RefundProofs!workerVars
<1>15. Refunds!RevokeCoupon <=> RefundProofs!RevokeCoupon
  BY DEF Refunds!RevokeCoupon, RefundProofs!RevokeCoupon, Refunds!reservationVars,
     RefundProofs!reservationVars, Refunds!refundVars, RefundProofs!refundVars,
     Refunds!eventVars, RefundProofs!eventVars, Refunds!workerVars, RefundProofs!workerVars
<1>16. Refunds!Reservations = RefundProofs!Reservations /\ Refunds!Positions = RefundProofs!Positions
  BY DEF Refunds!Reservations, RefundProofs!Reservations, Refunds!Positions,
     RefundProofs!Positions
<1>17. Refunds!Next <=> RefundProofs!Next
  BY <1>3, <1>4, <1>5, <1>6, <1>7, <1>8, <1>9, <1>10, <1>11, <1>12, <1>13, <1>14, <1>15,
     <1>16 DEF Refunds!Next, RefundProofs!Next, Refunds!Call, RefundProofs!Call,
     Refunds!Deliver, RefundProofs!Deliver
<1> QED
  BY <1>1, <1>17

LEMMA SameProperties ==
  /\ RefundProofs!UsageCountsSeats => Refunds!UsageCountsSeats
  /\ RefundProofs!NotOversold => Refunds!NotOversold
  /\ RefundProofs!OneRedemptionPerCart => Refunds!OneRedemptionPerCart
  /\ RefundProofs!RefundsAddUp => Refunds!RefundsAddUp
  /\ RefundProofs!CarriedCancelIsRefunded => Refunds!CarriedCancelIsRefunded
<1>1. RefundProofs!UsageCountsSeats => Refunds!UsageCountsSeats
  BY DEF RefundProofs!UsageCountsSeats, Refunds!UsageCountsSeats, RefundProofs!Holding,
         Refunds!Holding, RefundProofs!Reservations, Refunds!Reservations,
         RefundProofs!Cardinality, Refunds!Cardinality
<1>2. RefundProofs!NotOversold => Refunds!NotOversold
  BY DEF RefundProofs!NotOversold, Refunds!NotOversold
<1>3. RefundProofs!OneRedemptionPerCart => Refunds!OneRedemptionPerCart
  BY DEF RefundProofs!OneRedemptionPerCart, Refunds!OneRedemptionPerCart,
         RefundProofs!Reservations, Refunds!Reservations, RefundProofs!Cardinality, Refunds!Cardinality
<1>4. RefundProofs!RefundsAddUp => Refunds!RefundsAddUp
  <2>1. \A r \in Refunds!Reservations : RefundProofs!RefundedShares(r) = Refunds!RefundedShares(r)
    BY DEF RefundProofs!RefundedShares, Refunds!RefundedShares, RefundProofs!Positions,
           Refunds!Positions, RefundProofs!Total, Refunds!Total
  <2> QED
    BY <2>1 DEF RefundProofs!RefundsAddUp, Refunds!RefundsAddUp, RefundProofs!Reservations,
                Refunds!Reservations, RefundProofs!Lower, Refunds!Lower
<1>5. RefundProofs!CarriedCancelIsRefunded => Refunds!CarriedCancelIsRefunded
  BY DEF RefundProofs!CarriedCancelIsRefunded, Refunds!CarriedCancelIsRefunded
<1> QED
  BY <1>1, <1>2, <1>3, <1>4, <1>5

\* The assumption the instance inherits.
LEMMA RefundAssumption ==
  /\ 1 \in Nat \ {0} /\ 3 \in Nat \ {0}
  /\ Discount \in Nat \ {0} /\ <<1, 1, 1>> \in [RefundProofs!Positions -> Nat]
  /\ Limits \subseteq Nat /\ Limits # {} /\ 0 \in Nat
  /\ 2 \in Nat
  BY CouponAssumption DEF RefundProofs!Positions

\* What is promised of the coupon in focus, whichever instance it is.
CouponInv ==
  /\ instance = "seats" => SeatsInv /\ NotOversold /\ RefundsAddUp
  /\ instance = "refunds" => /\ RefundProofs!SeatsInv /\ RefundProofs!NotOversold
                             /\ RefundProofs!RefundsAddUp

LEMMA CouponInvInit == MCInit => CouponInv
<1> SUFFICES ASSUME MCInit PROVE CouponInv
  OBVIOUS
<1>1. instance = "seats" => Init
  BY DEF MCInit
<1>2. instance = "refunds" => RefundProofs!Init
  BY SameModule DEF MCInit
<1>3. Init => SeatsInv /\ NotOversold /\ RefundsAddUp
  BY SeatsInit, LimitInit, RefundsInit
<1>4. RefundProofs!Init => RefundProofs!SeatsInv
  BY RefundProofs!SeatsInit, RefundAssumption
<1>5. RefundProofs!Init => RefundProofs!NotOversold
  BY RefundProofs!LimitInit, RefundAssumption
<1>6. RefundProofs!Init => RefundProofs!RefundsAddUp
  BY RefundProofs!RefundsInit, RefundAssumption
<1> QED
  BY <1>1, <1>2, <1>3, <1>4, <1>5, <1>6 DEF CouponInv

\* A step of the module in which the instances take turns is one of the instance.
LEMMA InstanceStep ==
  ASSUME [MCNext]_<<vars, instance, pointsOnly>>
  PROVE  /\ instance' = instance
         /\ instance = "seats" => [Next]_vars
         /\ instance = "refunds" => [RefundProofs!Next]_(RefundProofs!vars)
<1>1. CASE MCNext
  BY <1>1, SameModule DEF MCNext
<1>2. CASE UNCHANGED <<vars, instance, pointsOnly>>
  <2>1. UNCHANGED RefundProofs!vars
    BY <1>2 DEF vars, couponVars, reservationVars, refundVars, eventVars, workerVars,
                RefundProofs!vars, RefundProofs!couponVars, RefundProofs!reservationVars,
                RefundProofs!refundVars, RefundProofs!eventVars, RefundProofs!workerVars
  <2> QED
    BY <1>2, <2>1
<1> QED
  BY <1>1, <1>2

LEMMA CouponInvNext ==
  ASSUME CouponInv, [MCNext]_<<vars, instance, pointsOnly>> PROVE CouponInv'
<1>1. SeatsInv /\ NotOversold /\ RefundsAddUp /\ [Next]_vars
        => SeatsInv' /\ NotOversold' /\ RefundsAddUp'
  BY SeatsNext, LimitNext, RefundsNext DEF SeatsInv
<1>2. RefundProofs!SeatsInv /\ [RefundProofs!Next]_(RefundProofs!vars) => RefundProofs!SeatsInv'
  BY RefundProofs!SeatsNext, RefundAssumption
<1>3. RefundProofs!SeatsInv /\ RefundProofs!NotOversold /\ [RefundProofs!Next]_(RefundProofs!vars)
        => RefundProofs!NotOversold'
  BY RefundProofs!LimitNext, RefundAssumption
<1>4. RefundProofs!SeatsInv /\ RefundProofs!RefundsAddUp /\ [RefundProofs!Next]_(RefundProofs!vars)
        => RefundProofs!RefundsAddUp'
  <2>1. RefundProofs!SeatsInv => RefundProofs!TypeOK
    BY DEF RefundProofs!SeatsInv
  <2> QED
    BY <2>1, RefundProofs!RefundsNext, RefundAssumption
<1> QED
  BY <1>1, <1>2, <1>3, <1>4, InstanceStep DEF CouponInv

\* coupon-svc: usage_count is exactly the seats held, in both instances of the run.
THEOREM SeatsCountedInTurn == MCSpec => []SeatsAreCounted
<1>1. CouponInv => SeatsAreCounted
  BY SameProperties DEF CouponInv, SeatsInv, RefundProofs!SeatsInv, SeatsAreCounted, Holds
<1> QED
  BY <1>1, CouponInvInit, CouponInvNext, PTL DEF MCSpec

\* coupon-svc: the coupon is oversold only where its limit was lowered below the count.
THEOREM SeatsNotOversoldInTurn == MCSpec => []SeatsNotOversold
<1>1. CouponInv => SeatsNotOversold
  BY SameProperties DEF CouponInv, SeatsNotOversold, Holds
<1> QED
  BY <1>1, CouponInvInit, CouponInvNext, PTL DEF MCSpec

\* coupon-svc: every cart is redeemed once or not, however its orders commit.
THEOREM CartsRedeemOnceInTurn == MCSpec => []CartsRedeemOnce
<1>1. RefundProofs!SeatsInv => RefundProofs!OneRedemptionPerCart
  BY RefundProofs!RedeemedOnce, RefundAssumption
<1>2. CouponInv => CartsRedeemOnce
  BY <1>1, RedeemedOnce, SameProperties DEF CouponInv, CartsRedeemOnce, Holds
<1> QED
  BY <1>2, CouponInvInit, CouponInvNext, PTL DEF MCSpec

\* coupon-svc: what was given back is the sum of the cancelled orders' shares.
THEOREM PartialRefundsAddUpInTurn == MCSpec => []PartialRefundsAddUp
<1>1. CouponInv => PartialRefundsAddUp
  BY SameProperties DEF CouponInv, PartialRefundsAddUp, Holds
<1> QED
  BY <1>1, CouponInvInit, CouponInvNext, PTL DEF MCSpec

\* coupon-svc: where order.cancelled carries the coupon, which it does not today, it is
\* acknowledged only with its share refunded, or when the cart had no redemption.
THEOREM CarriedCancelsAreRefundedInTurn == MCSpec => []CarriedCancelsAreRefunded
<1> DEFINE I == /\ instance = "seats" => CarriedCancelIsRefunded
                /\ instance = "refunds" => RefundProofs!CarriedCancelIsRefunded
<1>1. MCInit => I
  <2>1. RefundProofs!Init => RefundProofs!CarriedCancelIsRefunded
    BY RefundProofs!AckInit, RefundAssumption
  <2> QED
    BY <2>1, AckInit, SameModule DEF MCInit
<1>2. I /\ [MCNext]_<<vars, instance, pointsOnly>> => I'
  <2>1. RefundProofs!CarriedCancelIsRefunded /\ [RefundProofs!Next]_(RefundProofs!vars)
          => RefundProofs!CarriedCancelIsRefunded'
    BY RefundProofs!AckNext, RefundAssumption
  <2> QED
    BY <2>1, AckNext, InstanceStep
<1>3. I => CarriedCancelsAreRefunded
  BY SameProperties DEF CarriedCancelsAreRefunded, Holds
<1> QED
  BY <1>1, <1>2, <1>3, PTL DEF MCSpec

-----------------------------------------------------------------------------
(***************************************************************************)
(* loyalty-svc: the sums that SumTo computes                                *)
(***************************************************************************)

\* The function inside SumTo.
SumsOf(f, n) == CHOOSE sum : sum = [i \in 0..n |-> IF i = 0 THEN 0 ELSE sum[i - 1] + f[i]]

LEMMA SumToIs == ASSUME NEW f, NEW n PROVE Points!SumTo(f, n) = SumsOf(f, n)[n]
  BY Zenon DEF Points!SumTo, SumsOf

\* SumTo adds up what it is given, term by term.
LEMMA SumToAddsUp ==
  ASSUME NEW N \in Nat, NEW f, \A i \in 1..N : f[i] \in Int
  PROVE  /\ \A n \in 0..N : Points!SumTo(f, n) \in Int
         /\ Points!SumTo(f, 0) = 0
         /\ \A n \in 1..N : Points!SumTo(f, n) = Points!SumTo(f, n - 1) + f[n]
         /\ \A i \in 0..N : SumsOf(f, N)[i] = Points!SumTo(f, i)
<1> DEFINE s == [i \in 1..N |-> f[i]]
<1>1. PICK g \in [0..N -> Int] : SumsUp(g, N, s)
  <2>1. s \in [1..N -> Int]
    OBVIOUS
  <2> HIDE DEF s
  <2> QED
    BY <2>1, SumsExist
<1>2. g[0] = 0 /\ \A i \in 1..N : g[i] = g[i - 1] + f[i]
  BY <1>1 DEF SumsUp
<1>3. ASSUME NEW n \in 0..N
      PROVE  Points!SumTo(f, n) = g[n] /\ \A i \in 0..n : SumsOf(f, n)[i] = g[i]
  <2> DEFINE h == [i \in 0..n |-> g[i]]
             p == SumsOf(f, n)
  <2>1. h = [i \in 0..n |-> IF i = 0 THEN 0 ELSE h[i - 1] + f[i]]
    BY <1>2
  <2>2. p = [i \in 0..n |-> IF i = 0 THEN 0 ELSE p[i - 1] + f[i]]
    BY <2>1, Zenon DEF SumsOf
  <2> DEFINE T == {i \in 0..n : p[i] = g[i]}
  <2> HIDE DEF p
  <2>3. 0 \in T
    BY <1>2, <2>2
  <2>4. ASSUME NEW i \in 1..n, i - 1 \in T PROVE i \in T
    BY <1>2, <2>2, <2>4
  <2>5. T = 0..n
    <3>1. T \in SUBSET (0..n)
      OBVIOUS
    <3> HIDE DEF T
    <3> QED
      BY <2>3, <2>4, <3>1, Upto
  <2>6. \A i \in 0..n : p[i] = g[i]
    BY <2>5
  <2> QED
    BY <2>6, SumToIs DEF p
<1>4. \A i \in 0..N : SumsOf(f, N)[i] = g[i]
  BY <1>3
<1> QED
  BY <1>2, <1>3, <1>4

\* A sum depends on the terms it has.
LEMMA SumToAgrees ==
  ASSUME NEW N \in Nat, NEW f, NEW h, \A i \in 1..N : f[i] \in Int /\ h[i] = f[i]
  PROVE  \A n \in 0..N : Points!SumTo(h, n) = Points!SumTo(f, n)
<1> DEFINE T == {n \in 0..N : Points!SumTo(h, n) = Points!SumTo(f, n)}
<1>1. 0 \in T
  BY SumToAddsUp
<1>2. ASSUME NEW n \in 1..N, n - 1 \in T PROVE n \in T
  <2>1. Points!SumTo(f, n) = Points!SumTo(f, n - 1) + f[n]
    BY SumToAddsUp
  <2>2. Points!SumTo(h, n) = Points!SumTo(h, n - 1) + h[n]
    BY SumToAddsUp
  <2> QED
    BY <1>2, <2>1, <2>2
<1>3. T = 0..N
  <2>1. T \in SUBSET (0..N)
    OBVIOUS
  <2> HIDE DEF T
  <2> QED
    BY <1>1, <1>2, <2>1, Upto
<1> QED
  BY <1>3

-----------------------------------------------------------------------------
(***************************************************************************)
(* loyalty-svc: a ledger with one row more                                  *)
(***************************************************************************)

\* Rows of a ledger, as AmountsOf and SumOf look at a ledger that is given.
Key       == PointOrders \cup Nat
LedgerRow == [type : Points!RowTypes, key : Key, amount : Int, after : Int]

AmountsOf(l, types) == [i \in DOMAIN l |-> IF l[i].type \in types THEN l[i].amount ELSE 0]
SumOf(l, types, n)  == Points!SumTo(AmountsOf(l, types), n)

Earns == {"earn", "reverse_earn"}

\* l tells a balance and the two lifetime counters.
Explains(l, b, earned, redeemed) ==
  /\ \A i \in 1..Len(l) : l[i].after = SumOf(l, Points!RowTypes, i)
  /\ b = SumOf(l, Points!RowTypes, Len(l))
  /\ earned = SumOf(l, Earns, Len(l))
  /\ redeemed = -SumOf(l, {"redeem"}, Len(l))

LEMMA SumOfType ==
  ASSUME NEW l \in Seq(LedgerRow), NEW types
  PROVE  /\ \A i \in 1..Len(l) : AmountsOf(l, types)[i] \in Int
         /\ \A n \in 0..Len(l) : SumOf(l, types, n) \in Int
         /\ SumOf(l, types, Len(l)) \in Int
<1>1. ASSUME NEW i \in 1..Len(l) PROVE AmountsOf(l, types)[i] \in Int
  <2>1. i \in DOMAIN l /\ l[i] \in LedgerRow
    OBVIOUS
  <2>2. l[i].amount \in Int
    BY <2>1 DEF LedgerRow
  <2> QED
    BY <2>1, <2>2 DEF AmountsOf
<1>2. Len(l) \in Nat
  OBVIOUS
<1>3. \A n \in 0..Len(l) : SumOf(l, types, n) \in Int
  BY <1>1, <1>2, SumToAddsUp DEF SumOf
<1>4. Len(l) \in 0..Len(l)
  BY <1>2
<1> QED
  BY <1>1, <1>3, <1>4

LEMMA SumOfOneMore ==
  ASSUME NEW l \in Seq(LedgerRow), NEW row \in LedgerRow, NEW types
  PROVE  /\ \A n \in 0..Len(l) : SumOf(Append(l, row), types, n) = SumOf(l, types, n)
         /\ SumOf(Append(l, row), types, Len(l) + 1)
              = SumOf(l, types, Len(l)) + (IF row.type \in types THEN row.amount ELSE 0)
<1> DEFINE m == Append(l, row)
           f == AmountsOf(l, types)
           h == AmountsOf(m, types)
<1>1. m \in Seq(LedgerRow) /\ Len(m) = Len(l) + 1 /\ Len(l) \in Nat
  OBVIOUS
<1>2. \A i \in 1..Len(l) : f[i] \in Int /\ h[i] = f[i]
  <2>1. \A i \in 1..Len(l) : f[i] \in Int
    BY SumOfType
  <2>2. ASSUME NEW i \in 1..Len(l) PROVE h[i] = f[i]
    BY DEF AmountsOf
  <2> QED
    BY <2>1, <2>2
<1>3. h[Len(l) + 1] = IF row.type \in types THEN row.amount ELSE 0
  BY DEF AmountsOf
<1>4. \A i \in 1..Len(m) : h[i] \in Int
  BY <1>1, SumOfType
<1> HIDE DEF f, h, m
<1>5. \A n \in 0..Len(l) : Points!SumTo(h, n) = Points!SumTo(f, n)
  BY <1>1, <1>2, SumToAgrees
<1>6. Points!SumTo(h, Len(l) + 1) = Points!SumTo(h, Len(l)) + h[Len(l) + 1]
  <2>1. Len(l) + 1 \in 1..Len(m) /\ Len(m) \in Nat
    BY <1>1
  <2>2. \A n \in 1..Len(m) : Points!SumTo(h, n) = Points!SumTo(h, n - 1) + h[n]
    BY <1>4, <2>1, SumToAddsUp
  <2>3. Len(l) + 1 - 1 = Len(l)
    BY <1>1
  <2> QED
    BY <2>1, <2>2, <2>3
<1>7. Len(l) \in 0..Len(l)
  BY <1>1
<1> QED
  BY <1>3, <1>5, <1>6, <1>7 DEF SumOf, f, h, m

\* A ledger goes on telling the account when a row with its running balance is added.
LEMMA ExplainsOneMore ==
  ASSUME NEW l \in Seq(LedgerRow), NEW b, NEW earned, NEW redeemed,
         Explains(l, b, earned, redeemed),
         NEW row \in LedgerRow, row.after = b + row.amount
  PROVE  /\ Append(l, row) \in Seq(LedgerRow)
         /\ Explains(Append(l, row), b + row.amount,
                     earned + (IF row.type \in Earns THEN row.amount ELSE 0),
                     redeemed - (IF row.type = "redeem" THEN row.amount ELSE 0))
<1> DEFINE m == Append(l, row)
<1>1. /\ m \in Seq(LedgerRow) /\ Len(m) = Len(l) + 1 /\ Len(l) \in Nat
      /\ \A i \in 1..Len(l) : m[i] = l[i]
      /\ m[Len(l) + 1] = row
  OBVIOUS
<1>2. /\ \A n \in 0..Len(l) : SumOf(m, Points!RowTypes, n) = SumOf(l, Points!RowTypes, n)
      /\ SumOf(m, Points!RowTypes, Len(l) + 1) = SumOf(l, Points!RowTypes, Len(l)) + row.amount
  <2>1. row.type \in Points!RowTypes
    BY DEF LedgerRow
  <2> QED
    BY <2>1, SumOfOneMore
<1>3. SumOf(m, Earns, Len(l) + 1)
        = SumOf(l, Earns, Len(l)) + (IF row.type \in Earns THEN row.amount ELSE 0)
  BY SumOfOneMore
<1>4. SumOf(m, {"redeem"}, Len(l) + 1)
        = SumOf(l, {"redeem"}, Len(l)) + (IF row.type \in {"redeem"} THEN row.amount ELSE 0)
  BY SumOfOneMore
<1>5. SumOf(l, {"redeem"}, Len(l)) \in Int /\ row.amount \in Int
  <2>1. row.amount \in Int
    BY DEF LedgerRow
  <2> QED
    BY <2>1, SumOfType
<1> HIDE DEF m
<1>6. -SumOf(m, {"redeem"}, Len(l) + 1) = redeemed - (IF row.type = "redeem" THEN row.amount ELSE 0)
  BY <1>4, <1>5 DEF Explains
<1>7. ASSUME NEW i \in 1..(Len(l) + 1) PROVE m[i].after = SumOf(m, Points!RowTypes, i)
  BY <1>1, <1>2 DEF Explains
<1> QED
  BY <1>1, <1>2, <1>3, <1>6, <1>7 DEF Explains, m

LEMMA ExplainsNothing == Explains(<<>>, 0, 0, 0)
<1>1. <<>> \in Seq(LedgerRow) /\ Len(<<>>) = 0
  OBVIOUS
<1>2. \A types : SumOf(<<>>, types, 0) = 0
  <2> SUFFICES ASSUME NEW types PROVE SumOf(<<>>, types, 0) = 0
    OBVIOUS
  <2>1. \A i \in 1..0 : AmountsOf(<<>>, types)[i] \in Int
    OBVIOUS
  <2> QED
    BY <2>1, SumToAddsUp DEF SumOf
<1> QED
  BY <1>1, <1>2 DEF Explains

\* What an explained balance and its counters are.
LEMMA ExplainsType ==
  ASSUME NEW l \in Seq(LedgerRow), NEW b, NEW earned, NEW redeemed,
         Explains(l, b, earned, redeemed)
  PROVE  b \in Int /\ earned \in Int /\ redeemed \in Int
<1>1. \A types : SumOf(l, types, Len(l)) \in Int
  BY SumOfType
<1> QED
  BY <1>1 DEF Explains

-----------------------------------------------------------------------------
(***************************************************************************)
(* loyalty-svc: the keys of the rows                                        *)
(***************************************************************************)

RowIn(l, type, key) == \E i \in DOMAIN l : l[i].type = type /\ l[i].key = key

\* No two rows have the same key and type; an adjustment has its index as its key.
Keyed(l) ==
  /\ \A i, j \in DOMAIN l : l[i].type = l[j].type /\ l[i].key = l[j].key => i = j
  /\ \A i \in DOMAIN l : l[i].type = "adjust" => l[i].key = i

LEMMA RowInOneMore ==
  ASSUME NEW l \in Seq(LedgerRow), NEW row \in LedgerRow
  PROVE  \A type, key : RowIn(Append(l, row), type, key) <=>
                          RowIn(l, type, key) \/ (row.type = type /\ row.key = key)
<1> DEFINE m == Append(l, row)
<1>1. /\ DOMAIN m = 1..(Len(l) + 1) /\ DOMAIN l = 1..Len(l) /\ Len(l) \in Nat
      /\ \A i \in 1..Len(l) : m[i] = l[i]
      /\ m[Len(l) + 1] = row
  OBVIOUS
<1> HIDE DEF m
<1>2. ASSUME NEW type, NEW key, RowIn(l, type, key) PROVE RowIn(m, type, key)
  BY <1>1, <1>2 DEF RowIn
<1>3. ASSUME NEW type, NEW key, row.type = type, row.key = key PROVE RowIn(m, type, key)
  BY <1>1, <1>3 DEF RowIn
<1>4. ASSUME NEW type, NEW key, RowIn(m, type, key)
      PROVE  RowIn(l, type, key) \/ (row.type = type /\ row.key = key)
  <2>1. PICK i \in 1..(Len(l) + 1) : m[i].type = type /\ m[i].key = key
    BY <1>1, <1>4 DEF RowIn
  <2>2. CASE i = Len(l) + 1
    BY <1>1, <2>1, <2>2
  <2>3. CASE i \in 1..Len(l)
    BY <1>1, <2>1, <2>3 DEF RowIn
  <2> QED
    BY <1>1, <2>2, <2>3
<1> QED
  BY <1>2, <1>3, <1>4 DEF m

LEMMA KeyedOneMore ==
  ASSUME NEW l \in Seq(LedgerRow), NEW row \in LedgerRow, Keyed(l),
         ~RowIn(l, row.type, row.key), row.type = "adjust" => row.key = Len(l) + 1
  PROVE  Keyed(Append(l, row))
<1> DEFINE m == Append(l, row)
<1>1. /\ DOMAIN m = 1..(Len(l) + 1) /\ DOMAIN l = 1..Len(l) /\ Len(l) \in Nat
      /\ \A i \in 1..Len(l) : m[i] = l[i]
      /\ m[Len(l) + 1] = row
  OBVIOUS
<1> HIDE DEF m
<1>2. \A i \in 1..Len(l) : ~(m[i].type = row.type /\ m[i].key = row.key)
  BY <1>1 DEF RowIn
<1>3. ASSUME NEW i \in DOMAIN m, NEW j \in DOMAIN m, m[i].type = m[j].type, m[i].key = m[j].key
      PROVE  i = j
  <2>1. CASE i \in 1..Len(l) /\ j \in 1..Len(l)
    BY <1>1, <1>3, <2>1 DEF Keyed
  <2>2. CASE i = Len(l) + 1 /\ j \in 1..Len(l)
    BY <1>1, <1>2, <1>3, <2>2
  <2>3. CASE j = Len(l) + 1 /\ i \in 1..Len(l)
    BY <1>1, <1>2, <1>3, <2>3
  <2> QED
    BY <1>1, <2>1, <2>2, <2>3
<1>4. ASSUME NEW i \in DOMAIN m, m[i].type = "adjust" PROVE m[i].key = i
  BY <1>1, <1>4 DEF Keyed
<1> QED
  BY <1>3, <1>4 DEF Keyed, m

-----------------------------------------------------------------------------
(***************************************************************************)
(* loyalty-svc: the replay of the ledger                                    *)
(***************************************************************************)

\* The replay of a ledger that is given: what Buckets, its step and Consume compute.
ConsumeOf(l, left, amount) ==
  LET before == SumsOf(left, Len(l))
      due(i) == IF amount > before[i - 1] THEN amount - before[i - 1] ELSE 0
  IN [i \in DOMAIN l |-> IF due(i) > left[i] THEN 0 ELSE left[i] - due(i)]
ReplayedOf(l, left, k) ==
  LET row == l[k]
  IN CASE row.type = "earn"   -> [left EXCEPT ![k] = row.amount]
       [] row.type = "expire" -> Points!ExpireRow(left, row)
       [] OTHER -> IF row.amount < 0 THEN ConsumeOf(l, left, -row.amount) ELSE left
WalkOf(l) ==
  CHOOSE walk : walk = [k \in 0..Len(l) |-> IF k = 0 THEN [i \in DOMAIN l |-> 0]
                                            ELSE ReplayedOf(l, walk[k - 1], k)]
BucketsOf(l) == WalkOf(l)[Len(l)]

LEMMA BucketsAre == Points!Buckets = BucketsOf(ledger)
  BY Zenon DEF Points!Buckets, Points!Consume, BucketsOf, WalkOf, ReplayedOf, ConsumeOf, SumsOf

LEMMA ConsumeOfIs ==
  ASSUME NEW l \in Seq(LedgerRow), NEW left \in [DOMAIN l -> Int], NEW amount \in Int
  PROVE  LET due(i) == IF amount > Points!SumTo(left, i - 1)
                         THEN amount - Points!SumTo(left, i - 1) ELSE 0
         IN /\ \A i \in DOMAIN l : due(i) \in Nat
            /\ ConsumeOf(l, left, amount)
                 = [i \in DOMAIN l |-> IF due(i) > left[i] THEN 0 ELSE left[i] - due(i)]
            /\ ConsumeOf(l, left, amount) \in [DOMAIN l -> Int]
<1> DEFINE before == SumsOf(left, Len(l))
           due(i) == IF amount > Points!SumTo(left, i - 1)
                       THEN amount - Points!SumTo(left, i - 1) ELSE 0
<1>1. Len(l) \in Nat /\ DOMAIN l = 1..Len(l)
  OBVIOUS
<1>2. \A i \in 0..Len(l) : before[i] = Points!SumTo(left, i) /\ Points!SumTo(left, i) \in Int
  BY <1>1, SumToAddsUp
<1> HIDE DEF before
<1>3. \A i \in DOMAIN l : /\ before[i - 1] = Points!SumTo(left, i - 1)
                          /\ Points!SumTo(left, i - 1) \in Int
  BY <1>1, <1>2
<1>4. \A i \in DOMAIN l : due(i) \in Nat
  BY <1>3
<1>5. ConsumeOf(l, left, amount)
        = [i \in DOMAIN l |-> IF due(i) > left[i] THEN 0 ELSE left[i] - due(i)]
  BY <1>3 DEF ConsumeOf, before
<1> HIDE DEF due
<1>6. ConsumeOf(l, left, amount) \in [DOMAIN l -> Int]
  BY <1>4, <1>5
<1> QED
  BY <1>4, <1>5, <1>6 DEF due

\* What an expire row does to the bucket it names.
LEMMA ExpireRowIs ==
  ASSUME NEW D, NEW left \in [D -> Int], NEW row \in LedgerRow
  PROVE  LET rest == left[row.key] + row.amount
         IN /\ Points!ExpireRow(left, row) \in [D -> Int]
            /\ row.key \notin D => Points!ExpireRow(left, row) = left
            /\ row.key \in D => Points!ExpireRow(left, row)
                                  = [left EXCEPT ![row.key] = IF rest < 0 THEN 0 ELSE rest]
<1> DEFINE rest == left[row.key] + row.amount
           v == IF rest < 0 THEN 0 ELSE rest
<1>1. row.amount \in Int
  BY DEF LedgerRow
<1>2. Points!ExpireRow(left, row) = [left EXCEPT ![row.key] = v]
  BY DEF Points!ExpireRow
<1>3. CASE row.key \in D
  <2>1. left[row.key] \in Int
    BY <1>3
  <2>2. v \in Int
    BY <1>1, <2>1
  <2> HIDE DEF v
  <2>3. [left EXCEPT ![row.key] = v] \in [D -> Int]
    BY <2>2
  <2> QED
    BY <1>2, <1>3, <2>3 DEF v
<1>4. CASE row.key \notin D
  <2> HIDE DEF v
  <2>1. [left EXCEPT ![row.key] = v] = left
    BY <1>4
  <2>2. Points!ExpireRow(left, row) = left
    BY <1>2, <2>1
  <2> QED
    BY <1>4, <2>2
<1> QED
  BY <1>3, <1>4

LEMMA ReplayedType ==
  ASSUME NEW l \in Seq(LedgerRow), NEW left \in [DOMAIN l -> Int], NEW k \in DOMAIN l
  PROVE  ReplayedOf(l, left, k) \in [DOMAIN l -> Int]
<1>1. l[k] \in LedgerRow
  OBVIOUS
<1>2. l[k].amount \in Int
  BY <1>1 DEF LedgerRow
<1>3. [left EXCEPT ![k] = l[k].amount] \in [DOMAIN l -> Int]
  BY <1>2
<1>4. Points!ExpireRow(left, l[k]) \in [DOMAIN l -> Int]
  BY <1>1, ExpireRowIs
<1>5. ConsumeOf(l, left, -l[k].amount) \in [DOMAIN l -> Int]
  <2>1. -l[k].amount \in Int
    BY <1>2
  <2> QED
    BY <2>1, ConsumeOfIs
<1> QED
  BY <1>3, <1>4, <1>5 DEF ReplayedOf

\* The replay has its equations.
LEMMA WalkSteps ==
  ASSUME NEW l \in Seq(LedgerRow)
  PROVE  /\ \A k \in 0..Len(l) : WalkOf(l)[k] \in [DOMAIN l -> Int]
         /\ WalkOf(l)[0] = [i \in DOMAIN l |-> 0]
         /\ \A k \in 1..Len(l) : WalkOf(l)[k] = ReplayedOf(l, WalkOf(l)[k - 1], k)
         /\ BucketsOf(l) \in [DOMAIN l -> Int]
<1> DEFINE S == [DOMAIN l -> Int]
           N == Len(l)
           a == [i \in DOMAIN l |-> 0]
           F == [p \in (1..N) \X S |-> ReplayedOf(l, p[2], p[1])]
           w == WalkOf(l)
<1>1. N \in Nat /\ DOMAIN l = 1..N /\ a \in S
  OBVIOUS
<1>2. F \in [(1..N) \X S -> S]
  <2>1. \A p \in (1..N) \X S : ReplayedOf(l, p[2], p[1]) \in S
    BY <1>1, ReplayedType
  <2> HIDE DEF S, N
  <2> QED
    BY <2>1
<1>3. PICK f \in [0..N -> S] : Solves(f, N, a, F)
  <2> HIDE DEF S, N, F, a
  <2> QED
    BY <1>1, <1>2, RecursionExists
<1>4. \A n \in 1..N : f[n] = ReplayedOf(l, f[n - 1], n)
  <2> SUFFICES ASSUME NEW n \in 1..N PROVE f[n] = ReplayedOf(l, f[n - 1], n)
    OBVIOUS
  <2> HIDE DEF S, N
  <2>1. n - 1 \in 0..N
    BY <1>1
  <2>2. f[n - 1] \in S
    BY <2>1
  <2>3. F[<<n, f[n - 1]>>] = ReplayedOf(l, f[n - 1], n)
    BY <2>2
  <2>4. f[n] = F[<<n, f[n - 1]>>]
    <3> HIDE DEF F, a
    <3> QED
      BY <1>3 DEF Solves
  <2> QED
    BY <2>3, <2>4
<1>5. f = [k \in 0..N |-> IF k = 0 THEN a ELSE ReplayedOf(l, f[k - 1], k)]
  <2> HIDE DEF S, a, F
  <2> QED
    BY <1>1, <1>3, <1>4 DEF Solves
<1>6. w = [k \in 0..N |-> IF k = 0 THEN a ELSE ReplayedOf(l, w[k - 1], k)]
  <2>1. \E v : v = [k \in 0..N |-> IF k = 0 THEN a ELSE ReplayedOf(l, v[k - 1], k)]
    BY <1>5
  <2> QED
    BY <2>1, Zenon DEF WalkOf
<1> HIDE DEF w
<1>7. w[0] = a /\ \A k \in 1..N : w[k] = ReplayedOf(l, w[k - 1], k)
  <2> HIDE DEF S, a
  <2> QED
    BY <1>1, <1>6
<1> DEFINE T == {k \in 0..N : w[k] \in S}
<1>8. 0 \in T
  BY <1>1, <1>7
<1>9. ASSUME NEW k \in 1..N, k - 1 \in T PROVE k \in T
  <2>1. w[k - 1] \in S /\ k \in DOMAIN l
    BY <1>1, <1>9
  <2>2. ReplayedOf(l, w[k - 1], k) \in S
    BY <2>1, ReplayedType
  <2> HIDE DEF S, N
  <2> QED
    BY <1>1, <1>7, <2>2
<1>10. T = 0..N
  <2>1. T \in SUBSET (0..N)
    OBVIOUS
  <2> HIDE DEF T, N, S
  <2> QED
    BY <1>1, <1>8, <1>9, <2>1, Upto
<1>11. \A k \in 0..N : w[k] \in S
  BY <1>10
<1>12. BucketsOf(l) \in S
  <2>1. N \in 0..N
    BY <1>1
  <2> HIDE DEF S
  <2> QED
    BY <1>11, <2>1 DEF BucketsOf, w
<1> QED
  BY <1>7, <1>11, <1>12 DEF w

LEMMA BucketsType ==
  ASSUME ledger \in Seq(LedgerRow)
  PROVE  Points!Buckets \in [DOMAIN ledger -> Int]
  BY WalkSteps, BucketsAre

-----------------------------------------------------------------------------
(***************************************************************************)
(* loyalty-svc: the rows of an expiration pass                              *)
(***************************************************************************)

\* The balance after the expire rows done, what is done at row i, and the function
\* inside ExpireRows.
After(done) == IF done = <<>> THEN balance ELSE done[Len(done)].after
Marked(done, i) ==
  IF i \in Points!ToMark
    THEN Append(done, Points!Row("expire", i, -Points!Buckets[i], After(done) - Points!Buckets[i]))
    ELSE done
Marks ==
  CHOOSE rows : rows = [i \in 0..Len(ledger) |->
    IF i = 0 THEN <<>>
    ELSE LET done == rows[i - 1]
             last == IF done = <<>> THEN balance ELSE done[Len(done)].after
         IN IF i \in Points!ToMark
              THEN Append(done, Points!Row("expire", i, -Points!Buckets[i], last - Points!Buckets[i]))
              ELSE done]

LEMMA MarkedType ==
  ASSUME ledger \in Seq(LedgerRow), balance \in Int,
         NEW done \in Seq(LedgerRow), NEW i \in 1..Len(ledger)
  PROVE  /\ After(done) \in Int /\ Points!Buckets[i] \in Int
         /\ Points!Row("expire", i, -Points!Buckets[i], After(done) - Points!Buckets[i]) \in LedgerRow
         /\ Marked(done, i) \in Seq(LedgerRow)
<1>1. Points!Buckets[i] \in Int
  BY BucketsType
<1>2. After(done) \in Int
  <2>1. CASE done # <<>>
    <3>1. done[Len(done)] \in LedgerRow
      BY <2>1
    <3> QED
      BY <2>1, <3>1 DEF After, LedgerRow
  <2> QED
    BY <2>1 DEF After
<1> DEFINE row == Points!Row("expire", i, -Points!Buckets[i], After(done) - Points!Buckets[i])
<1>3. row \in LedgerRow
  <2>1. -Points!Buckets[i] \in Int /\ After(done) - Points!Buckets[i] \in Int /\ i \in Key
    BY <1>1, <1>2 DEF Key
  <2> QED
    BY <2>1 DEF LedgerRow, Points!Row, Points!RowTypes
<1>4. Marked(done, i) = IF i \in Points!ToMark THEN Append(done, row) ELSE done
  BY DEF Marked
<1> HIDE DEF row
<1>5. Marked(done, i) \in Seq(LedgerRow)
  BY <1>3, <1>4
<1> QED
  BY <1>1, <1>2, <1>3, <1>5 DEF row

LEMMA MarksAre ==
  ASSUME ledger \in Seq(LedgerRow), balance \in Int
  PROVE  /\ Marks \in [0..Len(ledger) -> Seq(LedgerRow)]
         /\ Marks[0] = <<>>
         /\ \A i \in 1..Len(ledger) : Marks[i] = Marked(Marks[i - 1], i)
         /\ Points!ExpireRows = Marks[Len(ledger)]
<1> DEFINE S == Seq(LedgerRow)
           N == Len(ledger)
           F == [p \in (1..N) \X S |-> Marked(p[2], p[1])]
<1>1. N \in Nat /\ <<>> \in S
  OBVIOUS
<1>2. F \in [(1..N) \X S -> S]
  <2>1. \A p \in (1..N) \X S : Marked(p[2], p[1]) \in S
    BY MarkedType
  <2> HIDE DEF S, N
  <2> QED
    BY <2>1
<1>3. PICK f \in [0..N -> S] : Solves(f, N, <<>>, F)
  <2> HIDE DEF S, N, F
  <2> QED
    BY <1>1, <1>2, RecursionExists
<1>4. \A n \in 1..N : f[n] = Marked(f[n - 1], n)
  <2> SUFFICES ASSUME NEW n \in 1..N PROVE f[n] = Marked(f[n - 1], n)
    OBVIOUS
  <2> HIDE DEF S, N
  <2>1. n - 1 \in 0..N
    BY <1>1
  <2>2. f[n - 1] \in S
    BY <2>1
  <2>3. F[<<n, f[n - 1]>>] = Marked(f[n - 1], n)
    BY <2>2
  <2>4. f[n] = F[<<n, f[n - 1]>>]
    <3> HIDE DEF F
    <3> QED
      BY <1>3 DEF Solves
  <2> QED
    BY <2>3, <2>4
<1>5. f = [i \in 0..N |-> IF i = 0 THEN <<>> ELSE Marked(f[i - 1], i)]
  <2> HIDE DEF S, F
  <2> QED
    BY <1>1, <1>3, <1>4 DEF Solves
<1>6. Marks = [i \in 0..N |-> IF i = 0 THEN <<>> ELSE Marked(Marks[i - 1], i)]
  <2>1. \E w : w = [i \in 0..N |-> IF i = 0 THEN <<>> ELSE Marked(w[i - 1], i)]
    BY <1>5
  <2> QED
    BY <2>1, Zenon DEF Marks, Marked, After
<1>7. Marks[0] = <<>> /\ \A i \in 1..N : Marks[i] = Marked(Marks[i - 1], i)
  <2> HIDE DEF S
  <2> QED
    BY <1>1, <1>6
<1> DEFINE T == {i \in 0..N : Marks[i] \in S}
<1>8. 0 \in T
  BY <1>1, <1>7
<1>9. ASSUME NEW i \in 1..N, i - 1 \in T PROVE i \in T
  <2>1. Marks[i - 1] \in S
    BY <1>9
  <2>2. Marked(Marks[i - 1], i) \in S
    BY <2>1, MarkedType
  <2> HIDE DEF S, N
  <2> QED
    BY <1>1, <1>7, <2>2
<1>10. T = 0..N
  <2>1. T \in SUBSET (0..N)
    OBVIOUS
  <2> HIDE DEF T, N, S
  <2> QED
    BY <1>1, <1>8, <1>9, <2>1, Upto
<1>11. Marks \in [0..N -> S]
  <2>1. \A i \in 0..N : Marks[i] \in S
    BY <1>10
  <2> HIDE DEF S, N
  <2>2. Marks = [i \in 0..N |-> Marks[i]]
    BY <1>6
  <2> QED
    BY <2>1, <2>2
<1>12. Points!ExpireRows = Marks[N]
  BY Zenon DEF Points!ExpireRows, Marks
<1> QED
  BY <1>7, <1>11, <1>12

\* The rows of an expiration pass are told by the balance they leave.
LEMMA ExpireRowsExplain ==
  ASSUME ledger \in Seq(LedgerRow), Keyed(ledger),
         Explains(ledger, balance, lifetimeEarned, lifetimeRedeemed)
  PROVE  /\ Points!ExpireRows \in Seq(LedgerRow)
         /\ ledger \o Points!ExpireRows \in Seq(LedgerRow)
         /\ Explains(ledger \o Points!ExpireRows, After(Points!ExpireRows),
                     lifetimeEarned, lifetimeRedeemed)
         /\ Keyed(ledger \o Points!ExpireRows)
         /\ \A key : RowIn(ledger \o Points!ExpireRows, "redeem", key) <=> RowIn(ledger, "redeem", key)
<1> DEFINE N == Len(ledger)
           l(i) == ledger \o Marks[i]
           Good(i) == /\ Explains(l(i), After(Marks[i]), lifetimeEarned, lifetimeRedeemed)
                      /\ Keyed(l(i))
                      /\ \A key : RowIn(l(i), "redeem", key) <=> RowIn(ledger, "redeem", key)
                      /\ \A key : RowIn(l(i), "expire", key) =>
                                    RowIn(ledger, "expire", key) \/ key \in 1..i
           T == {i \in 0..N : Good(i)}
<1>1. balance \in Int /\ lifetimeEarned \in Int /\ lifetimeRedeemed \in Int /\ N \in Nat
  BY ExplainsType
<1>2. /\ Marks \in [0..N -> Seq(LedgerRow)] /\ Marks[0] = <<>>
      /\ \A i \in 1..N : Marks[i] = Marked(Marks[i - 1], i)
      /\ Points!ExpireRows = Marks[N]
  BY <1>1, MarksAre
<1>3. 0 \in T
  <2>1. l(0) = ledger /\ After(Marks[0]) = balance
    BY <1>2 DEF After
  <2> HIDE DEF l
  <2> QED
    BY <1>1, <2>1
<1>4. ASSUME NEW i \in 1..N, i - 1 \in T PROVE i \in T
  <2> DEFINE done == Marks[i - 1]
             left == Points!Buckets[i]
             row  == Points!Row("expire", i, -left, After(done) - left)
  <2>1. done \in Seq(LedgerRow) /\ Good(i - 1)
    BY <1>2, <1>4
  <2>2. After(done) \in Int /\ left \in Int /\ row \in LedgerRow
    BY <1>1, <2>1, MarkedType
  <2>3. CASE i \notin Points!ToMark
    <3>1. Marks[i] = done
      BY <1>2, <2>3 DEF Marked
    <3>2. l(i) = l(i - 1) /\ After(Marks[i]) = After(Marks[i - 1])
      BY <3>1
    <3>3. \A key : key \in 1..(i - 1) => key \in 1..i
      OBVIOUS
    <3> HIDE DEF l, done
    <3> QED
      BY <2>1, <3>2, <3>3
  <2>4. CASE i \in Points!ToMark
    <3>1. Marks[i] = Append(done, row)
      BY <1>2, <2>4 DEF Marked
    <3> HIDE DEF row
    <3>2. l(i) = Append(l(i - 1), row) /\ l(i - 1) \in Seq(LedgerRow)
      BY <2>1, <2>2, <3>1
    <3>3. row.type = "expire" /\ row.key = i /\ row.amount = -left /\ row.after = After(done) - left
      BY DEF row, Points!Row
    <3>4. After(Marks[i]) = row.after
      BY <2>1, <3>1 DEF After
    <3>5. row.after = After(done) + row.amount
      BY <2>2, <3>3
    <3>6. ~RowIn(l(i - 1), "expire", i)
      <4>1. ~RowIn(ledger, "expire", i)
        BY <2>4 DEF Points!ToMark, Points!HasRow, RowIn
      <4>2. i \notin 1..(i - 1)
        OBVIOUS
      <4> HIDE DEF l
      <4> QED
        BY <2>1, <4>1, <4>2
    <3> DEFINE m == l(i - 1)
    <3> HIDE DEF left, done
    <3>7. Explains(m, After(done), lifetimeEarned, lifetimeRedeemed) /\ Keyed(m)
      BY <2>1 DEF done
    <3> HIDE DEF l, m
    <3>8. m \in Seq(LedgerRow)
      BY <3>2 DEF m
    <3>9. Explains(Append(m, row), After(done) + row.amount, lifetimeEarned, lifetimeRedeemed)
      <4>1. /\ lifetimeEarned + (IF row.type \in Earns THEN row.amount ELSE 0) = lifetimeEarned
            /\ lifetimeRedeemed - (IF row.type = "redeem" THEN row.amount ELSE 0) = lifetimeRedeemed
        BY <1>1, <3>3 DEF Earns
      <4>2. Explains(Append(m, row), After(done) + row.amount,
                     lifetimeEarned + (IF row.type \in Earns THEN row.amount ELSE 0),
                     lifetimeRedeemed - (IF row.type = "redeem" THEN row.amount ELSE 0))
        BY <2>2, <3>5, <3>7, <3>8, ExplainsOneMore
      <4> QED
        BY <4>1, <4>2
    <3>10. Keyed(Append(m, row))
      BY <2>2, <3>3, <3>6, <3>7, <3>8, KeyedOneMore DEF m
    <3>11. \A type, key : RowIn(Append(m, row), type, key) <=>
                            RowIn(m, type, key) \/ (row.type = type /\ row.key = key)
      BY <2>2, <3>8, RowInOneMore
    <3>12. \A key : RowIn(m, "redeem", key) <=> RowIn(ledger, "redeem", key)
      BY <2>1 DEF m
    <3>13. \A key : RowIn(m, "expire", key) => RowIn(ledger, "expire", key) \/ key \in 1..(i - 1)
      BY <2>1 DEF m
    <3>14. \A key : RowIn(Append(m, row), "expire", key) =>
                      RowIn(ledger, "expire", key) \/ key \in 1..i
      <4>1. i \in 1..i /\ \A key : key \in 1..(i - 1) => key \in 1..i
        OBVIOUS
      <4> QED
        BY <3>3, <3>11, <3>13, <4>1
    <3>15. \A key : RowIn(Append(m, row), "redeem", key) <=> RowIn(ledger, "redeem", key)
      BY <3>3, <3>11, <3>12
    <3>16. l(i) = Append(m, row)
      BY <3>2 DEF m
    <3>17. After(Marks[i]) = After(done) + row.amount
      BY <3>4, <3>5
    <3>18. Good(i)
      BY <3>9, <3>10, <3>14, <3>15, <3>16, <3>17, Zenon
    <3> HIDE DEF Good
    <3> QED
      BY <3>18
  <2> QED
    BY <2>3, <2>4
<1>5. T = 0..N
  <2>1. T \in SUBSET (0..N)
    OBVIOUS
  <2> HIDE DEF T, N
  <2> QED
    BY <1>1, <1>3, <1>4, <2>1, Upto
<1>6. Good(N)
  <2>1. N \in T
    <3> HIDE DEF T
    <3> QED
      BY <1>1, <1>5
  <2> QED
    BY <2>1
<1>7. Marks[N] \in Seq(LedgerRow)
  BY <1>1, <1>2
<1>8. l(N) \in Seq(LedgerRow)
  BY <1>7
<1> QED
  BY <1>2, <1>6, <1>7, <1>8

-----------------------------------------------------------------------------
(***************************************************************************)
(* loyalty-svc: every transaction keeps the account                         *)
(***************************************************************************)

\* A ledger of rows with keys of their own that tells the account.
Tells(l, b, earned, redeemed) ==
  l \in Seq(LedgerRow) /\ Keyed(l) /\ Explains(l, b, earned, redeemed)

LEMMA TellsOneMore ==
  ASSUME NEW l, NEW b, NEW earned, NEW redeemed, Tells(l, b, earned, redeemed),
         NEW row \in LedgerRow, NEW b2, NEW earned2, NEW redeemed2,
         ~RowIn(l, row.type, row.key), row.type = "adjust" => row.key = Len(l) + 1,
         row.after = b2, b2 = b + row.amount,
         earned2 = earned + (IF row.type \in Earns THEN row.amount ELSE 0),
         redeemed2 = redeemed - (IF row.type = "redeem" THEN row.amount ELSE 0)
  PROVE  /\ Tells(Append(l, row), b2, earned2, redeemed2)
         /\ \A type, key : RowIn(Append(l, row), type, key) <=>
                             RowIn(l, type, key) \/ (row.type = type /\ row.key = key)
<1>1. l \in Seq(LedgerRow) /\ Keyed(l) /\ Explains(l, b, earned, redeemed)
  BY DEF Tells
<1>2. Keyed(Append(l, row))
  BY <1>1, KeyedOneMore
<1>3. Append(l, row) \in Seq(LedgerRow) /\ Explains(Append(l, row), b2, earned2, redeemed2)
  BY <1>1, ExplainsOneMore
<1> QED
  BY <1>1, <1>2, <1>3, RowInOneMore DEF Tells

\* The ledger tells the account, and points are burned for committed reservations.
AccountInv ==
  /\ Tells(ledger, balance, lifetimeEarned, lifetimeRedeemed)
  /\ \A o \in PointOrders : RowIn(ledger, "redeem", o) <=> resStatus[o] = "committed"

CancelEvents == [points : Int, earned : Int]

LoyaltyTypes ==
  /\ resStatus \in [PointOrders -> Statuses]
  /\ cancelled \in [PointOrders -> CancelEvents]
  /\ wpc \in [Workers -> CallSteps] /\ worder \in [Workers -> PointOrders]

\* pending_redemption is what the pending reservations hold.
Held       == {o \in PointOrders : resStatus[o] = "pending"}
PendingInv == pending = SumOver(Redeem, Held)

LEMMA RowsHad == \A type, key : Points!HasRow(type, key) <=> RowIn(ledger, type, key)
  BY DEF Points!HasRow, RowIn

LEMMA AccountTypes ==
  ASSUME AccountInv
  PROVE  balance \in Int /\ lifetimeEarned \in Int /\ lifetimeRedeemed \in Int
  BY ExplainsType DEF AccountInv, Tells

LEMMA LoyaltyInit == ASSUME Points!Init PROVE AccountInv /\ LoyaltyTypes /\ PendingInv
<1> USE DEF Points!Init
<1>1. Tells(ledger, balance, lifetimeEarned, lifetimeRedeemed)
  <2>1. <<>> \in Seq(LedgerRow) /\ Keyed(<<>>)
    BY DEF Keyed
  <2> QED
    BY <2>1, ExplainsNothing DEF Tells
<1>2. \A o \in PointOrders : ~RowIn(ledger, "redeem", o) /\ resStatus[o] = "none"
  BY DEF RowIn
<1>3. AccountInv
  BY <1>1, <1>2 DEF AccountInv
<1>4. LoyaltyTypes
  <2>1. (CHOOSE o \in PointOrders : TRUE) \in PointOrders
    BY PointsAssumption
  <2>2. Points!NoEvent \in CancelEvents
    BY DEF Points!NoEvent, CancelEvents
  <2> QED
    BY <2>1, <2>2 DEF LoyaltyTypes, Statuses, CallSteps
<1>5. PendingInv
  <2>1. Held = {}
    BY DEF Held
  <2> QED
    BY <2>1, SumNothing DEF PendingInv
<1> QED
  BY <1>3, <1>4, <1>5

LEMMA LoyaltyTypesNext == ASSUME LoyaltyTypes, [Points!Next]_(Points!vars) PROVE LoyaltyTypes'
<1> USE DEF LoyaltyTypes, Statuses, CallSteps
<1>1. ASSUME NEW o \in PointOrders, Points!AwardEarn(o) PROVE LoyaltyTypes'
  BY <1>1 DEF Points!AwardEarn, Points!reservationVars, Points!orderVars, Points!workerVars
<1>2. ASSUME NEW o \in PointOrders, Points!ReservePoints(o) PROVE LoyaltyTypes'
  BY <1>2 DEF Points!ReservePoints, Points!orderVars, Points!workerVars
<1>3. ASSUME NEW o \in PointOrders, Points!PaymentSucceeds(o) PROVE LoyaltyTypes'
  BY <1>3 DEF Points!PaymentSucceeds, Points!reservationVars, Points!workerVars
<1>4. ASSUME NEW o \in PointOrders, Points!ReservationLapses(o) PROVE LoyaltyTypes'
  BY <1>4 DEF Points!ReservationLapses, Points!orderVars, Points!workerVars
<1>5. ASSUME NEW o \in PointOrders, Points!OrderCancelled(o) PROVE LoyaltyTypes'
  <2> DEFINE events == {[points |-> 0, earned |-> 0],
                        [points |-> Redeem[o],
                         earned |-> IF Points!HasRow("earn", o) THEN Earn[o] ELSE 0]}
  <2>1. Redeem[o] \in Int /\ Earn[o] \in Int /\ 0 \in Int
    BY PointsAssumption
  <2>2. events \subseteq CancelEvents
    BY <2>1 DEF CancelEvents
  <2>3. PICK e \in events : cancelled' = [cancelled EXCEPT ![o] = e]
    BY <1>5 DEF Points!OrderCancelled
  <2> HIDE DEF events
  <2>4. cancelled' \in [PointOrders -> CancelEvents]
    BY <2>2, <2>3
  <2> QED
    BY <1>5, <2>4 DEF Points!OrderCancelled, Points!reservationVars, Points!workerVars
<1>6. ASSUME NEW o \in PointOrders, Points!ApplyCancellation(o) PROVE LoyaltyTypes'
  BY <1>6 DEF Points!ApplyCancellation, Points!reservationVars, Points!workerVars
<1>7. ASSUME NEW w \in Workers, NEW o \in PointOrders, Points!CommitLoad(w, o) PROVE LoyaltyTypes'
  BY <1>7 DEF Points!CommitLoad, Points!reservationVars, Points!orderVars
<1>8. ASSUME NEW w \in Workers, Points!CommitWrite(w) PROVE LoyaltyTypes'
  <2>1. resStatus' \in [PointOrders -> Statuses]
    <3>1. CASE resStatus' = [resStatus EXCEPT ![worder[w]] = "committed"]
      BY <3>1
    <3>2. CASE resStatus' = resStatus
      BY <3>2
    <3> QED
      BY <1>8, <3>1, <3>2 DEF Points!CommitWrite, Points!CommitBurn
  <2> QED
    BY <1>8, <2>1 DEF Points!CommitWrite, Points!orderVars
<1>9. ASSUME NEW w \in Workers, NEW o \in PointOrders, Points!ReleaseLoad(w, o) PROVE LoyaltyTypes'
  BY <1>9 DEF Points!ReleaseLoad, Points!reservationVars, Points!orderVars
<1>10. ASSUME NEW w \in Workers, Points!ReleaseWrite(w) PROVE LoyaltyTypes'
  BY <1>10 DEF Points!ReleaseWrite, Points!orderVars
<1>11. ASSUME Points!ExpireStaleReservations PROVE LoyaltyTypes'
  BY <1>11 DEF Points!ExpireStaleReservations, Points!orderVars, Points!workerVars
<1>12. ASSUME NEW a \in Adjustments, Points!AdjustPoints(a) PROVE LoyaltyTypes'
  BY <1>12 DEF Points!AdjustPoints, Points!reservationVars, Points!orderVars, Points!workerVars
<1>13. ASSUME NEW i \in DOMAIN ledger, Points!EarnLapses(i) PROVE LoyaltyTypes'
  BY <1>13 DEF Points!EarnLapses, Points!reservationVars, Points!orderVars, Points!workerVars
<1>14. ASSUME Points!ExpirePoints PROVE LoyaltyTypes'
  BY <1>14 DEF Points!ExpirePoints, Points!reservationVars, Points!orderVars, Points!workerVars
<1>15. CASE UNCHANGED Points!vars
  BY <1>15 DEF Points!vars, Points!reservationVars, Points!orderVars, Points!workerVars
<1> QED
  BY <1>1, <1>2, <1>3, <1>4, <1>5, <1>6, <1>7, <1>8, <1>9, <1>10, <1>11, <1>12, <1>13, <1>14,
     <1>15 DEF Points!Next, Points!Call

\* A row of an order is a row of the ledger.
LEMMA OrderRow ==
  ASSUME NEW type \in Points!RowTypes, NEW o \in PointOrders, NEW amount \in Int, NEW after \in Int
  PROVE  /\ Points!Row(type, o, amount, after) \in LedgerRow
         /\ Points!Row(type, o, amount, after).type = type
         /\ Points!Row(type, o, amount, after).key = o
         /\ Points!Row(type, o, amount, after).amount = amount
         /\ Points!Row(type, o, amount, after).after = after
  BY DEF Points!Row, LedgerRow, Key

\* The balance of an order's earn is credited once.
LEMMA AwardKeepsAccount ==
  ASSUME AccountInv, NEW o \in PointOrders, Points!AwardEarn(o) PROVE AccountInv'
<1> DEFINE row == Points!Row("earn", o, Earn[o], balance + Earn[o])
<1>1. /\ balance' = balance + Earn[o] /\ lifetimeEarned' = lifetimeEarned + Earn[o]
      /\ ledger' = Append(ledger, row) /\ lifetimeRedeemed' = lifetimeRedeemed
      /\ resStatus' = resStatus /\ ~RowIn(ledger, "earn", o)
  BY RowsHad DEF Points!AwardEarn, Points!reservationVars
<1>2. balance \in Int /\ lifetimeEarned \in Int /\ lifetimeRedeemed \in Int /\ Earn[o] \in Int
  BY AccountTypes, PointsAssumption
<1>3. /\ row \in LedgerRow /\ row.type = "earn" /\ row.key = o
      /\ row.amount = Earn[o] /\ row.after = balance + Earn[o]
  <2>1. "earn" \in Points!RowTypes /\ balance + Earn[o] \in Int
    BY <1>2 DEF Points!RowTypes
  <2> QED
    BY <1>2, <2>1, OrderRow
<1> HIDE DEF row
<1>4. /\ Tells(Append(ledger, row), balance', lifetimeEarned', lifetimeRedeemed')
      /\ \A type, key : RowIn(Append(ledger, row), type, key) <=>
                          RowIn(ledger, type, key) \/ (row.type = type /\ row.key = key)
  <2>1. "earn" \in Earns /\ "earn" # "redeem" /\ "earn" # "adjust"
    BY DEF Earns
  <2>2. Tells(ledger, balance, lifetimeEarned, lifetimeRedeemed)
    BY DEF AccountInv
  <2>3. /\ lifetimeEarned' = lifetimeEarned + (IF row.type \in Earns THEN row.amount ELSE 0)
        /\ lifetimeRedeemed' = lifetimeRedeemed - (IF row.type = "redeem" THEN row.amount ELSE 0)
    BY <1>1, <1>2, <1>3, <2>1
  <2> QED
    BY <1>1, <1>3, <2>1, <2>2, <2>3, TellsOneMore
<1> QED
  BY <1>1, <1>3, <1>4 DEF AccountInv

\* A commit burns the points it held and credits the earn of the same order.
LEMMA BurnKeepsAccount ==
  ASSUME AccountInv, LoyaltyTypes, NEW o \in PointOrders, Points!CommitBurn(o) PROVE AccountInv'
<1> DEFINE burn   == Points!Row("redeem", o, -Redeem[o], balance - Redeem[o])
           earned == IF Points!HasRow("earn", o) THEN 0 ELSE Earn[o]
           earn   == Points!Row("earn", o, earned, balance - Redeem[o] + earned)
           burned == Append(ledger, burn)
<1>1. /\ balance' = balance - Redeem[o] + earned /\ lifetimeEarned' = lifetimeEarned + earned
      /\ ledger' = IF earned = 0 THEN burned ELSE Append(burned, earn)
      /\ lifetimeRedeemed' = lifetimeRedeemed + Redeem[o]
      /\ resStatus' = [resStatus EXCEPT ![o] = "committed"]
      /\ ~RowIn(ledger, "redeem", o)
  BY RowsHad DEF Points!CommitBurn, Points!EarnBase
<1>2. /\ balance \in Int /\ lifetimeEarned \in Int /\ lifetimeRedeemed \in Int
      /\ Earn[o] \in Int /\ Redeem[o] \in Int
  BY AccountTypes, PointsAssumption
<1>3. earned \in Int /\ (earned # 0 => ~RowIn(ledger, "earn", o))
  BY <1>2, RowsHad
<1> HIDE DEF earned
<1>4. /\ burn \in LedgerRow /\ burn.type = "redeem" /\ burn.key = o
      /\ burn.amount = -Redeem[o] /\ burn.after = balance - Redeem[o]
  <2>1. "redeem" \in Points!RowTypes /\ -Redeem[o] \in Int /\ balance - Redeem[o] \in Int
    BY <1>2 DEF Points!RowTypes
  <2> QED
    BY <2>1, OrderRow
<1>5. /\ earn \in LedgerRow /\ earn.type = "earn" /\ earn.key = o
      /\ earn.amount = earned /\ earn.after = balance - Redeem[o] + earned
  <2>1. "earn" \in Points!RowTypes /\ balance - Redeem[o] + earned \in Int
    BY <1>2, <1>3 DEF Points!RowTypes
  <2> QED
    BY <1>3, <2>1, OrderRow
<1> HIDE DEF burn, earn
<1>6. /\ Tells(burned, balance - Redeem[o], lifetimeEarned, lifetimeRedeemed + Redeem[o])
      /\ \A type, key : RowIn(burned, type, key) <=>
                          RowIn(ledger, type, key) \/ (burn.type = type /\ burn.key = key)
  <2>1. "redeem" \notin Earns /\ "redeem" # "adjust"
    BY DEF Earns
  <2>2. Tells(ledger, balance, lifetimeEarned, lifetimeRedeemed)
    BY DEF AccountInv
  <2>3. /\ balance - Redeem[o] = balance + burn.amount
        /\ lifetimeEarned = lifetimeEarned + (IF burn.type \in Earns THEN burn.amount ELSE 0)
        /\ lifetimeRedeemed + Redeem[o]
             = lifetimeRedeemed - (IF burn.type = "redeem" THEN burn.amount ELSE 0)
    BY <1>2, <1>4, <2>1
  <2> QED
    BY <1>1, <1>4, <2>1, <2>2, <2>3, TellsOneMore
<1> HIDE DEF burned
<1>7. CASE earned = 0
  <2>1. ledger' = burned /\ balance' = balance - Redeem[o] /\ lifetimeEarned' = lifetimeEarned
    BY <1>1, <1>2, <1>7
  <2>2. Tells(ledger', balance', lifetimeEarned', lifetimeRedeemed')
    BY <1>1, <1>6, <2>1
  <2> QED
    BY <1>1, <1>4, <1>6, <2>1, <2>2 DEF AccountInv, LoyaltyTypes
<1>8. CASE earned # 0
  <2>1. ledger' = Append(burned, earn)
    BY <1>1, <1>8
  <2>2. "earn" \in Earns /\ "earn" # "adjust" /\ "earn" # "redeem"
    BY DEF Earns
  <2>3. ~RowIn(burned, "earn", o)
    BY <1>3, <1>4, <1>6, <1>8, <2>2
  <2>4. /\ balance' = balance - Redeem[o] + earn.amount
        /\ lifetimeEarned' = lifetimeEarned + (IF earn.type \in Earns THEN earn.amount ELSE 0)
        /\ lifetimeRedeemed'
             = lifetimeRedeemed + Redeem[o] - (IF earn.type = "redeem" THEN earn.amount ELSE 0)
    BY <1>1, <1>2, <1>5, <2>2
  <2>5. /\ Tells(Append(burned, earn), balance', lifetimeEarned', lifetimeRedeemed')
        /\ \A type, key : RowIn(Append(burned, earn), type, key) <=>
                            RowIn(burned, type, key) \/ (earn.type = type /\ earn.key = key)
    BY <1>1, <1>5, <1>6, <2>2, <2>3, <2>4, TellsOneMore
  <2>6. \A key : RowIn(Append(burned, earn), "redeem", key) <=>
                   RowIn(ledger, "redeem", key) \/ key = o
    BY <1>4, <1>5, <1>6, <2>2, <2>5
  <2> QED
    BY <1>1, <2>1, <2>5, <2>6 DEF AccountInv, LoyaltyTypes
<1> QED
  BY <1>7, <1>8

\* A cancellation gives back what was redeemed and takes back what was earned.
LEMMA CancellationKeepsAccount ==
  ASSUME AccountInv, LoyaltyTypes, NEW o \in PointOrders, Points!ApplyCancellation(o)
  PROVE  AccountInv'
<1> DEFINE refund   == IF Points!HasRow("refund", o) THEN 0 ELSE cancelled[o].points
           credited == balance + refund
           reversal == IF Points!HasRow("reverse_earn", o) THEN 0 ELSE Points!Reversal(o, credited)
           back     == Points!Row("refund", o, refund, credited)
           given    == IF refund = 0 THEN ledger ELSE Append(ledger, back)
           taken    == Points!Row("reverse_earn", o, -reversal, credited - reversal)
<1>1. /\ balance' = credited - reversal /\ lifetimeEarned' = lifetimeEarned - reversal
      /\ ledger' = IF reversal = 0 THEN given ELSE Append(given, taken)
      /\ lifetimeRedeemed' = lifetimeRedeemed /\ resStatus' = resStatus
  BY DEF Points!ApplyCancellation, Points!reservationVars
<1>2. /\ balance \in Int /\ lifetimeEarned \in Int /\ lifetimeRedeemed \in Int
      /\ cancelled[o].points \in Int /\ cancelled[o].earned \in Int
  <2>1. cancelled[o] \in CancelEvents
    BY DEF LoyaltyTypes
  <2> QED
    BY <2>1, AccountTypes DEF CancelEvents
<1>3. refund \in Int /\ (refund # 0 => ~RowIn(ledger, "refund", o))
  BY <1>2, RowsHad
<1> HIDE DEF refund
<1>4. credited \in Int
  BY <1>2, <1>3
<1>5. reversal \in Int /\ (reversal # 0 => ~RowIn(ledger, "reverse_earn", o))
  BY <1>2, <1>4, RowsHad DEF Points!Reversal
<1> HIDE DEF reversal
<1>6. /\ back \in LedgerRow /\ back.type = "refund" /\ back.key = o
      /\ back.amount = refund /\ back.after = credited
  <2>1. "refund" \in Points!RowTypes
    BY DEF Points!RowTypes
  <2> QED
    BY <1>3, <1>4, <2>1, OrderRow
<1>7. /\ taken \in LedgerRow /\ taken.type = "reverse_earn" /\ taken.key = o
      /\ taken.amount = -reversal /\ taken.after = credited - reversal
  <2>1. "reverse_earn" \in Points!RowTypes /\ -reversal \in Int /\ credited - reversal \in Int
    BY <1>4, <1>5 DEF Points!RowTypes
  <2> QED
    BY <2>1, OrderRow
<1> HIDE DEF back, taken
<1>8. /\ Tells(given, credited, lifetimeEarned, lifetimeRedeemed)
      /\ \A key : RowIn(given, "reverse_earn", key) <=> RowIn(ledger, "reverse_earn", key)
      /\ \A key : RowIn(given, "redeem", key) <=> RowIn(ledger, "redeem", key)
  <2>1. Tells(ledger, balance, lifetimeEarned, lifetimeRedeemed)
    BY DEF AccountInv
  <2>2. CASE refund = 0
    <3>1. credited = balance /\ given = ledger
      BY <1>2, <2>2
    <3> QED
      BY <2>1, <3>1
  <2>3. CASE refund # 0
    <3>1. "refund" \notin Earns /\ "refund" # "redeem" /\ "refund" # "adjust" /\ "refund" # "reverse_earn"
      BY DEF Earns
    <3>2. given = Append(ledger, back)
      BY <2>3
    <3> HIDE DEF given
    <3>3. /\ back.after = credited /\ credited = balance + back.amount
          /\ lifetimeEarned = lifetimeEarned + (IF back.type \in Earns THEN back.amount ELSE 0)
          /\ lifetimeRedeemed
               = lifetimeRedeemed - (IF back.type = "redeem" THEN back.amount ELSE 0)
      BY <1>2, <1>6, <3>1
    <3>4. ~RowIn(ledger, back.type, back.key)
      BY <1>3, <1>6, <2>3
    <3> HIDE DEF credited
    <3>5. /\ Tells(Append(ledger, back), credited, lifetimeEarned, lifetimeRedeemed)
          /\ \A type, key : RowIn(Append(ledger, back), type, key) <=>
                              RowIn(ledger, type, key) \/ (back.type = type /\ back.key = key)
      BY <1>6, <2>1, <3>1, <3>3, <3>4, TellsOneMore
    <3> QED
      BY <1>6, <3>1, <3>2, <3>5
  <2> QED
    BY <2>2, <2>3
<1> HIDE DEF given, credited
<1>9. CASE reversal = 0
  <2>1. ledger' = given /\ balance' = credited /\ lifetimeEarned' = lifetimeEarned
    BY <1>1, <1>2, <1>4, <1>9
  <2>2. Tells(ledger', balance', lifetimeEarned', lifetimeRedeemed')
    BY <1>1, <1>8, <2>1
  <2> QED
    BY <1>1, <1>8, <2>1, <2>2 DEF AccountInv
<1>10. CASE reversal # 0
  <2>1. ledger' = Append(given, taken)
    BY <1>1, <1>10
  <2>2. "reverse_earn" \in Earns /\ "reverse_earn" # "redeem" /\ "reverse_earn" # "adjust"
    BY DEF Earns
  <2>3. ~RowIn(given, taken.type, taken.key)
    BY <1>5, <1>7, <1>8, <1>10
  <2>4. /\ balance' = credited + taken.amount
        /\ lifetimeEarned' = lifetimeEarned + (IF taken.type \in Earns THEN taken.amount ELSE 0)
        /\ lifetimeRedeemed'
             = lifetimeRedeemed - (IF taken.type = "redeem" THEN taken.amount ELSE 0)
    BY <1>1, <1>2, <1>4, <1>5, <1>7, <2>2
  <2>5. /\ Tells(Append(given, taken), balance', lifetimeEarned', lifetimeRedeemed')
        /\ \A type, key : RowIn(Append(given, taken), type, key) <=>
                            RowIn(given, type, key) \/ (taken.type = type /\ taken.key = key)
    BY <1>1, <1>7, <1>8, <2>2, <2>3, <2>4, TellsOneMore
  <2> QED
    BY <1>1, <1>7, <1>8, <2>1, <2>2, <2>5 DEF AccountInv
<1> QED
  BY <1>9, <1>10

\* An adjustment's row has a key of its own.
LEMMA AdjustKeepsAccount ==
  ASSUME AccountInv, NEW a \in Adjustments, Points!AdjustPoints(a) PROVE AccountInv'
<1> DEFINE row == Points!Row("adjust", Len(ledger) + 1, a, balance + a)
<1>1. /\ balance' = balance + a /\ ledger' = Append(ledger, row)
      /\ lifetimeEarned' = lifetimeEarned /\ lifetimeRedeemed' = lifetimeRedeemed
      /\ resStatus' = resStatus
  BY DEF Points!AdjustPoints, Points!reservationVars
<1>2. /\ balance \in Int /\ lifetimeEarned \in Int /\ lifetimeRedeemed \in Int /\ a \in Int
      /\ ledger \in Seq(LedgerRow) /\ Keyed(ledger)
  BY AccountTypes, PointsAssumption DEF AccountInv, Tells
<1>3. Len(ledger) \in Nat /\ DOMAIN ledger = 1..Len(ledger)
  BY <1>2
<1>4. /\ row \in LedgerRow /\ row.type = "adjust" /\ row.key = Len(ledger) + 1
      /\ row.amount = a /\ row.after = balance + a
  <2>1. "adjust" \in Points!RowTypes /\ Len(ledger) + 1 \in Key /\ balance + a \in Int
    BY <1>2, <1>3 DEF Points!RowTypes, Key
  <2> QED
    BY <1>2, <2>1 DEF Points!Row, LedgerRow
<1> HIDE DEF row
<1>5. ~RowIn(ledger, "adjust", Len(ledger) + 1)
  BY <1>2, <1>3 DEF Keyed, RowIn
<1>6. "adjust" \notin Earns /\ "adjust" # "redeem"
  BY DEF Earns
<1>7. /\ Tells(Append(ledger, row), balance', lifetimeEarned', lifetimeRedeemed')
      /\ \A type, key : RowIn(Append(ledger, row), type, key) <=>
                          RowIn(ledger, type, key) \/ (row.type = type /\ row.key = key)
  <2>1. Tells(ledger, balance, lifetimeEarned, lifetimeRedeemed)
    BY DEF AccountInv
  <2>2. /\ balance' = balance + row.amount
        /\ lifetimeEarned' = lifetimeEarned + (IF row.type \in Earns THEN row.amount ELSE 0)
        /\ lifetimeRedeemed' = lifetimeRedeemed - (IF row.type = "redeem" THEN row.amount ELSE 0)
    BY <1>1, <1>2, <1>4, <1>6
  <2> QED
    BY <1>1, <1>4, <1>5, <2>1, <2>2, TellsOneMore
<1> QED
  BY <1>1, <1>4, <1>6, <1>7 DEF AccountInv

LEMMA ExpirationKeepsAccount == ASSUME AccountInv, Points!ExpirePoints PROVE AccountInv'
<1> DEFINE rows == Points!ExpireRows
<1>1. /\ rows # <<>> /\ balance' = rows[Len(rows)].after /\ ledger' = ledger \o rows
      /\ lifetimeEarned' = lifetimeEarned /\ lifetimeRedeemed' = lifetimeRedeemed
      /\ resStatus' = resStatus
  BY DEF Points!ExpirePoints, Points!reservationVars
<1>2. /\ ledger \o rows \in Seq(LedgerRow) /\ Keyed(ledger \o rows)
      /\ Explains(ledger \o rows, After(rows), lifetimeEarned, lifetimeRedeemed)
      /\ \A key : RowIn(ledger \o rows, "redeem", key) <=> RowIn(ledger, "redeem", key)
  BY ExpireRowsExplain DEF AccountInv, Tells
<1>3. After(rows) = balance'
  BY <1>1 DEF After
<1> HIDE DEF rows
<1>4. Tells(ledger', balance', lifetimeEarned', lifetimeRedeemed')
  BY <1>1, <1>2, <1>3 DEF Tells
<1> QED
  BY <1>1, <1>2, <1>4 DEF AccountInv

\* What changes neither the account nor who has committed.
LEMMA QuietKeepsAccount ==
  ASSUME AccountInv, UNCHANGED <<ledger, balance, lifetimeEarned, lifetimeRedeemed>>,
         \A o \in PointOrders : resStatus'[o] = "committed" <=> resStatus[o] = "committed"
  PROVE  AccountInv'
  BY DEF AccountInv

LEMMA AccountNext ==
  ASSUME AccountInv, LoyaltyTypes, [Points!Next]_(Points!vars) PROVE AccountInv'
<1> DEFINE quiet == UNCHANGED <<ledger, balance, lifetimeEarned, lifetimeRedeemed>>
           same  == \A o \in PointOrders : resStatus'[o] = "committed" <=> resStatus[o] = "committed"
<1>1. ASSUME NEW o \in PointOrders, Points!ReservePoints(o) PROVE AccountInv'
  <2>1. quiet /\ same
    BY <1>1 DEF Points!ReservePoints, Points!ledgerVars, LoyaltyTypes
  <2> QED
    BY <2>1, QuietKeepsAccount
<1>2. ASSUME NEW o \in PointOrders,
             Points!PaymentSucceeds(o) \/ Points!ReservationLapses(o) \/ Points!OrderCancelled(o)
      PROVE  AccountInv'
  <2>1. quiet /\ same
    BY <1>2 DEF Points!PaymentSucceeds, Points!ReservationLapses, Points!OrderCancelled,
                Points!ledgerVars, Points!accountVars, Points!reservationVars
  <2> QED
    BY <2>1, QuietKeepsAccount
<1>3. ASSUME NEW w \in Workers, NEW o \in PointOrders,
             Points!CommitLoad(w, o) \/ Points!ReleaseLoad(w, o)
      PROVE  AccountInv'
  <2>1. quiet /\ same
    BY <1>3 DEF Points!CommitLoad, Points!ReleaseLoad, Points!ledgerVars, Points!accountVars,
                Points!reservationVars
  <2> QED
    BY <2>1, QuietKeepsAccount
<1>4. ASSUME NEW w \in Workers, Points!CommitWrite(w) PROVE AccountInv'
  <2>1. worder[w] \in PointOrders
    BY DEF LoyaltyTypes
  <2>2. CASE Points!CommitBurn(worder[w])
    BY <2>1, <2>2, BurnKeepsAccount
  <2>3. CASE UNCHANGED <<Points!accountVars, ledger, resStatus>>
    <3>1. quiet /\ same
      BY <2>3 DEF Points!accountVars
    <3> QED
      BY <3>1, QuietKeepsAccount
  <2> QED
    BY <1>4, <2>2, <2>3 DEF Points!CommitWrite
<1>5. ASSUME NEW w \in Workers, Points!ReleaseWrite(w) PROVE AccountInv'
  <2>1. quiet /\ same
    BY <1>5 DEF Points!ReleaseWrite, Points!StillPending, Points!ledgerVars, LoyaltyTypes
  <2> QED
    BY <2>1, QuietKeepsAccount
<1>6. ASSUME Points!ExpireStaleReservations PROVE AccountInv'
  <2>1. quiet /\ same
    BY <1>6 DEF Points!ExpireStaleReservations, Points!Expirable, Points!ledgerVars
  <2> QED
    BY <2>1, QuietKeepsAccount
<1>7. ASSUME NEW i \in DOMAIN ledger, Points!EarnLapses(i) PROVE AccountInv'
  <2>1. quiet /\ same
    BY <1>7 DEF Points!EarnLapses, Points!accountVars, Points!reservationVars
  <2> QED
    BY <2>1, QuietKeepsAccount
<1>8. CASE UNCHANGED Points!vars
  <2>1. quiet /\ same
    BY <1>8 DEF Points!vars, Points!accountVars, Points!ledgerVars, Points!reservationVars
  <2> QED
    BY <2>1, QuietKeepsAccount
<1>9. ASSUME NEW o \in PointOrders, Points!AwardEarn(o) PROVE AccountInv'
  BY <1>9, AwardKeepsAccount
<1>10. ASSUME NEW o \in PointOrders, Points!ApplyCancellation(o) PROVE AccountInv'
  BY <1>10, CancellationKeepsAccount
<1>11. ASSUME NEW a \in Adjustments, Points!AdjustPoints(a) PROVE AccountInv'
  BY <1>11, AdjustKeepsAccount
<1>12. ASSUME Points!ExpirePoints PROVE AccountInv'
  BY <1>12, ExpirationKeepsAccount
<1> QED
  BY <1>1, <1>2, <1>3, <1>4, <1>5, <1>6, <1>7, <1>8, <1>9, <1>10, <1>11, <1>12
     DEF Points!Next, Points!Call

LEMMA AccountTold == ASSUME AccountInv PROVE Points!LedgerExplainsAccount
<1>1. \A types : Points!Amounts(types) = AmountsOf(ledger, types)
  BY DEF Points!Amounts, AmountsOf
<1>2. \A types, n : Points!SumTo(Points!Amounts(types), n) = SumOf(ledger, types, n)
  BY <1>1 DEF SumOf
<1>3. ledger \in Seq(LedgerRow) /\ Keyed(ledger)
      /\ Explains(ledger, balance, lifetimeEarned, lifetimeRedeemed)
  BY DEF AccountInv, Tells
<1>4. Points!LedgerKeysUnique
  BY <1>3 DEF Keyed, Points!LedgerKeysUnique
<1>5. Points!BurnedIsCommitted
  BY RowsHad DEF AccountInv, Points!BurnedIsCommitted
<1>6. DOMAIN ledger = 1..Len(ledger)
  BY <1>3
<1> QED
  BY <1>2, <1>3, <1>4, <1>5, <1>6 DEF Explains, Earns, Points!LedgerExplainsAccount

-----------------------------------------------------------------------------
(***************************************************************************)
(* loyalty-svc: what the reservations hold                                  *)
(***************************************************************************)

\* Reserved is a sum over a set.
LEMMA ReservedIsSum == ASSUME NEW S PROVE Points!Reserved(S) = SumOver(Redeem, S)
  BY Zenon DEF Points!Reserved, SumOver, SetSums

LEMMA PendingNext ==
  ASSUME PendingInv, LoyaltyTypes, [Points!Next]_(Points!vars) PROVE PendingInv'
<1>1. IsFiniteSet(Held) /\ \A o \in PointOrders : Redeem[o] \in Int
  <2>1. IsFiniteSet(PointOrders) /\ Held \in SUBSET PointOrders
    BY PointsAssumption DEF Held
  <2> QED
    BY <2>1, FS_Subset, PointsAssumption
<1>2. \A o \in Held : o \in PointOrders
  BY DEF Held
<1>3. SumOver(Redeem, Held) \in Int
  BY <1>1, <1>2, SumType
<1>4. ASSUME pending' = pending, Held' = Held PROVE PendingInv'
  BY <1>4 DEF PendingInv
<1>5. ASSUME NEW o \in PointOrders, o \notin Held, Held' = Held \cup {o},
             pending' = pending + Redeem[o]
      PROVE  PendingInv'
  <2>1. SumOver(Redeem, Held \cup {o}) = SumOver(Redeem, Held) + Redeem[o]
    BY <1>1, <1>2, <1>5, SumWith
  <2> QED
    BY <1>5, <2>1 DEF PendingInv
<1>6. ASSUME NEW o \in Held, Held' = Held \ {o}, pending' = pending - Redeem[o] PROVE PendingInv'
  <2>1. SumOver(Redeem, Held) = Redeem[o] + SumOver(Redeem, Held \ {o})
    BY <1>1, <1>2, SumWithout
  <2>2. SumOver(Redeem, Held \ {o}) \in Int /\ Redeem[o] \in Int
    <3>1. IsFiniteSet(Held \ {o}) /\ \A x \in Held \ {o} : Redeem[x] \in Int
      BY <1>1, <1>2, FS_RemoveElement
    <3> QED
      BY <1>1, <1>2, <3>1, SumType
  <2> QED
    BY <1>6, <2>1, <2>2 DEF PendingInv
<1>7. ASSUME NEW S \in SUBSET Held, Held' = Held \ S,
             pending' = pending - Points!Reserved(S)
      PROVE  PendingInv'
  <2>1. SumOver(Redeem, Held) = SumOver(Redeem, S) + SumOver(Redeem, Held \ S)
    BY <1>1, <1>2, SumApart
  <2>2. SumOver(Redeem, S) \in Int /\ SumOver(Redeem, Held \ S) \in Int
    <3>1. IsFiniteSet(S) /\ IsFiniteSet(Held \ S)
      BY <1>1, FS_Subset
    <3> QED
      BY <1>1, <1>2, <3>1, SumType
  <2>3. pending' = SumOver(Redeem, Held \ S)
    BY <1>7, <2>1, <2>2, ReservedIsSum DEF PendingInv
  <2> QED
    BY <1>7, <2>3 DEF PendingInv
<1>8. ASSUME NEW o \in PointOrders, Points!ReservePoints(o) PROVE PendingInv'
  <2>1. o \notin Held /\ Held' = Held \cup {o} /\ pending' = pending + Redeem[o]
    BY <1>8 DEF Points!ReservePoints, Held, LoyaltyTypes
  <2> QED
    BY <1>5, <2>1
<1>9. ASSUME NEW o \in PointOrders,
             \/ Points!AwardEarn(o) \/ Points!PaymentSucceeds(o) \/ Points!ReservationLapses(o)
             \/ Points!OrderCancelled(o) \/ Points!ApplyCancellation(o)
      PROVE  PendingInv'
  <2>1. pending' = pending /\ resStatus' = resStatus
    BY <1>9 DEF Points!AwardEarn, Points!PaymentSucceeds, Points!ReservationLapses,
                Points!OrderCancelled, Points!ApplyCancellation, Points!accountVars,
                Points!reservationVars
  <2> QED
    BY <1>4, <2>1 DEF Held
<1>10. ASSUME NEW w \in Workers, NEW o \in PointOrders,
              Points!CommitLoad(w, o) \/ Points!ReleaseLoad(w, o)
       PROVE  PendingInv'
  <2>1. pending' = pending /\ resStatus' = resStatus
    BY <1>10 DEF Points!CommitLoad, Points!ReleaseLoad, Points!accountVars, Points!reservationVars
  <2> QED
    BY <1>4, <2>1 DEF Held
<1>11. ASSUME NEW w \in Workers, Points!CommitWrite(w) PROVE PendingInv'
  <2> DEFINE o == worder[w]
  <2>1. CASE Points!CommitBurn(o)
    <3>1. /\ o \in Held /\ resStatus' = [resStatus EXCEPT ![o] = "committed"]
          /\ pending' = pending - Redeem[o]
      BY <2>1 DEF Points!CommitBurn, Points!StillPending, Held, LoyaltyTypes
    <3>2. Held' = Held \ {o}
      BY <3>1 DEF Held, LoyaltyTypes
    <3> QED
      BY <1>6, <3>1, <3>2
  <2>2. CASE UNCHANGED <<Points!accountVars, ledger, resStatus>>
    BY <1>4, <2>2 DEF Points!accountVars, Held
  <2> QED
    BY <1>11, <2>1, <2>2 DEF Points!CommitWrite
<1>12. ASSUME NEW w \in Workers, Points!ReleaseWrite(w) PROVE PendingInv'
  <2> DEFINE o == worder[w]
  <2>1. CASE /\ Points!StillPending(o) /\ resStatus' = [resStatus EXCEPT ![o] = "released"]
             /\ pending' = pending - Redeem[o]
    <3>1. o \in Held
      BY <2>1 DEF Points!StillPending, Held, LoyaltyTypes
    <3>2. Held' = Held \ {o}
      BY <2>1, <3>1 DEF Held, LoyaltyTypes
    <3> QED
      BY <1>6, <2>1, <3>1, <3>2
  <2>2. CASE UNCHANGED <<resStatus, pending>>
    BY <1>4, <2>2 DEF Held
  <2> QED
    BY <1>12, <2>1, <2>2 DEF Points!ReleaseWrite
<1>13. ASSUME Points!ExpireStaleReservations PROVE PendingInv'
  <2>1. PICK S \in SUBSET Points!Expirable \ {{}} :
          /\ resStatus' = [o \in PointOrders |-> IF o \in S THEN "expired" ELSE resStatus[o]]
          /\ pending' = pending - Points!Reserved(S)
    BY <1>13 DEF Points!ExpireStaleReservations
  <2>2. S \in SUBSET Held
    BY DEF Points!Expirable, Held
  <2>3. Held' = Held \ S
    BY <2>1 DEF Held
  <2> QED
    BY <1>7, <2>1, <2>2, <2>3
<1>14. ASSUME NEW a \in Adjustments, Points!AdjustPoints(a) PROVE PendingInv'
  BY <1>4, <1>14 DEF Points!AdjustPoints, Points!reservationVars, Held
<1>15. ASSUME NEW i \in DOMAIN ledger, Points!EarnLapses(i) PROVE PendingInv'
  BY <1>4, <1>15 DEF Points!EarnLapses, Points!accountVars, Points!reservationVars, Held
<1>16. ASSUME Points!ExpirePoints PROVE PendingInv'
  BY <1>4, <1>16 DEF Points!ExpirePoints, Points!reservationVars, Held
<1>17. CASE UNCHANGED Points!vars
  BY <1>4, <1>17 DEF Points!vars, Points!accountVars, Points!reservationVars, Held
<1> QED
  BY <1>8, <1>9, <1>10, <1>11, <1>12, <1>13, <1>14, <1>15, <1>16, <1>17
     DEF Points!Next, Points!Call

LEMMA PendingTold == ASSUME PendingInv PROVE Points!PendingIsReserved
<1>1. Held = {o \in PointOrders : resStatus[o] = "pending"}
  BY DEF Held
<1> QED
  BY <1>1, ReservedIsSum DEF PendingInv, Points!PendingIsReserved

-----------------------------------------------------------------------------
(***************************************************************************)
(* loyalty-svc: what a debit leaves of the earns                            *)
(***************************************************************************)

\* Amounts that differ in one place.
ChangedAt(f, h, k, N) ==
  /\ h[k] \in Int
  /\ \A i \in 1..N : f[i] \in Int /\ (i # k => h[i] = f[i])

\* Sums of such amounts.
LEMMA SumToChanged ==
  ASSUME NEW N \in Nat, NEW f, NEW h, NEW k \in 1..N, ChangedAt(f, h, k, N)
  PROVE  Points!SumTo(h, N) = Points!SumTo(f, N) - f[k] + h[k]
<1> DEFINE sf(n) == Points!SumTo(f, n)
           sh(n) == Points!SumTo(h, n)
           T == {n \in 0..N : sh(n) = sf(n) + (IF n < k THEN 0 ELSE h[k] - f[k])}
<1> USE DEF ChangedAt
<1>1. \A i \in 1..N : h[i] \in Int
  OBVIOUS
<1>2. /\ \A n \in 0..N : sf(n) \in Int
      /\ sf(0) = 0
      /\ \A n \in 1..N : sf(n) = sf(n - 1) + f[n]
  BY SumToAddsUp
<1>3. /\ \A n \in 0..N : sh(n) \in Int
      /\ sh(0) = 0
      /\ \A n \in 1..N : sh(n) = sh(n - 1) + h[n]
  BY <1>1, SumToAddsUp
<1> HIDE DEF sf, sh
<1>4. 0 \in T
  BY <1>2, <1>3
<1>5. ASSUME NEW n \in 1..N, n - 1 \in T PROVE n \in T
  <2>1. sh(n - 1) = sf(n - 1) + (IF n - 1 < k THEN 0 ELSE h[k] - f[k])
    BY <1>5
  <2>2. sf(n) = sf(n - 1) + f[n] /\ sh(n) = sh(n - 1) + h[n] /\ sf(n - 1) \in Int
        /\ f[n] \in Int /\ h[n] \in Int /\ f[k] \in Int
    BY <1>1, <1>2, <1>3
  <2>3. CASE n < k
    <3>1. h[n] = f[n]
      BY <2>3
    <3> QED
      BY <2>1, <2>2, <2>3, <3>1
  <2>4. CASE n = k
    BY <2>1, <2>2, <2>4
  <2>5. CASE n > k
    <3>1. h[n] = f[n]
      BY <2>5
    <3> QED
      BY <2>1, <2>2, <2>5, <3>1
  <2> QED
    BY <2>3, <2>4, <2>5
<1>6. T = 0..N
  <2>1. T \in SUBSET (0..N)
    OBVIOUS
  <2> HIDE DEF T
  <2> QED
    BY <1>4, <1>5, <2>1, Upto
<1>7. N \in T
  <2> HIDE DEF T
  <2> QED
    BY <1>6
<1>8. sh(N) = sf(N) + (h[k] - f[k]) /\ sf(N) \in Int /\ f[k] \in Int
  <2>1. ~(N < k) /\ N \in 0..N
    OBVIOUS
  <2> QED
    BY <1>2, <1>7, <2>1
<1> QED
  BY <1>8 DEF sf, sh

\* What a debit leaves in the buckets.
LEMMA ConsumeTakes ==
  ASSUME NEW l \in Seq(LedgerRow), NEW left \in [DOMAIN l -> Nat], NEW amount \in Nat
  PROVE  /\ ConsumeOf(l, left, amount) \in [DOMAIN l -> Nat]
         /\ Points!SumTo(left, Len(l)) \in Int
         /\ Points!SumTo(ConsumeOf(l, left, amount), Len(l))
              = IF amount > Points!SumTo(left, Len(l)) THEN 0
                ELSE Points!SumTo(left, Len(l)) - amount
<1> DEFINE N == Len(l)
           c == ConsumeOf(l, left, amount)
           sl(n) == Points!SumTo(left, n)
           sc(n) == Points!SumTo(c, n)
           due(i) == IF amount > sl(i - 1) THEN amount - sl(i - 1) ELSE 0
           T == {n \in 0..N : sc(n) = IF amount > sl(n) THEN 0 ELSE sl(n) - amount}
<1>1. N \in Nat /\ DOMAIN l = 1..N
  OBVIOUS
<1>2. left \in [DOMAIN l -> Int]
  OBVIOUS
<1>3. /\ \A i \in DOMAIN l : due(i) \in Nat
      /\ c = [i \in DOMAIN l |-> IF due(i) > left[i] THEN 0 ELSE left[i] - due(i)]
  <2>1. amount \in Int
    OBVIOUS
  <2> QED
    BY <1>2, <2>1, ConsumeOfIs
<1>4. \A i \in 1..N : c[i] = IF due(i) > left[i] THEN 0 ELSE left[i] - due(i)
  <2> HIDE DEF c, due, N
  <2> QED
    BY <1>1, <1>3
<1>5. c \in [DOMAIN l -> Nat]
  <2>1. \A i \in DOMAIN l : (IF due(i) > left[i] THEN 0 ELSE left[i] - due(i)) \in Nat
    <3> HIDE DEF due
    <3> QED
      BY <1>3
  <2> HIDE DEF c, due
  <2> QED
    BY <1>3, <2>1
<1>6. /\ \A n \in 0..N : sl(n) \in Int
      /\ sl(0) = 0
      /\ \A n \in 1..N : sl(n) = sl(n - 1) + left[n]
  BY <1>1, <1>2, SumToAddsUp
<1>7. /\ sc(0) = 0
      /\ \A n \in 1..N : sc(n) = sc(n - 1) + c[n]
  <2>1. \A n \in 1..N : c[n] \in Int
    <3> HIDE DEF c
    <3> QED
      BY <1>1, <1>5
  <2> HIDE DEF c
  <2> QED
    BY <1>1, <2>1, SumToAddsUp
<1> HIDE DEF sl, sc, c
<1>8. 0 \in T
  BY <1>1, <1>6, <1>7
<1>9. ASSUME NEW n \in 1..N, n - 1 \in T PROVE n \in T
  <2>1. sc(n - 1) = IF amount > sl(n - 1) THEN 0 ELSE sl(n - 1) - amount
    BY <1>9
  <2>2. /\ sl(n) = sl(n - 1) + left[n] /\ sl(n - 1) \in Int /\ left[n] \in Nat
        /\ sc(n) = sc(n - 1) + c[n]
        /\ c[n] = IF due(n) > left[n] THEN 0 ELSE left[n] - due(n)
    BY <1>1, <1>4, <1>6, <1>7
  <2>3. sc(n) = IF amount > sl(n) THEN 0 ELSE sl(n) - amount
    BY <2>1, <2>2
  <2> QED
    BY <1>1, <2>3
<1>10. T = 0..N
  <2>1. T \in SUBSET (0..N)
    OBVIOUS
  <2> HIDE DEF T, N
  <2> QED
    BY <1>1, <1>8, <1>9, <2>1, Upto
<1>11. sl(N) \in Int /\ sc(N) = IF amount > sl(N) THEN 0 ELSE sl(N) - amount
  <2>1. N \in T
    <3> HIDE DEF T
    <3> QED
      BY <1>1, <1>10
  <2> QED
    BY <1>1, <1>6, <2>1
<1> QED
  BY <1>5, <1>11 DEF sl, sc, c

-----------------------------------------------------------------------------
(***************************************************************************)
(* loyalty-svc: the replay of a ledger with one row more                    *)
(***************************************************************************)

\* Buckets and an empty one for the row that comes.
Extended(left, n) == [i \in 1..(n + 1) |-> IF i = n + 1 THEN 0 ELSE left[i]]

LEMMA ConsumeExtended ==
  ASSUME NEW l \in Seq(LedgerRow), NEW row \in LedgerRow, NEW left \in [DOMAIN l -> Int],
         NEW amount \in Int
  PROVE  ConsumeOf(Append(l, row), Extended(left, Len(l)), amount)
           = Extended(ConsumeOf(l, left, amount), Len(l))
<1> DEFINE N == Len(l)
           m == Append(l, row)
           more == Extended(left, N)
           due(i) == IF amount > Points!SumTo(left, i - 1)
                       THEN amount - Points!SumTo(left, i - 1) ELSE 0
           dueM(i) == IF amount > Points!SumTo(more, i - 1)
                        THEN amount - Points!SumTo(more, i - 1) ELSE 0
<1>1. /\ N \in Nat /\ DOMAIN l = 1..N /\ DOMAIN m = 1..(N + 1) /\ m \in Seq(LedgerRow)
      /\ Len(m) = N + 1
  OBVIOUS
<1>2. more \in [DOMAIN m -> Int] /\ more[N + 1] = 0 /\ \A i \in 1..N : more[i] = left[i]
  BY <1>1 DEF Extended
<1> HIDE DEF m, more
<1>3. \A n \in 0..N : Points!SumTo(more, n) = Points!SumTo(left, n)
  <2>1. \A i \in 1..N : left[i] \in Int /\ more[i] = left[i]
    BY <1>1, <1>2
  <2>2. N \in Nat
    BY <1>1
  <2> HIDE DEF N
  <2> QED
    BY <2>1, <2>2, SumToAgrees
<1>4. /\ ConsumeOf(l, left, amount)
           = [i \in DOMAIN l |-> IF due(i) > left[i] THEN 0 ELSE left[i] - due(i)]
      /\ \A i \in DOMAIN l : due(i) \in Nat
  BY ConsumeOfIs
<1>5. /\ ConsumeOf(m, more, amount)
           = [i \in DOMAIN m |-> IF dueM(i) > more[i] THEN 0 ELSE more[i] - dueM(i)]
      /\ \A i \in DOMAIN m : dueM(i) \in Nat
  BY <1>1, <1>2, ConsumeOfIs
<1>6. \A i \in 1..N : dueM(i) = due(i)
  <2>1. \A i \in 1..N : i - 1 \in 0..N
    BY <1>1
  <2> QED
    BY <1>3, <2>1
<1> HIDE DEF due, dueM
<1> DEFINE c == ConsumeOf(l, left, amount)
           d == ConsumeOf(m, more, amount)
<1>7. \A i \in 1..N : d[i] = c[i]
  BY <1>1, <1>2, <1>4, <1>5, <1>6
<1>8. d[N + 1] = 0
  <2>1. N + 1 \in DOMAIN m /\ dueM(N + 1) \in Nat /\ more[N + 1] = 0
    BY <1>1, <1>2, <1>5
  <2>2. d[N + 1] = IF dueM(N + 1) > 0 THEN 0 ELSE 0 - dueM(N + 1)
    BY <1>5, <2>1
  <2> QED
    BY <2>1, <2>2
<1>9. DOMAIN d = 1..(N + 1) /\ d = [i \in DOMAIN d |-> d[i]]
  BY <1>1, <1>5
<1> HIDE DEF c, d
<1>10. d = Extended(c, N)
  BY <1>1, <1>7, <1>8, <1>9 DEF Extended
<1> QED
  BY <1>10 DEF c, d, m, more

Put(left, k, v) == [left EXCEPT ![k] = v]

LEMMA ExtendedPut ==
  ASSUME NEW N \in Nat, NEW left \in [1..N -> Int], NEW k \in 1..N, NEW v \in Int
  PROVE  Put(Extended(left, N), k, v) = Extended(Put(left, k, v), N)
<1> DEFINE more == Extended(left, N)
           less == [left EXCEPT ![k] = v]
           a == [more EXCEPT ![k] = v]
           b == Extended(less, N)
<1>1. /\ more = [i \in 1..(N + 1) |-> IF i = N + 1 THEN 0 ELSE left[i]]
      /\ b = [i \in 1..(N + 1) |-> IF i = N + 1 THEN 0 ELSE less[i]]
  BY DEF Extended
<1> HIDE DEF more, b
<1>2. \A i \in 1..(N + 1) : a[i] = b[i]
  <2> SUFFICES ASSUME NEW i \in 1..(N + 1) PROVE a[i] = b[i]
    OBVIOUS
  <2>1. CASE i = N + 1
    BY <1>1, <2>1
  <2>2. CASE i \in 1..N
    <3>1. i # N + 1
      BY <2>2
    <3> QED
      BY <1>1, <2>2, <3>1
  <2> QED
    BY <2>1, <2>2
<1>3. DOMAIN a = 1..(N + 1) /\ a = [i \in DOMAIN a |-> a[i]]
  BY <1>1
<1> HIDE DEF a
<1>4. a = b
  <2>1. b = [i \in 1..(N + 1) |-> b[i]]
    BY <1>1
  <2> QED
    BY <1>2, <1>3, <2>1
<1> QED
  BY <1>4 DEF a, b, more, less, Put

\* An expire row names an earlier row.
MarksEarlier(l) == \A i \in DOMAIN l : l[i].type = "expire" => l[i].key \in 1..(i - 1)

\* Replaying a longer ledger does what replaying its beginning did.
LEMMA ReplayedExtended ==
  ASSUME NEW l \in Seq(LedgerRow), NEW row \in LedgerRow, NEW left \in [DOMAIN l -> Int],
         NEW k \in DOMAIN l, MarksEarlier(l)
  PROVE  ReplayedOf(Append(l, row), Extended(left, Len(l)), k)
           = Extended(ReplayedOf(l, left, k), Len(l))
<1> DEFINE N == Len(l)
           m == Append(l, row)
           more == Extended(left, N)
           r == l[k]
<1>1. /\ N \in Nat /\ DOMAIN l = 1..N /\ m[k] = r /\ r \in LedgerRow
  OBVIOUS
<1>2. r.amount \in Int /\ left \in [1..N -> Int] /\ k \in 1..N
  <2>1. r.amount \in Int
    BY <1>1 DEF LedgerRow
  <2> QED
    BY <1>1, <2>1
<1>3. more \in [1..(N + 1) -> Int] /\ more[N + 1] = 0 /\ \A i \in 1..N : more[i] = left[i]
  BY <1>1 DEF Extended
<1>4. CASE r.type = "earn"
  <2>1. [more EXCEPT ![k] = r.amount] = Extended([left EXCEPT ![k] = r.amount], N)
    <3> HIDE DEF N, r
    <3>1. Put(Extended(left, N), k, r.amount) = Extended(Put(left, k, r.amount), N)
      BY <1>1, <1>2, ExtendedPut
    <3> QED
      BY <3>1, Zenon DEF Put
  <2> QED
    BY <1>1, <1>4, <2>1 DEF ReplayedOf
<1>5. CASE r.type = "expire"
  <2>1. r.key \in 1..N
    BY <1>1, <1>5 DEF MarksEarlier
  <2> DEFINE v == IF left[r.key] + r.amount < 0 THEN 0 ELSE left[r.key] + r.amount
  <2>2. Points!ExpireRow(left, r) = [left EXCEPT ![r.key] = v]
    BY DEF Points!ExpireRow
  <2>3. Points!ExpireRow(more, r) = [more EXCEPT ![r.key] = v]
    <3>1. r.key \in 1..(N + 1) /\ more[r.key] = left[r.key]
      BY <1>1, <1>3, <2>1
    <3>2. Points!ExpireRow(more, r) = [more EXCEPT ![r.key] =
            IF more[r.key] + r.amount < 0 THEN 0 ELSE more[r.key] + r.amount]
      BY DEF Points!ExpireRow
    <3> QED
      BY <3>1, <3>2
  <2>4. v \in Int
    BY <1>1, <1>2, <2>1
  <2>5. [more EXCEPT ![r.key] = v] = Extended([left EXCEPT ![r.key] = v], N)
    <3> HIDE DEF N, r, v
    <3>1. Put(Extended(left, N), r.key, v) = Extended(Put(left, r.key, v), N)
      BY <1>1, <1>2, <2>1, <2>4, ExtendedPut
    <3> QED
      BY <3>1, Zenon DEF Put
  <2> HIDE DEF v
  <2> QED
    BY <1>1, <1>5, <2>2, <2>3, <2>5 DEF ReplayedOf
<1>6. CASE r.type \notin {"earn", "expire"}
  <2>1. ConsumeOf(m, more, -r.amount) = Extended(ConsumeOf(l, left, -r.amount), N)
    BY <1>2, ConsumeExtended
  <2> QED
    BY <1>1, <1>6, <2>1 DEF ReplayedOf
<1> QED
  BY <1>4, <1>5, <1>6

\* What is left after one row more is its step on what was left.
LEMMA BucketsOneMore ==
  ASSUME NEW l \in Seq(LedgerRow), NEW row \in LedgerRow, MarksEarlier(l)
  PROVE  BucketsOf(Append(l, row))
           = ReplayedOf(Append(l, row), Extended(BucketsOf(l), Len(l)), Len(l) + 1)
<1> DEFINE N == Len(l)
           m == Append(l, row)
           w == WalkOf(l)
           v == WalkOf(m)
           T == {k \in 0..N : v[k] = Extended(w[k], N)}
<1>1. N \in Nat /\ DOMAIN l = 1..N /\ m \in Seq(LedgerRow) /\ Len(m) = N + 1 /\ DOMAIN m = 1..(N + 1)
  OBVIOUS
<1>2. /\ \A k \in 0..N : w[k] \in [DOMAIN l -> Int]
      /\ w[0] = [i \in DOMAIN l |-> 0]
      /\ \A k \in 1..N : w[k] = ReplayedOf(l, w[k - 1], k)
  BY WalkSteps
<1>3. /\ v[0] = [i \in DOMAIN m |-> 0]
      /\ \A k \in 1..(N + 1) : v[k] = ReplayedOf(m, v[k - 1], k)
  <2> HIDE DEF m
  <2> QED
    BY <1>1, WalkSteps
<1> HIDE DEF v, w
<1>4. 0 \in T
  <2> HIDE DEF m, N
  <2>1. v[0] = [i \in 1..(N + 1) |-> 0] /\ w[0] = [i \in 1..N |-> 0]
    BY <1>1, <1>2, <1>3
  <2>2. v[0] = Extended(w[0], N)
    BY <1>1, <2>1 DEF Extended
  <2> QED
    BY <1>1, <2>2
<1>5. ASSUME NEW k \in 1..N, k - 1 \in T PROVE k \in T
  <2>1. v[k - 1] = Extended(w[k - 1], N) /\ k - 1 \in 0..N
    BY <1>5
  <2>2. w[k - 1] \in [DOMAIN l -> Int]
    BY <1>2, <2>1
  <2>3. ReplayedOf(m, Extended(w[k - 1], N), k) = Extended(ReplayedOf(l, w[k - 1], k), N)
    BY <1>1, <2>2, ReplayedExtended
  <2>4. k \in 1..(N + 1)
    BY <1>1
  <2> HIDE DEF m, N
  <2> QED
    BY <1>2, <1>3, <2>1, <2>3, <2>4
<1>6. T = 0..N
  <2>1. T \in SUBSET (0..N)
    OBVIOUS
  <2> HIDE DEF T, N
  <2> QED
    BY <1>1, <1>4, <1>5, <2>1, Upto
<1>7. v[N] = Extended(w[N], N)
  <2>1. N \in 0..N
    BY <1>1
  <2> QED
    BY <1>6, <2>1
<1>8. v[N + 1] = ReplayedOf(m, v[N], N + 1)
  <2> HIDE DEF m, N
  <2>1. PICK k \in 1..(N + 1) : k = N + 1
    BY <1>1
  <2>2. v[k] = ReplayedOf(m, v[k - 1], k) /\ k - 1 = N
    BY <1>1, <1>3, <2>1
  <2> QED
    BY <2>1, <2>2
<1> QED
  BY <1>1, <1>7, <1>8 DEF BucketsOf, v, w

-----------------------------------------------------------------------------
(***************************************************************************)
(* loyalty-svc: what is left of the earns, and what was credited            *)
(***************************************************************************)

LeftOf(l)    == Points!SumTo(BucketsOf(l), Len(l))
CreditsOf(l) == [i \in DOMAIN l |-> Points!Credit(l[i])]
CreditOf(l)  == Points!SumTo(CreditsOf(l), Len(l))
Uncredited(l) == \A i \in DOMAIN l : Points!Credit(l[i]) = 0

\* The replay of l leaves at least the balance b, and exactly b if nothing was credited.
Replays(l, b) ==
  /\ MarksEarlier(l)
  /\ BucketsOf(l) \in [DOMAIN l -> Nat]
  /\ CreditOf(l) \in Nat
  /\ b <= LeftOf(l) + CreditOf(l)
  /\ Uncredited(l) => CreditOf(l) = 0 /\ b = LeftOf(l)

LEMMA CreditType == ASSUME NEW row \in LedgerRow PROVE Points!Credit(row) \in Nat
  BY DEF LedgerRow, Points!Credit

LEMMA CreditOneMore ==
  ASSUME NEW l \in Seq(LedgerRow), NEW row \in LedgerRow, CreditOf(l) \in Nat
  PROVE  /\ CreditOf(Append(l, row)) = CreditOf(l) + Points!Credit(row)
         /\ Uncredited(Append(l, row)) <=> Uncredited(l) /\ Points!Credit(row) = 0
<1> DEFINE N == Len(l)
           m == Append(l, row)
           f == CreditsOf(l)
           h == CreditsOf(m)
<1>1. /\ N \in Nat /\ DOMAIN l = 1..N /\ DOMAIN m = 1..(N + 1) /\ m \in Seq(LedgerRow)
      /\ \A i \in 1..N : m[i] = l[i]
      /\ m[N + 1] = row
  OBVIOUS
<1>2. \A i \in 1..(N + 1) : h[i] = Points!Credit(m[i]) /\ m[i] \in LedgerRow
  BY <1>1 DEF CreditsOf
<1>3. \A i \in 1..(N + 1) : h[i] \in Int
  BY <1>2, CreditType
<1>4. \A i \in 1..N : f[i] = h[i] /\ f[i] \in Int
  <2>1. \A i \in 1..N : f[i] = Points!Credit(l[i]) /\ i \in 1..(N + 1)
    BY <1>1 DEF CreditsOf
  <2> HIDE DEF f, h, m, N
  <2> QED
    BY <1>1, <1>2, <1>3, <2>1
<1>5. h[N + 1] = Points!Credit(row)
  <2>1. N + 1 \in 1..(N + 1)
    BY <1>1
  <2> QED
    BY <1>1, <1>2, <2>1
<1> HIDE DEF f, h, N
<1>6. Points!SumTo(h, N) = Points!SumTo(f, N)
  <2>1. N \in 0..N
    BY <1>1
  <2> QED
    BY <1>1, <1>4, <2>1, SumToAgrees
<1>7. Points!SumTo(h, N + 1) = Points!SumTo(h, N) + h[N + 1]
  <2>1. N + 1 \in Nat
    BY <1>1
  <2>2. \A n \in 1..(N + 1) : Points!SumTo(h, n) = Points!SumTo(h, n - 1) + h[n]
    BY <1>3, <2>1, SumToAddsUp
  <2>3. PICK n \in 1..(N + 1) : n = N + 1
    BY <1>1
  <2>4. Points!SumTo(h, n) = Points!SumTo(h, n - 1) + h[n] /\ n - 1 = N
    BY <1>1, <2>2, <2>3
  <2> QED
    BY <2>3, <2>4
<1>8. Uncredited(m) <=> Uncredited(l) /\ Points!Credit(row) = 0
  <2>1. /\ N + 1 \in DOMAIN m /\ \A i \in DOMAIN l : i \in DOMAIN m /\ m[i] = l[i]
        /\ \A i \in DOMAIN m : i = N + 1 \/ i \in DOMAIN l
    BY <1>1
  <2> HIDE DEF m
  <2> QED
    BY <1>1, <2>1 DEF Uncredited
<1>9. Len(m) = N + 1
  BY DEF N
<1> QED
  BY <1>5, <1>6, <1>7, <1>8, <1>9 DEF CreditOf, f, h, N, m

\* The replay goes on telling the balance when a row is added that
\* earns, debits no more than the balance, or takes a whole bucket.
LEMMA ReplaysOneMore ==
  ASSUME NEW l \in Seq(LedgerRow), NEW row \in LedgerRow, NEW b \in Int, Replays(l, b),
         row.type \in {"redeem", "reverse_earn"} => row.amount <= 0,
         row.type = "earn" => row.amount >= 0,
         row.type = "expire" => row.key \in 1..Len(l) /\ row.amount = -BucketsOf(l)[row.key],
         row.type # "expire" => b + row.amount >= 0
  PROVE  /\ Replays(Append(l, row), b + row.amount)
         /\ row.type = "expire" =>
              \A j \in 1..Len(l) : j # row.key => BucketsOf(Append(l, row))[j] = BucketsOf(l)[j]
<1> DEFINE N == Len(l)
           m == Append(l, row)
           w == BucketsOf(l)
           v == BucketsOf(m)
           more == Extended(w, N)
           credit == Points!Credit(row)
<1>1. /\ N \in Nat /\ DOMAIN l = 1..N /\ m \in Seq(LedgerRow) /\ Len(m) = N + 1
      /\ DOMAIN m = 1..(N + 1) /\ m[N + 1] = row /\ \A i \in 1..N : m[i] = l[i]
  OBVIOUS
<1>2. row.amount \in Int
  BY DEF LedgerRow
<1>3. /\ MarksEarlier(l) /\ w \in [1..N -> Nat] /\ CreditOf(l) \in Nat
      /\ b <= LeftOf(l) + CreditOf(l)
      /\ Uncredited(l) => CreditOf(l) = 0 /\ b = LeftOf(l)
  BY <1>1 DEF Replays
<1>4. v = ReplayedOf(m, more, N + 1)
  BY <1>3, BucketsOneMore
<1>5. /\ CreditOf(m) = CreditOf(l) + credit /\ credit \in Nat
      /\ Uncredited(m) => Uncredited(l) /\ credit = 0
  BY <1>3, CreditOneMore, CreditType
<1>6. MarksEarlier(m)
  <2> SUFFICES ASSUME NEW i \in 1..(N + 1), m[i].type = "expire" PROVE m[i].key \in 1..(i - 1)
    BY <1>1 DEF MarksEarlier
  <2>1. CASE i \in 1..N
    <3> HIDE DEF m, N
    <3> QED
      BY <1>1, <1>3, <2>1 DEF MarksEarlier
  <2>2. CASE i = N + 1
    BY <1>1, <2>2
  <2> QED
    BY <1>1, <2>1, <2>2
<1> HIDE DEF m, w
<1>7. more \in [1..(N + 1) -> Nat] /\ more[N + 1] = 0 /\ \A i \in 1..N : more[i] = w[i]
  BY <1>1, <1>3 DEF Extended
<1> HIDE DEF v, more, credit, N
<1>8. Points!SumTo(more, N + 1) = LeftOf(l) /\ LeftOf(l) \in Int
  <2>1. Points!SumTo(more, N) = Points!SumTo(w, N) /\ Points!SumTo(w, N) \in Int
    <3>1. \A i \in 1..N : w[i] \in Int /\ more[i] = w[i]
      BY <1>3, <1>7
    <3>2. N \in 0..N
      BY <1>1
    <3>3. Points!SumTo(more, N) = Points!SumTo(w, N)
      BY <1>1, <3>1, <3>2, SumToAgrees
    <3>4. Points!SumTo(w, N) \in Int
      BY <1>1, <3>1, <3>2, SumToAddsUp
    <3> QED
      BY <3>3, <3>4
  <2>2. \A n \in 1..(N + 1) : Points!SumTo(more, n) = Points!SumTo(more, n - 1) + more[n]
    <3>1. N + 1 \in Nat /\ \A i \in 1..(N + 1) : more[i] \in Int
      BY <1>1, <1>7
    <3> QED
      BY <3>1, SumToAddsUp
  <2>3. PICK n \in 1..(N + 1) : n = N + 1
    BY <1>1
  <2>4. Points!SumTo(more, n) = Points!SumTo(more, n - 1) + more[n] /\ n - 1 = N
    BY <1>1, <2>2, <2>3
  <2>5. LeftOf(l) = Points!SumTo(w, N)
    BY DEF LeftOf, w, N
  <2> QED
    BY <1>7, <2>1, <2>3, <2>4, <2>5
<1>9. LeftOf(m) = Points!SumTo(v, N + 1)
  BY <1>1 DEF LeftOf, v
\* A change of one bucket.
<1>10. ASSUME NEW k \in 1..(N + 1), NEW x \in Nat, v = [more EXCEPT ![k] = x]
       PROVE  v \in [1..(N + 1) -> Nat] /\ LeftOf(m) = LeftOf(l) - more[k] + x
  <2>1. v \in [1..(N + 1) -> Nat] /\ v[k] = x /\ \A i \in 1..(N + 1) : i # k => v[i] = more[i]
    BY <1>7, <1>10
  <2>2. \A i \in 1..(N + 1) : more[i] \in Int
    BY <1>7
  <2>3. PICK n \in Nat : n = N + 1
    BY <1>1
  <2>4. Points!SumTo(v, n) = Points!SumTo(more, n) - more[k] + v[k]
    <3>1. k \in 1..n /\ v[k] \in Int
      BY <2>1, <2>3
    <3>2. ChangedAt(more, v, k, n)
      BY <2>1, <2>2, <2>3, <3>1 DEF ChangedAt
    <3> QED
      BY <3>1, <3>2, SumToChanged
  <2> QED
    BY <1>8, <1>9, <2>1, <2>3, <2>4
\* What is left to show.
<1>14. ASSUME v \in [1..(N + 1) -> Nat], b + row.amount <= LeftOf(m) + CreditOf(m),
              Uncredited(m) => CreditOf(m) = 0 /\ b + row.amount = LeftOf(m)
       PROVE  Replays(m, b + row.amount)
  <2>1. CreditOf(m) \in Nat /\ BucketsOf(m) \in [DOMAIN m -> Nat]
    BY <1>1, <1>3, <1>5, <1>14 DEF v
  <2> QED
    BY <1>6, <1>14, <2>1 DEF Replays
<1>11. CASE row.type = "earn"
  <2>1. v = [more EXCEPT ![N + 1] = row.amount] /\ N + 1 \in 1..(N + 1) /\ row.amount \in Nat
    BY <1>1, <1>2, <1>4, <1>11 DEF ReplayedOf
  <2>2. v \in [1..(N + 1) -> Nat] /\ LeftOf(m) = LeftOf(l) - more[N + 1] + row.amount
    BY <1>10, <2>1
  <2>3. credit = 0
    BY <1>11 DEF credit, Points!Credit
  <2>4. LeftOf(m) = LeftOf(l) + row.amount /\ CreditOf(m) = CreditOf(l)
    BY <1>2, <1>3, <1>5, <1>7, <1>8, <2>2, <2>3
  <2>5. b + row.amount <= LeftOf(m) + CreditOf(m)
    BY <1>2, <1>3, <1>8, <2>4
  <2>6. Uncredited(m) => CreditOf(m) = 0 /\ b + row.amount = LeftOf(m)
    BY <1>2, <1>3, <1>5, <1>8, <2>4
  <2>7. Replays(m, b + row.amount)
    BY <1>14, <2>2, <2>5, <2>6
  <2> QED
    BY <1>11, <2>7 DEF m
<1>12. CASE row.type = "expire"
  <2> DEFINE k == row.key
  <2>1. k \in 1..N /\ row.amount = -w[k] /\ k \in 1..(N + 1)
    BY <1>1, <1>12 DEF w, N
  <2>2. more[k] = w[k] /\ w[k] \in Nat
    BY <1>3, <1>7, <2>1
  <2>3. v = Points!ExpireRow(more, row)
    BY <1>1, <1>4, <1>12 DEF ReplayedOf
  <2>4. v = [more EXCEPT ![k] = IF more[k] + row.amount < 0 THEN 0 ELSE more[k] + row.amount]
    BY <2>3 DEF Points!ExpireRow
  <2>5. (IF more[k] + row.amount < 0 THEN 0 ELSE more[k] + row.amount) = 0
    BY <2>1, <2>2
  <2>6. v = [more EXCEPT ![k] = 0] /\ 0 \in Nat
    BY <2>4, <2>5
  <2> HIDE DEF k
  <2>7. v \in [1..(N + 1) -> Nat] /\ LeftOf(m) = LeftOf(l) - more[k] + 0
    BY <1>10, <2>1, <2>6
  <2>8. credit = 0
    BY <1>12 DEF credit, Points!Credit
  <2>9. Replays(m, b + row.amount)
    <3>1. LeftOf(m) = LeftOf(l) + row.amount /\ CreditOf(m) = CreditOf(l)
      BY <1>2, <1>3, <1>5, <1>8, <2>1, <2>2, <2>7, <2>8
    <3>2. b + row.amount <= LeftOf(m) + CreditOf(m)
      BY <1>2, <1>3, <1>8, <3>1
    <3>3. Uncredited(m) => CreditOf(m) = 0 /\ b + row.amount = LeftOf(m)
      BY <1>2, <1>3, <1>5, <1>8, <3>1
    <3> QED
      BY <1>14, <2>7, <3>2, <3>3
  <2>10. \A j \in 1..N : j # k => v[j] = w[j]
    <3>1. \A j \in 1..N : j \in 1..(N + 1)
      BY <1>1
    <3> QED
      BY <1>7, <2>6, <3>1
  <2> QED
    BY <2>9, <2>10 DEF v, m, w, N, k
<1>13. CASE row.type \notin {"earn", "expire"}
  <2>1. CASE row.amount < 0
    <3>1. v = ConsumeOf(m, more, -row.amount) /\ -row.amount \in Nat
      BY <1>1, <1>2, <1>4, <1>13, <2>1 DEF ReplayedOf
    <3>2. credit = 0
      BY <1>2, <2>1 DEF credit, Points!Credit
    <3>3. /\ v \in [1..(N + 1) -> Nat]
          /\ LeftOf(m) = IF -row.amount > LeftOf(l) THEN 0 ELSE LeftOf(l) - (-row.amount)
      <4>1. more \in [DOMAIN m -> Nat]
        BY <1>1, <1>7
      <4>2. PICK d \in Nat : d = -row.amount
        BY <3>1
      <4>3. /\ ConsumeOf(m, more, d) \in [DOMAIN m -> Nat]
            /\ Points!SumTo(ConsumeOf(m, more, d), Len(m))
                 = IF d > Points!SumTo(more, Len(m)) THEN 0 ELSE Points!SumTo(more, Len(m)) - d
        BY <1>1, <4>1, ConsumeTakes
      <4> QED
        BY <1>1, <1>8, <1>9, <3>1, <4>2, <4>3
    <3>4. b + row.amount >= 0
      BY <1>13
    <3>5. b + row.amount <= LeftOf(m) + CreditOf(m)
      BY <1>2, <1>3, <1>5, <1>8, <2>1, <3>2, <3>3
    <3>6. Uncredited(m) => CreditOf(m) = 0 /\ b + row.amount = LeftOf(m)
      BY <1>2, <1>3, <1>5, <1>8, <3>2, <3>3, <3>4
    <3> QED
      BY <1>13, <1>14, <3>3, <3>5, <3>6 DEF m
  <2>2. CASE row.amount >= 0
    <3>1. v = more
      BY <1>1, <1>2, <1>4, <1>13, <2>2 DEF ReplayedOf
    <3>2. credit = row.amount
      <4>1. row.type \in {"redeem", "reverse_earn"} => row.amount = 0
        BY <1>2, <2>2
      <4>2. row.type \in {"redeem", "reverse_earn", "refund", "adjust"}
        BY <1>13 DEF LedgerRow, Points!RowTypes
      <4> QED
        BY <1>2, <2>2, <4>1, <4>2 DEF credit, Points!Credit
    <3>3. LeftOf(m) = LeftOf(l)
      BY <1>8, <1>9, <3>1
    <3>4. b + row.amount <= LeftOf(m) + CreditOf(m)
      BY <1>2, <1>3, <1>5, <1>8, <3>2, <3>3
    <3>5. Uncredited(m) => CreditOf(m) = 0 /\ b + row.amount = LeftOf(m)
      BY <1>2, <1>3, <1>5, <1>8, <3>2, <3>3
    <3> QED
      BY <1>7, <1>13, <1>14, <3>1, <3>4, <3>5 DEF m
  <2> QED
    BY <1>2, <2>1, <2>2
<1> QED
  BY <1>11, <1>12, <1>13 DEF m

-----------------------------------------------------------------------------
(***************************************************************************)
(* loyalty-svc: every transaction keeps the replay                          *)
(***************************************************************************)

LEMMA ReplaysNothing == Replays(<<>>, 0)
<1>1. <<>> \in Seq(LedgerRow) /\ Len(<<>>) = 0 /\ DOMAIN <<>> = {}
  OBVIOUS
<1>2. BucketsOf(<<>>) = WalkOf(<<>>)[0] /\ BucketsOf(<<>>) \in [DOMAIN <<>> -> Int]
  BY <1>1, WalkSteps DEF BucketsOf
<1>3. BucketsOf(<<>>) \in [DOMAIN <<>> -> Nat]
  BY <1>1, <1>2
<1>4. \A f : Points!SumTo(f, 0) = 0
  BY SumToAddsUp
<1>5. LeftOf(<<>>) = 0 /\ CreditOf(<<>>) = 0
  BY <1>1, <1>4 DEF LeftOf, CreditOf
<1> QED
  BY <1>1, <1>3, <1>5 DEF Replays, MarksEarlier

\* An expiration pass takes what the replay left of the earns it marks.
LEMMA ExpireRowsReplay ==
  ASSUME ledger \in Seq(LedgerRow), balance \in Int, Replays(ledger, balance)
  PROVE  /\ Replays(ledger \o Points!ExpireRows, After(Points!ExpireRows))
         /\ Uncredited(ledger) => Uncredited(ledger \o Points!ExpireRows)
<1> DEFINE N == Len(ledger)
           left == Points!Buckets
           l(i) == ledger \o Marks[i]
           Good(i) == /\ Replays(l(i), After(Marks[i]))
                      /\ Uncredited(ledger) => Uncredited(l(i))
                      /\ \A j \in (i + 1)..N : BucketsOf(l(i))[j] = left[j]
           T == {i \in 0..N : Good(i)}
<1>1. N \in Nat
  OBVIOUS
<1>2. /\ Marks \in [0..N -> Seq(LedgerRow)] /\ Marks[0] = <<>>
      /\ \A i \in 1..N : Marks[i] = Marked(Marks[i - 1], i)
      /\ Points!ExpireRows = Marks[N]
  BY MarksAre
<1>3. 0 \in T
  <2>1. l(0) = ledger /\ After(Marks[0]) = balance
    BY <1>2 DEF After
  <2>2. left = BucketsOf(ledger)
    BY BucketsAre
  <2> HIDE DEF l, left
  <2> QED
    BY <1>1, <2>1, <2>2
<1>4. ASSUME NEW i \in 1..N, i - 1 \in T PROVE i \in T
  <2> DEFINE done == Marks[i - 1]
             row  == Points!Row("expire", i, -left[i], After(done) - left[i])
             m == l(i - 1)
  <2>1. done \in Seq(LedgerRow) /\ Good(i - 1)
    BY <1>2, <1>4
  <2>2. After(done) \in Int /\ left[i] \in Int /\ row \in LedgerRow
    BY <1>1, <2>1, MarkedType
  <2> HIDE DEF left
  <2>3. \A j \in (i + 1)..N : j \in ((i - 1) + 1)..N
    OBVIOUS
  <2>4. CASE i \notin Points!ToMark
    <3>1. Marks[i] = done
      BY <1>2, <2>4 DEF Marked
    <3>2. l(i) = m /\ After(Marks[i]) = After(done)
      BY <3>1
    <3> HIDE DEF l, done
    <3>3. Good(i)
      BY <2>1, <2>3, <3>2 DEF done
    <3> QED
      BY <1>1, <3>3
  <2>5. CASE i \in Points!ToMark
    <3>1. Marks[i] = Append(done, row)
      BY <1>2, <2>5 DEF Marked, left
    <3> HIDE DEF row
    <3>2. l(i) = Append(m, row) /\ m \in Seq(LedgerRow) /\ Len(m) >= N /\ Len(m) \in Nat
      BY <2>1, <2>2, <3>1
    <3>3. row.type = "expire" /\ row.key = i /\ row.amount = -left[i] /\ row.after = After(done) - left[i]
      BY DEF row, Points!Row
    <3>4. After(Marks[i]) = After(done) + row.amount
      <4>1. After(Marks[i]) = row.after
        <5>1. done \in Seq(LedgerRow)
          BY <2>1
        <5> HIDE DEF done
        <5>2. Marks[i] # <<>> /\ Marks[i][Len(Marks[i])] = row
          BY <2>2, <3>1, <5>1
        <5> QED
          BY <5>2 DEF After
      <4> QED
        BY <2>2, <3>3, <4>1
    <3>5. Replays(m, After(done)) /\ \A j \in ((i - 1) + 1)..N : BucketsOf(m)[j] = left[j]
      BY <2>1
    <3>6. BucketsOf(m)[i] = left[i]
      BY <1>1, <3>5
    <3> HIDE DEF m, l, done
    <3>7. /\ Replays(Append(m, row), After(done) + row.amount)
          /\ \A j \in 1..Len(m) : j # i => BucketsOf(Append(m, row))[j] = BucketsOf(m)[j]
      <4>1. row.key \in 1..Len(m) /\ row.amount = -BucketsOf(m)[row.key]
        BY <1>1, <3>2, <3>3, <3>6
      <4>2. row.type \notin {"redeem", "reverse_earn", "earn"}
        BY <3>3
      <4> QED
        BY <2>2, <3>2, <3>3, <3>5, <4>1, <4>2, ReplaysOneMore
    <3>8. \A j \in (i + 1)..N : BucketsOf(l(i))[j] = left[j]
      <4>1. \A j \in (i + 1)..N : j \in 1..Len(m) /\ j # i
        BY <1>1, <3>2
      <4> QED
        BY <2>3, <3>2, <3>5, <3>7, <4>1
    <3>9. Uncredited(ledger) => Uncredited(Append(m, row))
      <4>1. Points!Credit(row) = 0
        BY <3>3 DEF Points!Credit
      <4>2. Uncredited(ledger) => Uncredited(m)
        BY <2>1 DEF m
      <4>3. CreditOf(m) \in Nat
        BY <3>5 DEF Replays
      <4> QED
        BY <2>2, <3>2, <4>1, <4>2, <4>3, CreditOneMore
    <3>10. Good(i)
      BY <3>2, <3>4, <3>7, <3>8, <3>9
    <3> QED
      BY <1>1, <3>10
  <2> QED
    BY <2>4, <2>5
<1>5. T = 0..N
  <2>1. T \in SUBSET (0..N)
    OBVIOUS
  <2> HIDE DEF T, N
  <2> QED
    BY <1>1, <1>3, <1>4, <2>1, Upto
<1>6. Good(N)
  <2>1. N \in T
    <3> HIDE DEF T
    <3> QED
      BY <1>1, <1>5
  <2> QED
    BY <2>1
<1> QED
  BY <1>2, <1>6

\* No adjustment credits, and no order that redeems is cancelled.
NoPlatformCredits == (\A a \in Adjustments : a < 0) /\ (\A o \in CanCancel : Redeem[o] = 0)

\* A ledger whose replay leaves a balance that is no debt.
Kept(l, b) ==
  /\ l \in Seq(LedgerRow) /\ Replays(l, b) /\ b >= 0
  /\ NoPlatformCredits => Uncredited(l)

\* What an order.cancelled event says.
EventsInv ==
  \A o \in PointOrders :
    \/ cancelled[o] = Points!NoEvent
    \/ /\ o \in CanCancel
       /\ cancelled[o].points \in {0, Redeem[o]} /\ cancelled[o].earned \in Nat

ReplayInv == Kept(ledger, balance) /\ EventsInv

LEMMA KeptOneMore ==
  ASSUME NEW l, NEW b \in Int, NEW row \in LedgerRow, Kept(l, b), NEW b2,
         row.type \in {"redeem", "reverse_earn"} => row.amount <= 0,
         row.type = "earn" => row.amount >= 0, row.type # "expire",
         b2 = b + row.amount, b2 >= 0, NoPlatformCredits => Points!Credit(row) = 0
  PROVE  Kept(Append(l, row), b2)
<1>1. l \in Seq(LedgerRow) /\ Replays(l, b) /\ (NoPlatformCredits => Uncredited(l))
  BY DEF Kept
<1>2. Replays(Append(l, row), b2)
  BY <1>1, ReplaysOneMore
<1>3. NoPlatformCredits => Uncredited(Append(l, row))
  BY <1>1, CreditOneMore DEF Replays
<1>4. Append(l, row) \in Seq(LedgerRow)
  BY <1>1
<1> QED
  BY <1>2, <1>3, <1>4 DEF Kept

LEMMA AwardKeepsReplay ==
  ASSUME ReplayInv, AccountInv, NEW o \in PointOrders, Points!AwardEarn(o)
  PROVE  Kept(ledger', balance')
<1> DEFINE row == Points!Row("earn", o, Earn[o], balance + Earn[o])
<1>1. balance' = balance + Earn[o] /\ ledger' = Append(ledger, row) /\ Earn[o] > 0
  BY DEF Points!AwardEarn
<1>2. balance \in Int /\ balance >= 0 /\ Earn[o] \in Int
  BY AccountTypes, PointsAssumption DEF ReplayInv, Kept
<1>3. row \in LedgerRow /\ row.type = "earn" /\ row.amount = Earn[o]
  <2>1. "earn" \in Points!RowTypes /\ balance + Earn[o] \in Int
    BY <1>2 DEF Points!RowTypes
  <2> QED
    BY <1>2, <2>1, OrderRow
<1> HIDE DEF row
<1>4. Points!Credit(row) = 0
  BY <1>3 DEF Points!Credit
<1>5. Kept(Append(ledger, row), balance')
  <2>1. Kept(ledger, balance) /\ balance' = balance + row.amount /\ balance' >= 0 /\ row.amount >= 0
    BY <1>1, <1>2, <1>3 DEF ReplayInv
  <2>2. row.type \notin {"redeem", "reverse_earn", "expire"}
    BY <1>3
  <2> QED
    BY <1>2, <1>3, <1>4, <2>1, <2>2, KeptOneMore
<1> QED
  BY <1>1, <1>5

LEMMA PendingType == ASSUME PendingInv PROVE pending \in Int
<1>1. IsFiniteSet(Held) /\ \A o \in Held : Redeem[o] \in Int
  <2>1. IsFiniteSet(PointOrders) /\ Held \in SUBSET PointOrders
    BY PointsAssumption DEF Held
  <2> QED
    BY <2>1, FS_Subset, PointsAssumption
<1> QED
  BY <1>1, SumType DEF PendingInv

LEMMA BurnKeepsReplay ==
  ASSUME ReplayInv, AccountInv, PendingInv, NEW o \in PointOrders, Points!CommitBurn(o)
  PROVE  Kept(ledger', balance')
<1> DEFINE burn   == Points!Row("redeem", o, -Redeem[o], balance - Redeem[o])
           earned == IF Points!HasRow("earn", o) THEN 0 ELSE Earn[o]
           earn   == Points!Row("earn", o, earned, balance - Redeem[o] + earned)
           burned == Append(ledger, burn)
<1>1. /\ balance' = balance - Redeem[o] + earned
      /\ ledger' = IF earned = 0 THEN burned ELSE Append(burned, earn)
      /\ 0 <= pending - Redeem[o] /\ pending - Redeem[o] <= balance - Redeem[o]
  BY DEF Points!CommitBurn, Points!EarnBase, Points!Checked
<1>2. /\ balance \in Int /\ balance >= 0 /\ Earn[o] \in Nat /\ Redeem[o] \in Nat /\ pending \in Int
      /\ earned \in Nat
  BY AccountTypes, PendingType, PointsAssumption DEF ReplayInv, Kept
<1> HIDE DEF earned
<1>3. balance - Redeem[o] >= 0 /\ balance - Redeem[o] \in Int
  BY <1>1, <1>2
<1>4. burn \in LedgerRow /\ burn.type = "redeem" /\ burn.amount = -Redeem[o]
  <2>1. "redeem" \in Points!RowTypes /\ -Redeem[o] \in Int
    BY <1>2 DEF Points!RowTypes
  <2> QED
    BY <1>3, <2>1, OrderRow
<1>5. earn \in LedgerRow /\ earn.type = "earn" /\ earn.amount = earned
  <2>1. "earn" \in Points!RowTypes /\ balance - Redeem[o] + earned \in Int /\ earned \in Int
    BY <1>2 DEF Points!RowTypes
  <2> QED
    BY <2>1, OrderRow
<1> HIDE DEF burn, earn
<1>6. Points!Credit(burn) = 0 /\ Points!Credit(earn) = 0
  BY <1>4, <1>5 DEF Points!Credit
<1>7. Kept(burned, balance - Redeem[o])
  <2>1. Kept(ledger, balance) /\ balance - Redeem[o] = balance + burn.amount /\ burn.amount <= 0
    BY <1>2, <1>4 DEF ReplayInv
  <2>2. burn.type \notin {"earn", "expire"}
    BY <1>4
  <2> QED
    BY <1>2, <1>3, <1>4, <1>6, <2>1, <2>2, KeptOneMore
<1> HIDE DEF burned
<1>8. CASE earned = 0
  BY <1>1, <1>2, <1>7, <1>8
<1>9. CASE earned # 0
  <2>1. ledger' = Append(burned, earn)
    BY <1>1, <1>9
  <2>2. balance' = balance - Redeem[o] + earn.amount /\ balance' >= 0 /\ earn.amount >= 0
    BY <1>1, <1>2, <1>3, <1>5
  <2>3. earn.type \notin {"redeem", "reverse_earn", "expire"}
    BY <1>5
  <2>4. Kept(Append(burned, earn), balance')
    BY <1>3, <1>5, <1>6, <1>7, <2>2, <2>3, KeptOneMore
  <2> QED
    BY <2>1, <2>4
<1> QED
  BY <1>8, <1>9

LEMMA CancellationKeepsReplay ==
  ASSUME ReplayInv, AccountInv, LoyaltyTypes, NEW o \in PointOrders, Points!ApplyCancellation(o)
  PROVE  Kept(ledger', balance')
<1> DEFINE refund   == IF Points!HasRow("refund", o) THEN 0 ELSE cancelled[o].points
           credited == balance + refund
           reversal == IF Points!HasRow("reverse_earn", o) THEN 0 ELSE Points!Reversal(o, credited)
           back     == Points!Row("refund", o, refund, credited)
           given    == IF refund = 0 THEN ledger ELSE Append(ledger, back)
           taken    == Points!Row("reverse_earn", o, -reversal, credited - reversal)
<1>1. /\ balance' = credited - reversal
      /\ ledger' = IF reversal = 0 THEN given ELSE Append(given, taken)
      /\ cancelled[o] # Points!NoEvent
  BY DEF Points!ApplyCancellation
<1>2. /\ balance \in Int /\ balance >= 0 /\ o \in CanCancel
      /\ cancelled[o].points \in {0, Redeem[o]} /\ Redeem[o] \in Nat
      /\ cancelled[o].earned \in Nat
  BY <1>1, AccountTypes, PointsAssumption DEF ReplayInv, Kept, EventsInv
<1>3. refund \in Nat /\ (NoPlatformCredits => refund = 0)
  BY <1>2 DEF NoPlatformCredits
<1> HIDE DEF refund
<1>4. credited \in Nat
  BY <1>2, <1>3
<1>5. reversal \in Nat /\ reversal <= credited
  BY <1>2, <1>4 DEF Points!Reversal
<1> HIDE DEF reversal
<1>6. back \in LedgerRow /\ back.type = "refund" /\ back.amount = refund
  <2>1. "refund" \in Points!RowTypes /\ refund \in Int /\ credited \in Int
    BY <1>3, <1>4 DEF Points!RowTypes
  <2> QED
    BY <2>1, OrderRow
<1>7. taken \in LedgerRow /\ taken.type = "reverse_earn" /\ taken.amount = -reversal
  <2>1. "reverse_earn" \in Points!RowTypes /\ -reversal \in Int /\ credited - reversal \in Int
    BY <1>4, <1>5 DEF Points!RowTypes
  <2> QED
    BY <2>1, OrderRow
<1> HIDE DEF back, taken
<1>8. Kept(given, credited)
  <2>1. Kept(ledger, balance)
    BY DEF ReplayInv
  <2>2. CASE refund = 0
    <3>1. credited = balance /\ given = ledger
      BY <1>2, <2>2
    <3> QED
      BY <2>1, <3>1
  <2>3. CASE refund # 0
    <3>1. NoPlatformCredits => Points!Credit(back) = 0
      BY <1>3, <2>3
    <3>2. credited = balance + back.amount /\ credited >= 0
      BY <1>4, <1>6
    <3>3. back.type \notin {"redeem", "reverse_earn", "earn", "expire"}
      BY <1>6
    <3>4. given = Append(ledger, back)
      BY <2>3
    <3> HIDE DEF credited, given
    <3>5. Kept(Append(ledger, back), credited)
      BY <1>2, <1>6, <2>1, <3>1, <3>2, <3>3, KeptOneMore
    <3> QED
      BY <3>4, <3>5
  <2> QED
    BY <2>2, <2>3
<1> HIDE DEF given, credited
<1>9. CASE reversal = 0
  BY <1>1, <1>4, <1>8, <1>9
<1>10. CASE reversal # 0
  <2>1. ledger' = Append(given, taken)
    BY <1>1, <1>10
  <2>2. balance' = credited + taken.amount /\ balance' >= 0 /\ taken.amount <= 0 /\ credited \in Int
    BY <1>1, <1>4, <1>5, <1>7
  <2>3. taken.type \notin {"earn", "expire"} /\ Points!Credit(taken) = 0
    BY <1>7 DEF Points!Credit
  <2>4. Kept(Append(given, taken), balance')
    BY <1>7, <1>8, <2>2, <2>3, KeptOneMore
  <2> QED
    BY <2>1, <2>4
<1> QED
  BY <1>9, <1>10

LEMMA AdjustKeepsReplay ==
  ASSUME ReplayInv, AccountInv, PendingInv, NEW a \in Adjustments, Points!AdjustPoints(a)
  PROVE  Kept(ledger', balance')
<1> DEFINE row == Points!Row("adjust", Len(ledger) + 1, a, balance + a)
<1>1. /\ balance' = balance + a /\ ledger' = Append(ledger, row)
      /\ 0 <= pending /\ pending <= balance + a
  BY DEF Points!AdjustPoints, Points!Checked
<1>2. /\ balance \in Int /\ a \in Int /\ pending \in Int /\ ledger \in Seq(LedgerRow)
  BY AccountTypes, PendingType, PointsAssumption DEF ReplayInv, Kept
<1>3. row \in LedgerRow /\ row.type = "adjust" /\ row.amount = a
  <2>1. Len(ledger) \in Nat
    BY <1>2
  <2>2. "adjust" \in Points!RowTypes /\ Len(ledger) + 1 \in Key /\ balance + a \in Int
    BY <1>2, <2>1 DEF Points!RowTypes, Key
  <2> QED
    BY <1>2, <2>2 DEF Points!Row, LedgerRow
<1> HIDE DEF row
<1>4. NoPlatformCredits => Points!Credit(row) = 0
  <2>1. NoPlatformCredits => ~(row.amount > 0)
    BY <1>2, <1>3 DEF NoPlatformCredits
  <2> QED
    BY <2>1 DEF Points!Credit
<1>5. Kept(Append(ledger, row), balance')
  <2>1. Kept(ledger, balance) /\ balance' = balance + row.amount /\ balance' >= 0
    BY <1>1, <1>2, <1>3 DEF ReplayInv
  <2>2. row.type \notin {"redeem", "reverse_earn", "earn", "expire"}
    BY <1>3
  <2> QED
    BY <1>2, <1>3, <1>4, <2>1, <2>2, KeptOneMore
<1> QED
  BY <1>1, <1>5

LEMMA ExpirationKeepsReplay ==
  ASSUME ReplayInv, AccountInv, PendingInv, Points!ExpirePoints PROVE Kept(ledger', balance')
<1> DEFINE rows == Points!ExpireRows
<1>1. /\ rows # <<>> /\ balance' = rows[Len(rows)].after /\ ledger' = ledger \o rows
      /\ 0 <= pending /\ pending <= balance'
  BY DEF Points!ExpirePoints, Points!Checked
<1>2. After(rows) = balance'
  BY <1>1 DEF After
<1>3. /\ ledger \in Seq(LedgerRow) /\ balance \in Int /\ Replays(ledger, balance)
      /\ Keyed(ledger) /\ Explains(ledger, balance, lifetimeEarned, lifetimeRedeemed)
      /\ NoPlatformCredits => Uncredited(ledger)
  BY AccountTypes DEF ReplayInv, Kept, AccountInv, Tells
<1>4. Replays(ledger \o rows, After(rows)) /\ (Uncredited(ledger) => Uncredited(ledger \o rows))
  BY <1>3, ExpireRowsReplay
<1>5. rows \in Seq(LedgerRow) /\ ledger \o rows \in Seq(LedgerRow)
  BY <1>3, ExpireRowsExplain
<1> HIDE DEF rows
<1>6. balance' \in Int
  <2>1. rows[Len(rows)] \in LedgerRow
    BY <1>1, <1>5
  <2> QED
    BY <1>1, <2>1 DEF LedgerRow
<1>7. balance' >= 0
  BY <1>1, <1>6, PendingType
<1> QED
  BY <1>1, <1>2, <1>3, <1>4, <1>5, <1>7 DEF Kept

LEMMA EventsNext == ASSUME EventsInv, LoyaltyTypes, [Points!Next]_(Points!vars) PROVE EventsInv'
<1>1. CASE cancelled' = cancelled
  BY <1>1 DEF EventsInv
<1>2. ASSUME NEW o \in PointOrders, Points!OrderCancelled(o) PROVE EventsInv'
  <2> DEFINE events ==
        {[points |-> 0, earned |-> 0],
         [points |-> Redeem[o], earned |-> IF Points!HasRow("earn", o) THEN Earn[o] ELSE 0]}
  <2>1. PICK e \in events : o \in CanCancel /\ cancelled' = [cancelled EXCEPT ![o] = e]
    BY <1>2 DEF Points!OrderCancelled
  <2>2. e.points \in {0, Redeem[o]} /\ e.earned \in Nat
    BY PointsAssumption
  <2> HIDE DEF events
  <2>3. cancelled'[o] = e /\ \A p \in PointOrders : p # o => cancelled'[p] = cancelled[p]
    BY <2>1 DEF LoyaltyTypes
  <2> QED
    BY <2>1, <2>2, <2>3 DEF EventsInv
<1>3. (\E o \in PointOrders : Points!OrderCancelled(o)) \/ cancelled' = cancelled
  BY DEF Points!Next, Points!Call, Points!AwardEarn, Points!ReservePoints, Points!PaymentSucceeds,
     Points!ReservationLapses, Points!ApplyCancellation, Points!CommitLoad, Points!CommitWrite,
     Points!ReleaseLoad, Points!ReleaseWrite, Points!ExpireStaleReservations, Points!AdjustPoints,
     Points!EarnLapses, Points!ExpirePoints, Points!vars, Points!orderVars
<1> QED
  BY <1>1, <1>2, <1>3

LEMMA ReplayNext ==
  ASSUME ReplayInv, AccountInv, PendingInv, LoyaltyTypes, [Points!Next]_(Points!vars)
  PROVE  ReplayInv'
<1>1. EventsInv'
  BY EventsNext DEF ReplayInv
<1>2. ASSUME ledger' = ledger, balance' = balance PROVE Kept(ledger', balance')
  BY <1>2 DEF ReplayInv
<1>3. ASSUME NEW o \in PointOrders,
             \/ Points!ReservePoints(o) \/ Points!PaymentSucceeds(o)
             \/ Points!ReservationLapses(o) \/ Points!OrderCancelled(o)
      PROVE  Kept(ledger', balance')
  BY <1>2, <1>3 DEF Points!ReservePoints, Points!PaymentSucceeds, Points!ReservationLapses,
     Points!OrderCancelled, Points!accountVars, Points!ledgerVars
<1>4. ASSUME NEW w \in Workers, NEW o \in PointOrders,
             Points!CommitLoad(w, o) \/ Points!ReleaseLoad(w, o)
      PROVE  Kept(ledger', balance')
  BY <1>2, <1>4 DEF Points!CommitLoad, Points!ReleaseLoad, Points!accountVars, Points!ledgerVars
<1>5. ASSUME NEW w \in Workers, Points!CommitWrite(w) PROVE Kept(ledger', balance')
  <2>1. worder[w] \in PointOrders
    BY DEF LoyaltyTypes
  <2>2. CASE Points!CommitBurn(worder[w])
    BY <2>1, <2>2, BurnKeepsReplay
  <2>3. CASE UNCHANGED <<Points!accountVars, ledger, resStatus>>
    BY <1>2, <2>3 DEF Points!accountVars
  <2> QED
    BY <1>5, <2>2, <2>3 DEF Points!CommitWrite
<1>6. ASSUME NEW w \in Workers, Points!ReleaseWrite(w) PROVE Kept(ledger', balance')
  BY <1>2, <1>6 DEF Points!ReleaseWrite, Points!ledgerVars
<1>7. ASSUME Points!ExpireStaleReservations PROVE Kept(ledger', balance')
  BY <1>2, <1>7 DEF Points!ExpireStaleReservations, Points!ledgerVars
<1>8. ASSUME NEW i \in DOMAIN ledger, Points!EarnLapses(i) PROVE Kept(ledger', balance')
  BY <1>2, <1>8 DEF Points!EarnLapses, Points!accountVars
<1>9. ASSUME UNCHANGED Points!vars PROVE Kept(ledger', balance')
  BY <1>2, <1>9 DEF Points!vars, Points!accountVars, Points!ledgerVars
<1>10. ASSUME NEW o \in PointOrders, Points!AwardEarn(o) PROVE Kept(ledger', balance')
  BY <1>10, AwardKeepsReplay
<1>11. ASSUME NEW o \in PointOrders, Points!ApplyCancellation(o) PROVE Kept(ledger', balance')
  BY <1>11, CancellationKeepsReplay
<1>12. ASSUME NEW a \in Adjustments, Points!AdjustPoints(a) PROVE Kept(ledger', balance')
  BY <1>12, AdjustKeepsReplay
<1>13. ASSUME Points!ExpirePoints PROVE Kept(ledger', balance')
  BY <1>13, ExpirationKeepsReplay
<1>14. Kept(ledger', balance')
  BY <1>3, <1>4, <1>5, <1>6, <1>7, <1>8, <1>9, <1>10, <1>11, <1>12, <1>13
     DEF Points!Next, Points!Call
<1> QED
  BY <1>1, <1>14 DEF ReplayInv

LEMMA ReplayInit == ASSUME Points!Init PROVE ReplayInv
<1>1. Kept(ledger, balance)
  <2>1. ledger = <<>> /\ balance = 0
    BY DEF Points!Init
  <2>2. <<>> \in Seq(LedgerRow) /\ Uncredited(<<>>)
    BY DEF Uncredited
  <2> QED
    BY <2>1, <2>2, ReplaysNothing DEF Kept
<1>2. EventsInv
  BY DEF Points!Init, EventsInv
<1> QED
  BY <1>1, <1>2 DEF ReplayInv

\* What the replay leaves, in the words of the module.
LEMMA ReplayTold ==
  ASSUME ReplayInv
  PROVE  /\ balance <= Points!SumTo(Points!Buckets, Len(ledger)) + CreditOf(ledger)
         /\ Uncredited(ledger) => Points!BucketsExplainBalance
         /\ NoPlatformCredits => Uncredited(ledger)
         /\ Points!BucketsCoverBalance
<1>1. /\ balance <= LeftOf(ledger) + CreditOf(ledger)
      /\ Uncredited(ledger) => CreditOf(ledger) = 0 /\ balance = LeftOf(ledger)
      /\ NoPlatformCredits => Uncredited(ledger)
  BY DEF ReplayInv, Kept, Replays
<1>2. LeftOf(ledger) = Points!SumTo(Points!Buckets, Len(ledger))
  BY BucketsAre DEF LeftOf
<1>3. Points!BucketsExplainBalance <=> LeftOf(ledger) + CreditOf(ledger) = balance
  BY <1>2 DEF Points!BucketsExplainBalance, CreditOf, CreditsOf
<1>4. LeftOf(ledger) \in Int
  <2>1. Len(ledger) \in Nat /\ \A i \in 1..Len(ledger) : BucketsOf(ledger)[i] \in Int
    BY DEF ReplayInv, Kept, Replays
  <2>2. Len(ledger) \in 0..Len(ledger)
    BY <2>1
  <2> QED
    BY <2>1, <2>2, SumToAddsUp DEF LeftOf
<1>5. /\ balance <= Points!SumTo(Points!Buckets, Len(ledger)) + CreditOf(ledger)
      /\ Uncredited(ledger) => Points!BucketsExplainBalance
  BY <1>1, <1>2, <1>3, <1>4
<1>6. /\ Uncredited(ledger) <=> \A i \in DOMAIN ledger : CreditsOf(ledger)[i] = 0
      /\ CreditsOf(ledger) = [i \in DOMAIN ledger |-> Points!Credit(ledger[i])]
  BY DEF Uncredited, CreditsOf
<1>7. Points!BucketsCoverBalance
  BY <1>5, <1>6 DEF Points!BucketsCoverBalance, CreditOf
<1> QED
  BY <1>1, <1>5, <1>7

LEMMA ReplayInvHolds == Points!Spec => []ReplayInv
<1> DEFINE I == ReplayInv /\ AccountInv /\ PendingInv /\ LoyaltyTypes
<1>1. Points!Init => I
  BY LoyaltyInit, ReplayInit
<1>2. I /\ [Points!Next]_(Points!vars) => I'
  BY ReplayNext, AccountNext, PendingNext, LoyaltyTypesNext
<1>3. I => ReplayInv
  OBVIOUS
<1> QED
  BY <1>1, <1>2, <1>3, PTL DEF Points!Spec

-----------------------------------------------------------------------------
(***************************************************************************)
(* loyalty-svc: the theorems                                                *)
(***************************************************************************)

\* loyalty-svc: for every order, amount, worker and adjustment, the ledger tells the
\* balance, each balance_after and the lifetime counters.
THEOREM LedgerAlwaysExplains == Points!Spec => []Points!LedgerExplainsAccount
<1>1. Points!Init => AccountInv /\ LoyaltyTypes
  BY LoyaltyInit
<1>2. AccountInv /\ LoyaltyTypes /\ [Points!Next]_(Points!vars) => (AccountInv /\ LoyaltyTypes)'
  BY AccountNext, LoyaltyTypesNext
<1>3. AccountInv => Points!LedgerExplainsAccount
  BY AccountTold
<1> QED
  BY <1>1, <1>2, <1>3, PTL DEF Points!Spec

\* loyalty-svc: pending_redemption is what the pending reservations hold.
THEOREM PendingIsAlwaysReserved == Points!Spec => []Points!PendingIsReserved
<1>1. Points!Init => PendingInv /\ LoyaltyTypes
  BY LoyaltyInit
<1>2. PendingInv /\ LoyaltyTypes /\ [Points!Next]_(Points!vars) => (PendingInv /\ LoyaltyTypes)'
  BY PendingNext, LoyaltyTypesNext
<1>3. PendingInv => Points!PendingIsReserved
  BY PendingTold
<1> QED
  BY <1>1, <1>2, <1>3, PTL DEF Points!Spec

\* loyalty-svc: without platform credits the replay of the ledger explains the balance, so
\* verifyBucketInvariant never aborts an expiration pass.
THEOREM ReplayExplainsBalance ==
  ASSUME NoPlatformCredits PROVE Points!Spec => []Points!BucketsExplainBalance
<1>1. ReplayInv => Points!BucketsExplainBalance
  BY ReplayTold
<1> QED
  BY <1>1, ReplayInvHolds, PTL

\* loyalty-svc: whatever may be credited, the replay explains the balance of a ledger that
\* holds no credit, and the buckets and credits of any ledger make at least the balance:
\* a pass aborts because too much is left, never because points are missing.
THEOREM ReplayNeverShort == Points!Spec => []Points!BucketsCoverBalance
<1>1. ReplayInv => Points!BucketsCoverBalance
  BY ReplayTold
<1> QED
  BY <1>1, ReplayInvHolds, PTL

\* What is promised of the account when it is in focus.
PointsInv == instance = "points" => ReplayInv /\ AccountInv /\ PendingInv /\ LoyaltyTypes

LEMMA PointsInvHolds == MCSpec => []PointsInv
<1>1. MCInit => PointsInv
  BY LoyaltyInit, ReplayInit DEF MCInit, PointsInv
<1>2. PointsInv /\ [MCNext]_<<vars, instance, pointsOnly>> => PointsInv'
  <2> SUFFICES ASSUME PointsInv, [MCNext]_<<vars, instance, pointsOnly>>, instance' = "points"
               PROVE  (ReplayInv /\ AccountInv /\ PendingInv /\ LoyaltyTypes)'
    BY DEF PointsInv
  <2>1. instance = "points"
    BY DEF MCNext
  <2>2. [Points!Next]_(Points!vars)
    <3>1. CASE MCNext
      BY <2>1, <3>1 DEF MCNext
    <3>2. CASE UNCHANGED <<vars, instance, pointsOnly>>
      BY <3>2 DEF vars, couponVars, reservationVars, refundVars, eventVars, workerVars,
                  pointsOnly, Points!vars, Points!accountVars, Points!ledgerVars,
                  Points!reservationVars, Points!orderVars, Points!workerVars
    <3> QED
      BY <3>1, <3>2
  <2>3. ReplayInv /\ AccountInv /\ PendingInv /\ LoyaltyTypes
    BY <2>1 DEF PointsInv
  <2> QED
    BY <2>2, <2>3, ReplayNext, AccountNext, PendingNext, LoyaltyTypesNext
<1> QED
  BY <1>1, <1>2, PTL DEF MCSpec

\* loyalty-svc: the ledger tells the account, in the specification that discounts checks.
THEOREM LedgerTellsAccountInTurn == MCSpec => []LedgerTellsAccount
<1>1. PointsInv => LedgerTellsAccount
  BY AccountTold DEF PointsInv, LedgerTellsAccount
<1> QED
  BY <1>1, PointsInvHolds, PTL

\* loyalty-svc: nothing is held that no pending reservation holds, in the same
\* specification.
THEOREM PendingTellsReservationsInTurn == MCSpec => []PendingTellsReservations
<1>1. PointsInv => PendingTellsReservations
  BY PendingTold DEF PointsInv, PendingTellsReservations
<1> QED
  BY <1>1, PointsInvHolds, PTL

\* loyalty-svc: the replay explains what was not credited and is never short, in the same
\* specification.
THEOREM BucketsTellBalanceInTurn == MCSpec => []BucketsTellBalance
<1>1. PointsInv => BucketsTellBalance
  BY ReplayTold DEF PointsInv, BucketsTellBalance
<1> QED
  BY <1>1, PointsInvHolds, PTL
=============================================================================
