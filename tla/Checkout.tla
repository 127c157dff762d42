-------------------------------- MODULE Checkout --------------------------------
(***************************************************************************)
(* order-svc: one call of CreateCheckout, from a buyer's cart to the       *)
(* PaymentIntent. The calls to other services and to Stripe, and the       *)
(* database writes, are one step each and each of them may fail; a failure *)
(* runs the deferred cleanup, which releases the reservations made so far. *)
(***************************************************************************)
EXTENDS DiscountMath

CONSTANTS
  Sellers,      \* number of seller groups in the cart
  Prices,       \* possible subtotals of a group
  Coupons,      \* coupons a buyer may enter, and NoCoupon
  PointChoices, \* points the buyer asks to redeem
  Rates,        \* commission rates, in basis points
  Fees          \* shipping fees per order; 0 with a free-shipping subscription

Groups   == 1..Sellers
NoCoupon == [type |-> "none", scope |-> 0, amount |-> 0, bps |-> 0, max |-> 0]

ASSUME CheckoutAssumption ==
  /\ Sellers \in Nat \ {0} /\ Prices \subseteq Nat /\ PointChoices \subseteq Nat
  /\ Rates \subseteq Nat /\ (\A r \in Rates : r <= 10000) /\ Fees \subseteq Nat
  /\ \A c \in Coupons : /\ c.scope \in 0..Sellers /\ c.amount \in Nat /\ c.max \in Nat
                        /\ c.bps \in Nat /\ c.bps <= 10000

VARIABLES
  \* the request and what is looked up for it
  subtotals, coupon, wanted, rate, fee,
  pc,
  \* reservations: "none", "pending" or "released", and their amounts
  couponRes, pointRes, couponDiscount, pointDiscount,
  \* the batch: shares, order totals, commissions, payouts
  couponShares, pointShares, totals, commissions, payouts,
  \* are the orders in the database, how many carry the PaymentIntent, the
  \* amount of the PaymentIntent (-1: none), order.created events
  inserted, stamped, intent, created,
  \* discounts whose Reserve call took effect but gave no answer, and those
  \* whose Release call in the cleanup failed
  unanswered, unreleased

inputVars  == <<subtotals, coupon, wanted, rate, fee>>
resVars    == <<couponRes, pointRes, couponDiscount, pointDiscount>>
batchVars  == <<couponShares, pointShares, totals, commissions, payouts>>
storeVars  == <<inserted, stamped, intent, created>>
faultVars  == <<unanswered, unreleased>>
vars == <<inputVars, pc, resVars, batchVars, storeVars, faultVars>>

Zeros == [i \in Groups |-> 0]

Init ==
  /\ subtotals \in [Groups -> Prices]
  /\ coupon \in Coupons \cup {NoCoupon}
  /\ wanted \in PointChoices /\ rate \in [Groups -> Rates] /\ fee \in Fees
  /\ pc = "coupon"
  /\ couponRes = "none" /\ pointRes = "none" /\ couponDiscount = 0 /\ pointDiscount = 0
  /\ couponShares = Zeros /\ pointShares = Zeros /\ totals = Zeros
  /\ commissions = Zeros /\ payouts = Zeros
  /\ inserted = FALSE /\ stamped = 0 /\ intent = -1 /\ created = 0
  /\ unanswered = {} /\ unreleased = {}

\* Any step may return an error, which starts the cleanup.
Fail(step) ==
  /\ pc = step /\ pc' = "releaseCoupon"
  /\ UNCHANGED <<inputVars, resVars, batchVars, storeVars, faultVars>>

-------------------------------------------------------------------------------

\* The part of the cart a coupon applies to: everything for a platform coupon,
\* the issuing seller's group otherwise.
Applicable == IF coupon.scope = 0 THEN Total(subtotals) ELSE subtotals[coupon.scope]

\* The other service holds the reservation, but its answer is lost or cannot be
\* read: checkout answers an error and never learns of the reservation.
ReserveUnanswered(d) ==
  /\ unanswered' = unanswered \cup {d}
  /\ pc' = "releaseCoupon"
  /\ UNCHANGED <<inputVars, couponDiscount, pointDiscount, batchVars, storeVars, unreleased>>

\* Step 3b: the coupon. coupon-svc refuses one that is worth nothing here.
ReserveCoupon ==
  /\ pc = "coupon"
  /\ \/ coupon = NoCoupon /\ UNCHANGED <<couponRes, couponDiscount>>
     \/ /\ coupon # NoCoupon /\ ComputeDiscount(coupon, Applicable) > 0
        /\ couponRes' = "pending"
        /\ couponDiscount' = ComputeDiscount(coupon, Applicable)
  /\ pc' = "points"
  /\ UNCHANGED <<inputVars, pointRes, pointDiscount, batchVars, storeVars, faultVars>>

ReserveCouponUnanswered ==
  /\ pc = "coupon" /\ coupon # NoCoupon /\ ComputeDiscount(coupon, Applicable) > 0
  /\ couponRes' = "pending" /\ UNCHANGED pointRes
  /\ ReserveUnanswered("coupon")

\* The points to reserve: never more than the coupon leaves to pay.
Effective ==
  LET room == IF Total(subtotals) > couponDiscount THEN Total(subtotals) - couponDiscount ELSE 0
  IN Lower(wanted, room)

\* Step 3b: the points.
ReservePoints ==
  /\ pc = "points"
  /\ \/ Effective = 0 /\ UNCHANGED <<pointRes, pointDiscount>>
     \/ Effective > 0 /\ pointRes' = "pending" /\ pointDiscount' = Effective
  /\ pc' = "price"
  /\ UNCHANGED <<inputVars, couponRes, couponDiscount, batchVars, storeVars, faultVars>>

ReservePointsUnanswered ==
  /\ pc = "points" /\ Effective > 0
  /\ pointRes' = "pending" /\ UNCHANGED couponRes
  /\ ReserveUnanswered("points")

SellerCoupon == couponRes # "none" /\ coupon.scope # 0

\* Mutant of PointBase: points are spread over the subtotals before the coupon.
PointBaseSubtotals(shares) == subtotals

\* Points are spread over what the coupon has left of each order.
PointBase(shares) == [i \in Groups |-> subtotals[i] - shares[i]]

\* Mutant of FundedSubtotal: the platform pays for the seller's coupon.
FundedByPlatform(shares, i) == subtotals[i]

\* What commission and payout are computed on: a seller's own coupon is paid
\* for by the seller, everything else by the platform.
FundedSubtotal(shares, i) ==
  IF SellerCoupon /\ shares[i] > 0 THEN subtotals[i] - shares[i] ELSE subtotals[i]

\* Steps 3 to 3d: shares, totals, commissions and payouts of the batch.
Price ==
  /\ pc = "price"
  /\ couponShares' = IF SellerCoupon
                       THEN DistributeSellerDiscount(couponDiscount, subtotals, coupon.scope)
                       ELSE DistributeDiscount(couponDiscount, subtotals)
  /\ pointShares' = DistributeDiscount(pointDiscount, PointBase(couponShares'))
  /\ totals' = [i \in Groups |->
                  LET t == subtotals[i] + fee - couponShares'[i] - pointShares'[i]
                  IN IF t < 0 THEN 0 ELSE t]
  /\ commissions' = [i \in Groups |-> Bps(FundedSubtotal(couponShares', i), rate[i])]
  /\ payouts' = [i \in Groups |-> FundedSubtotal(couponShares', i) - commissions'[i]]
  /\ pc' = "insert"
  /\ UNCHANGED <<inputVars, resVars, storeVars, faultVars>>

\* Steps 4 and 5: CreateCheckoutBatch, after the seller and product lookups.
CreateCheckoutBatch ==
  /\ pc = "insert"
  /\ inserted' = TRUE
  /\ pc' = "intent"
  /\ UNCHANGED <<inputVars, resVars, batchVars, stamped, intent, created, faultVars>>

\* One PaymentIntent for the cart.
CreatePaymentIntent ==
  /\ pc = "intent"
  /\ intent' = Total(totals)
  /\ pc' = "stamp"
  /\ UNCHANGED <<inputVars, resVars, batchVars, inserted, stamped, created, faultVars>>

\* Step 6: the PaymentIntent's id goes on every order, one write each.
SetStripePaymentIntentID ==
  /\ pc = "stamp"
  /\ stamped' = stamped + 1
  /\ pc' = IF stamped' = Sellers THEN "publish" ELSE "stamp"
  /\ UNCHANGED <<inputVars, resVars, batchVars, inserted, intent, created, faultVars>>

\* Step 7: order.created for every order. A failed publish is only logged.
PublishCreated ==
  /\ pc = "publish"
  /\ created' \in 0..Sellers
  /\ pc' = "succeeded"
  /\ UNCHANGED <<inputVars, resVars, batchVars, inserted, stamped, intent, faultVars>>

\* The insert, the PaymentIntent or a stamp is made but its answer is lost: an
\* error, and the cleanup, all the same.
LoseAnswer ==
  /\ \/ pc = "insert" /\ inserted' = TRUE /\ UNCHANGED <<stamped, intent>>
     \/ pc = "intent" /\ intent' = Total(totals) /\ UNCHANGED <<inserted, stamped>>
     \/ pc = "stamp" /\ stamped' = stamped + 1 /\ UNCHANGED <<inserted, intent>>
  /\ pc' = "releaseCoupon"
  /\ UNCHANGED <<inputVars, resVars, batchVars, created, faultVars>>

\* Mutant of Releases: the reservation is gone once the orders are inserted.
ReleasesBeforeInsert(res) == IF inserted THEN res ELSE "released"

\* A reservation's status after the cleanup's call for it.
Releases(res) == "released"

\* The deferred cleanup releases each reservation that checkout knows of.  A
\* release call that fails, before or after it took effect, is only logged; what
\* stays pending is left to the reaper of the other service.
Known(d, res) == res = "pending" /\ d \notin unanswered
ReleaseCoupon ==
  /\ pc = "releaseCoupon"
  /\ \/ ~Known("coupon", couponRes) /\ UNCHANGED <<couponRes, unreleased>>
     \/ Known("coupon", couponRes) /\ couponRes' = Releases(couponRes) /\ UNCHANGED unreleased
     \/ /\ Known("coupon", couponRes) /\ couponRes' \in {couponRes, Releases(couponRes)}
        /\ unreleased' = unreleased \cup {"coupon"}
  /\ pc' = "releasePoints"
  /\ UNCHANGED <<inputVars, pointRes, couponDiscount, pointDiscount, batchVars, storeVars,
                 unanswered>>

ReleasePoints ==
  /\ pc = "releasePoints"
  /\ \/ ~Known("points", pointRes) /\ UNCHANGED <<pointRes, unreleased>>
     \/ Known("points", pointRes) /\ pointRes' = Releases(pointRes) /\ UNCHANGED unreleased
     \/ /\ Known("points", pointRes) /\ pointRes' \in {pointRes, Releases(pointRes)}
        /\ unreleased' = unreleased \cup {"points"}
  /\ pc' = "failed"
  /\ UNCHANGED <<inputVars, couponRes, couponDiscount, pointDiscount, batchVars, storeVars,
                 unanswered>>

Next ==
  \/ ReserveCoupon \/ ReservePoints \/ Price \/ CreateCheckoutBatch \/ CreatePaymentIntent
  \/ SetStripePaymentIntentID \/ PublishCreated \/ ReleaseCoupon \/ ReleasePoints
  \/ ReserveCouponUnanswered \/ ReservePointsUnanswered \/ LoseAnswer
  \/ \E step \in {"coupon", "points", "insert", "intent", "stamp"} : Fail(step)

Spec == Init /\ [][Next]_vars

-------------------------------------------------------------------------------
(***************************************************************************)
(* Properties.                                                             *)
(***************************************************************************)

Steps == {"coupon", "points", "price", "insert", "intent", "stamp", "publish",
          "releaseCoupon", "releasePoints", "succeeded", "failed"}
Statuses == {"none", "pending", "released"}
Amounts  == [Groups -> Nat]

\* The type invariant of a checkout; all amounts are non-negative.
TypeOK ==
  /\ pc \in Steps /\ couponRes \in Statuses /\ pointRes \in Statuses
  /\ couponDiscount \in Nat /\ pointDiscount \in Nat
  /\ couponShares \in Amounts /\ pointShares \in Amounts /\ totals \in Amounts
  /\ commissions \in Amounts /\ payouts \in Amounts
  /\ inserted \in BOOLEAN /\ stamped \in 0..Sellers /\ intent \in Nat \cup {-1}
  /\ created \in 0..Sellers /\ unanswered \subseteq {"coupon", "points"}
  /\ unreleased \subseteq {"coupon", "points"}

Priced == pc \in {"insert", "intent", "stamp", "publish", "succeeded"}

\* Coupon and points together never take more off an order than its subtotal:
\* the clamp of a negative total never hides a discount that is burned but not
\* given, and shipping is always paid for. Nor do the orders ever share more
\* than what was reserved.
DiscountWithinOrder ==
  Priced =>
    /\ \A i \in Groups : totals[i] = subtotals[i] + fee - couponShares[i] - pointShares[i]
                        /\ totals[i] >= fee
    /\ Total(couponShares) <= couponDiscount
    /\ Total(pointShares) <= pointDiscount

\* Every yen is accounted for: what the buyer is charged plus what the platform
\* funds is what sellers, commissions and shipping get.
MoneyAddsUp ==
  Priced =>
    Total(totals) + Total(pointShares) + (IF SellerCoupon THEN 0 ELSE Total(couponShares))
      = Total(payouts) + Total(commissions) + Sellers * fee

\* A checkout that answered an error holds no reservation, unless the call that
\* made it gave no answer or the one that should release it failed; one that
\* succeeded still holds what its orders rely on.
FailureReleases ==
  /\ pc = "failed" =>
       /\ couponRes = "pending" => "coupon" \in unanswered \cup unreleased
       /\ pointRes = "pending" => "points" \in unanswered \cup unreleased
  /\ pc = "succeeded" => /\ couponRes = (IF couponDiscount > 0 THEN "pending" ELSE "none")
                         /\ pointRes = (IF pointDiscount > 0 THEN "pending" ELSE "none")

===============================================================================
