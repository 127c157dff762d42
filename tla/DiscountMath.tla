------------------------------ MODULE DiscountMath ------------------------------
(***************************************************************************)
(* The money arithmetic of a checkout: a coupon's discount (coupon-svc),   *)
(* its split over the seller orders of a cart (order-svc), commission and  *)
(* points earned. Amounts are yen; all divisions are Go's on non-negative  *)
(* integers, so they floor.                                                *)
(***************************************************************************)
EXTENDS Integers, Sequences

Lower(a, b) == IF a < b THEN a ELSE b

\* The sum of a sequence of amounts.
Total(s) ==
  LET upTo[i \in 0..Len(s)] == IF i = 0 THEN 0 ELSE upTo[i - 1] + s[i]
  IN upTo[Len(s)]

\* rate_bps of an amount: commission, earned points, percent coupons.
Bps(amount, bps) == (amount * bps) \div 10000

\* ComputeDiscount. A coupon is [type, amount, bps, max]; a max of 0 is NULL.
ComputeDiscount(c, subtotal) ==
  LET raw == IF c.type = "fixed" THEN c.amount
             ELSE LET d == Bps(subtotal, c.bps)
                  IN IF c.max > 0 THEN Lower(d, c.max) ELSE d
  IN IF subtotal <= 0 THEN 0 ELSE Lower(raw, subtotal)

\* The proportional share of one bucket, rounded down.
Share(discount, s, total) == (discount * s) \div total

\* The last bucket that is not empty: it absorbs the rounding remainder.
LastBucket(subs) ==
  CHOOSE i \in DOMAIN subs : subs[i] > 0 /\ \A j \in DOMAIN subs : j > i => subs[j] <= 0

\* DistributeDiscount: proportional shares, the remainder on the last bucket,
\* then every share capped by its subtotal.
DistributeDiscount(discount, subs) ==
  LET total == Total(subs)
      share == [i \in DOMAIN subs |-> Share(discount, subs[i], total)]
      last  == LastBucket(subs)
      rest  == discount - Total(share)
  IN IF discount <= 0 \/ total <= 0 THEN [i \in DOMAIN subs |-> 0]
     ELSE [i \in DOMAIN subs |->
             Lower(IF i = last /\ rest > 0 THEN share[i] + rest ELSE share[i], subs[i])]

\* DistributeSellerDiscount, for a cart with one order per seller: the whole
\* discount on the target's order, capped, and nothing on the others.
DistributeSellerDiscount(discount, subs, target) ==
  [i \in DOMAIN subs |-> IF i = target THEN DistributeDiscount(discount, <<subs[i]>>)[1] ELSE 0]

===============================================================================
