--------------------------- MODULE MCOrderSettlement ---------------------------
(***************************************************************************)
(* Instances of OrderSettlement for TLC. Handlers and callers are          *)
(* interchangeable, so each set is a symmetry set of the safety runs.      *)
(***************************************************************************)
EXTENDS OrderSettlement, TLC

\* A cart without discounts; and the carts whose coupon is shared by every order
\* or falls on the last one, with the points on the first.
NoDiscount == {[k \in Discounts |-> {}]}
BothDiscounts ==
  {[k \in Discounts |-> IF k = "coupon" THEN c ELSE {1}] : c \in {Orders, {NumOrders}}}

HandlerSymmetry == Permutations(Deliveries) \cup Permutations(Callers)

===============================================================================
