-------------------------- MODULE MCCouponRedemption ---------------------------
(***************************************************************************)
(* Instances of CouponRedemption for TLC. Buyers and workers are           *)
(* interchangeable.                                                        *)
(***************************************************************************)
EXTENDS CouponRedemption, TLC

\* A discount of 3 over two orders, and over one.
SharesOfTwo == <<2, 1>>
SharesOfOne == <<3>>

CouponSymmetry == Permutations(Buyers) \cup Permutations(Workers)

===============================================================================
