---------------------------- MODULE MCLoyaltyLedger ----------------------------
(***************************************************************************)
(* Instances of LoyaltyLedger for TLC: a buyer's two orders.               *)
(***************************************************************************)
EXTENDS LoyaltyLedger

\* Two orders, of which the second redeems what the first earned.
EarnTwo   == <<2, 1>>
RedeemTwo == <<0, 2>>

\* An administrator's adjustments.
DebitOnly  == {-1}
CreditOnly == {2}

===============================================================================
