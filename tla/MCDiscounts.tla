------------------------------ MODULE MCDiscounts ------------------------------
(***************************************************************************)
(* The two services that hold a checkout's discounts, three instances in     *)
(* one run.  "seats" is the instance of CouponRedemption that the constants  *)
(* describe: two carts of one order compete for a seat.  "refunds" is one    *)
(* cart of three orders.  "points" is LoyaltyLedger.  A behaviour is one of    *)
(* a single instance; variables it does not have are off.                    *)
(***************************************************************************)
EXTENDS MCCouponRedemption, Integers

CONSTANTS
  \* those of LoyaltyLedger, which takes its workers from coupon-svc
  PointOrders, Earn, Redeem, CanCancel, Adjustments, MaxAdjusts

ASSUME PointsAssumption ==
  /\ IsFiniteSet(PointOrders) /\ PointOrders # {}
  /\ Earn \in [PointOrders -> Nat] /\ Redeem \in [PointOrders -> Nat]
  /\ CanCancel \subseteq PointOrders
  /\ Adjustments \subseteq Int \ {0} /\ MaxAdjusts \in Nat

VARIABLES
  instance,
  \* of LoyaltyLedger alone; it shares the reservations, orders and calls
  balance, pending, lifetimeEarned, lifetimeRedeemed, ledger, lapsedEarns, applied, adjusts

couponOnly == <<couponVars, resBuyer, redemptions, refundVars, settled, acked, early,
                carried, lowered, faults>>
pointsOnly == <<balance, pending, lifetimeEarned, lifetimeRedeemed, ledger, lapsedEarns, applied, adjusts>>

Refunds == INSTANCE CouponRedemption WITH
  NumReservations <- 1, CartSize <- 3, Shares <- <<1, 1, 1>>, PerUserLimit <- 0, MaxFaults <- 2
Points == INSTANCE LoyaltyLedger WITH Orders <- PointOrders

\* Values for TLC: what three orders earn and redeem, and the adjustments.
\* Without an adjustment the first two compete for what the third earns.
EarnOf         == <<0, 1, 2>>
RedeemOf       == <<1, 2, 0>>
CreditAndDebit == {-1, 2}

CouponOff ==
  /\ usage = 0 /\ limit = 0 /\ couponStatus = "off" /\ resBuyer = <<>> /\ redemptions = {}
  /\ refunded = <<>> /\ fullyRefunded = {} /\ refundEvents = {} /\ settled = {}
  /\ acked = {} /\ early = {} /\ carried = FALSE /\ lowered = FALSE /\ faults = 0
PointsOff ==
  /\ balance = 0 /\ pending = 0 /\ lifetimeEarned = 0 /\ lifetimeRedeemed = 0
  /\ ledger = <<>> /\ lapsedEarns = {} /\ applied = {} /\ adjusts = 0

MCInit ==
  \/ instance = "seats" /\ Init /\ PointsOff
  \/ instance = "refunds" /\ Refunds!Init /\ PointsOff
  \/ instance = "points" /\ Points!Init /\ CouponOff

MCNext ==
  \/ instance = "seats" /\ Next /\ UNCHANGED <<instance, pointsOnly>>
  \/ instance = "refunds" /\ Refunds!Next /\ UNCHANGED <<instance, pointsOnly>>
  \/ instance = "points" /\ Points!Next /\ UNCHANGED <<instance, couponOnly>>

MCSpec == MCInit /\ [][MCNext]_<<vars, instance, pointsOnly>>

-----------------------------------------------------------------------------
Holds(inSeats, inRefunds) ==
  /\ instance = "seats" => inSeats
  /\ instance = "refunds" => inRefunds

\* coupon-svc: usage_count is exactly the number of seats held.
SeatsAreCounted == Holds(UsageCountsSeats, Refunds!UsageCountsSeats)

\* coupon-svc: never oversold but by an administrator who lowers the limit.
SeatsNotOversold == Holds(NotOversold, Refunds!NotOversold)

\* coupon-svc: a committed cart has one redemption, every other cart none.
CartsRedeemOnce == Holds(OneRedemptionPerCart, Refunds!OneRedemptionPerCart)

\* coupon-svc: a redemption gave back the shares of its cancelled orders, each once.
PartialRefundsAddUp == Holds(RefundsAddUp, Refunds!RefundsAddUp)

\* coupon-svc: an order.cancelled event that carries the coupon columns is acknowledged
\* after its refund (order-svc sends none such today).
CarriedCancelsAreRefunded == Holds(CarriedCancelIsRefunded, Refunds!CarriedCancelIsRefunded)

\* loyalty-svc: the ledger explains the balances and the counters.
LedgerTellsAccount == instance = "points" => Points!LedgerExplainsAccount

\* loyalty-svc: pending_redemption is what the pending reservations hold.
PendingTellsReservations == instance = "points" => Points!PendingIsReserved

\* loyalty-svc: the FIFO replay explains the balance of a ledger without credits, and
\* what it leaves never falls short of the balance.
BucketsTellBalance == instance = "points" => Points!BucketsCoverBalance
===============================================================================
