\* Two carts of one order compete for one seat, or for an unlimited number, with
\* one answer or acknowledgement lost; the cart of three orders is in the module. Three
\* orders, two of which redeem, two calls at a time, an adjustment of either sign.
CONSTANTS
  NumReservations = 2
  Buyers = {b1, b2}
  CartSize = 1
  Shares <- SharesOfOne
  Discount = 3
  Limits = {0, 1}
  PerUserLimit = 1
  Workers = {w1, w2}
  MaxFaults = 1
  PointOrders = {1, 2, 3}
  Earn <- EarnOf
  Redeem <- RedeemOf
  CanCancel = {2}
  Adjustments <- CreditAndDebit
  MaxAdjusts = 1
SPECIFICATION MCSpec
SYMMETRY CouponSymmetry
INVARIANTS
  SeatsAreCounted
  SeatsNotOversold
  CartsRedeemOnce
  PartialRefundsAddUp
  CarriedCancelsAreRefunded
  LedgerTellsAccount
  PendingTellsReservations
  BucketsTellBalance
CHECK_DEADLOCK FALSE
