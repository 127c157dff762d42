\* An administrator's credit is redeemed.
CONSTANTS
  Orders = {1, 2}
  Earn <- EarnTwo
  Redeem <- RedeemTwo
  CanCancel = {}
  Adjustments <- CreditOnly
  MaxAdjusts = 1
  Workers = {w1}
SPECIFICATION Spec
INVARIANT BucketsExplainBalance
CHECK_DEADLOCK FALSE
