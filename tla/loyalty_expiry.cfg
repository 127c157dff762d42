\* Two orders and one debit; no platform credits.
CONSTANTS
  Orders = {1, 2}
  Earn <- EarnTwo
  Redeem <- RedeemTwo
  CanCancel = {1}
  Adjustments <- DebitOnly
  MaxAdjusts = 1
  Workers = {w1}
SPECIFICATION FairSpec
PROPERTIES
  LapsedEarnIsMarked
  CancelEventuallyApplied
CHECK_DEADLOCK FALSE
