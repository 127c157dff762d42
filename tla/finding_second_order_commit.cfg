\* One cart of two discounted orders that share a reservation; nothing fails.
CONSTANTS
  NumReservations = 1
  Buyers = {b1}
  CartSize = 2
  Shares <- SharesOfTwo
  Discount = 3
  Limits = {0}
  PerUserLimit = 0
  Workers = {w1}
  MaxFaults = 0
SPECIFICATION FairSpec
PROPERTY PaidCartSettles
CHECK_DEADLOCK FALSE
