\* Two sellers' orders, two concurrent webhook handlers, two faults.
CONSTANTS
  NumOrders = 2
  Deliveries = {d1, d2}
  Callers = {}
  NumRequests = 0
  MaxFaults = 2
  Carts <- BothDiscounts
  SellerStatuses = {}
  ShipmentStatuses = {}
SPECIFICATION FairSpec
INVARIANTS
  PayoutCompletedIsBacked
  DuplicatePaidOnlyAfterExpiry
  PaidEventNeedsSettlement
  AckedIsHandled
CHECK_DEADLOCK FALSE
PROPERTY PaymentEventuallySettled
