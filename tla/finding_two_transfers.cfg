\* Two overlapping deliveries of one webhook, no fault at all.
CONSTANTS
  NumOrders = 2
  Deliveries = {d1, d2}
  Callers = {}
  NumRequests = 0
  MaxFaults = 0
  Carts <- NoDiscount
  SellerStatuses = {}
  ShipmentStatuses = {}
SPECIFICATION Spec
INVARIANT AtMostOneTransfer
CHECK_DEADLOCK FALSE
