\* One order, one handler, two concurrent cancellation calls, two requests.
CONSTANTS
  NumOrders = 1
  Deliveries = {d1}
  Callers = {c1, c2}
  NumRequests = 2
  MaxFaults = 1
  Carts <- NoDiscount
  SellerStatuses = {"processing"}
  ShipmentStatuses = {"shipped"}
SPECIFICATION Spec
SYMMETRY HandlerSymmetry
INVARIANTS
  ApprovedIsRefunded
  ReversedPayoutIsReversed
PROPERTIES
  PaidOnlyFromPending
  VerdictIsFinal
CHECK_DEADLOCK FALSE
