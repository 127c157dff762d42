\* One order, two handlers, two seller calls, one relay, three handled order events.
CONSTANTS
  NumRows = 2
  Relays = {r1}
  BatchSize = 1
  MaxFaults = 1
  Handlers = {h1, h2}
  Callers = {c1, c2}
  MaxHandled = 3
SPECIFICATION FairSpec
CHECK_DEADLOCK FALSE
INVARIANTS CancelAbsorbsPaid EventsTellStatus
PROPERTIES ShipmentReachesOrder RowsArePublished
