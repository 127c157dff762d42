\* Two replicas, three rows, batches of two, two faults.
CONSTANTS
  NumRows = 3
  Relays = {r1, r2}
  BatchSize = 2
  MaxFaults = 2
SPECIFICATION Spec
SYMMETRY Symmetry
CHECK_DEADLOCK FALSE
INVARIANTS PublishedIsSent DuplicateIsExcused
PROPERTY ImplementsDelivery
