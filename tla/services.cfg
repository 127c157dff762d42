\* One service at a time; bounds that two services share are named once.
CONSTANTS
  Sellers = 3
  Prices = {0, 1, 5, 7}
  Coupons <- AllCoupons
  PointChoices = {0, 2, 40}
  Rates = {0, 1500}
  Fees = {0, 3}
  Workers = {w1, w2}
  Users = {u1, u2, u3}
  Founder = u1
  Gateways = {g1, g2}
  Requests = {q1, q2}
  Skus = {s1, s2}
  Buyers = {b1, b2}
  Plans = {p1, p2}
  SeededPlan = p1
  Calls = {c1, c2}
  SkuPrices = {1, 2}
  Tiers = {0, 1}
  BoostLevels = {0, 2}
  Levels = {1, 3}
  Thresholds = {0, 2}
  Quantities = {1, 2}
  Stars = {1, 3}
  MaxAgain = 2
  MaxSlow = 1
  MaxLosses = 2
  MaxChanges = 2
  MaxQuantity = 2
  MaxRedeliveries = 1
  MaxFaults = 1
  MaxRoleCalls = 3
  MaxCartCalls = 4
  MaxWrites = 3
  MaxStockCalls = 4
  MaxReviewCalls = 5
  MaxInquiryCalls = 5
SPECIFICATION MCSpec
INVARIANTS
  DiscountWithinOrder
  MoneyAddsUp
  FailureReleases
  NotifiedBeforeAck
  ExtraSendIsExcused
  EvictionCovers
  UnitsAreConserved
  NewestEventHealsIndex
  BoostsTellPlans
  LowStockIsAnnounced
  DriftNeedsRace
  ClosedThreadIsQuiet
PROPERTIES
  EventuallyNotified
  LastTopFallsToADemotedActor
CHECK_DEADLOCK FALSE
