------------------------------ MODULE MCServices ------------------------------
(***************************************************************************)
(* The checkout of order-svc and nine groups of services that share no      *)
(* state.  A behaviour is one of a single service, picked at the start (the  *)
(* focus); the variables of the others stay off, so that the state spaces    *)
(* add up instead of being multiplied.  Variables that several services'     *)
(* modules have in common are declared once.                                 *)
(***************************************************************************)
EXTENDS Checkout, FiniteSets

\* Platform and seller coupons, fixed and percent, with and without a maximum.
Coupon(type, scope, amount, bps, max) ==
  [type |-> type, scope |-> scope, amount |-> amount, bps |-> bps, max |-> max]
AllCoupons == {Coupon("fixed", 0, 3, 0, 0), Coupon("fixed", 0, 10, 0, 0),
               Coupon("percent", 0, 0, 5000, 0), Coupon("percent", 0, 0, 9000, 4),
               Coupon("fixed", 1, 4, 0, 0), Coupon("percent", 2, 0, 3300, 0)}

CONSTANTS
  Workers, Users, Founder, Gateways, Requests, Skus, Buyers, Plans, SeededPlan, Calls,
  SkuPrices, Tiers, BoostLevels, Levels, Thresholds, Quantities, Stars,
  \* bounds: notification-svc's, the gateway's and the cart's own, then those of several
  MaxAgain, MaxSlow, MaxLosses, MaxChanges, MaxQuantity,
  MaxRedeliveries, MaxFaults,
  \* bounds: calls started, per service
  MaxRoleCalls, MaxCartCalls, MaxWrites, MaxStockCalls, MaxReviewCalls, MaxInquiryCalls

\* Replicas, calls and buyers are finitely many; a threshold, a level or a rating is a number.
ASSUME ServicesAssumption ==
  /\ IsFiniteSet(Workers) /\ IsFiniteSet(Calls) /\ IsFiniteSet(Buyers) /\ Buyers # {}
  /\ Founder \in Users
  /\ Thresholds \subseteq Int /\ Levels \subseteq Nat /\ Quantities \subseteq Nat
  /\ SkuPrices \subseteq Nat /\ Stars \subseteq Nat \ {0}
  /\ SeededPlan \in Plans /\ Tiers \subseteq Nat /\ BoostLevels \subseteq Nat
  /\ MaxAgain \in Nat /\ MaxSlow \in Nat /\ MaxLosses \in Nat
  /\ MaxChanges \in Nat /\ MaxQuantity \in Nat /\ MaxRedeliveries \in Nat /\ MaxFaults \in Nat
  /\ MaxRoleCalls \in Nat /\ MaxWrites \in Nat

VARIABLES
  focus,
  at, call, started, faults, queue, redelivered,                      \* several
  known, row, wpc, seen, acked, sends, excuses, again, slow, losses,  \* notification-svc
  scope, role, id,                                                    \* auth-svc, review-svc
  kind, version, entry, answer, change, evicted,                      \* gateway
  cart, put, ordered, excused,                                        \* cart-svc
  product, price, sent, index, last, stale,                           \* catalog-svc
  plans, subscription, planBoost, commits, applied, newest, told, disturbed, \* subscription-svc
  available, reserved, threshold, owed,                                \* inventory-svc
  rating, sum, count, raced,                                          \* review-svc
  thread, messages                                                    \* inquiry-svc

callVars    == <<at, call, started>>
noteVars    == <<known, row, wpc, seen, acked, sends, excuses, again, slow, losses>>
roleVars    == <<scope, role>>
cacheVars   == <<kind, version, entry, answer, change, evicted>>
cartVars    == <<cart, put, ordered, excused>>
eventVars   == <<queue, redelivered>>
catalogVars == <<product, price, sent, index, last, stale>>
planVars    == <<plans, subscription, planBoost, commits, applied, newest, told, disturbed>>
stockVars   == <<available, reserved, threshold, owed>>
reviewVars  == <<rating, sum, count, raced>>
inquiryVars == <<thread, messages>>

Notification == INSTANCE NotificationDedup WITH
  MaxRedeliveries <- MaxAgain, MaxFaults <- MaxLosses, pc <- wpc, redelivered <- again, faults <- losses
Roles   == INSTANCE StaffRoles WITH MaxCalls <- MaxRoleCalls, pc <- at
Cache   == INSTANCE AccessCache WITH pc <- at
Cart    == INSTANCE CartStore WITH MaxCalls <- MaxCartCalls, pc <- at
Catalog == INSTANCE CatalogProjection WITH Prices <- SkuPrices, MaxCalls <- MaxWrites, pc <- at
Subs    == INSTANCE PlanBoost WITH
  Sellers <- Buyers, Boosts <- BoostLevels, MaxCalls <- MaxWrites, pc <- at
Stock   == INSTANCE StockLedger WITH MaxCalls <- MaxStockCalls, pc <- at
Reviews == INSTANCE ReviewRatings WITH MaxCalls <- MaxReviewCalls, pc <- at
Inquiry == INSTANCE InquiryThread WITH MaxCalls <- MaxInquiryCalls, pc <- at

\* What a service's variables hold while it is out of focus.
CheckoutOff ==
  /\ subtotals = Zeros /\ coupon = NoCoupon /\ wanted = 0 /\ rate = Zeros /\ fee = 0
  /\ pc = "off"
  /\ couponRes = "none" /\ pointRes = "none" /\ couponDiscount = 0 /\ pointDiscount = 0
  /\ couponShares = Zeros /\ pointShares = Zeros /\ totals = Zeros
  /\ commissions = Zeros /\ payouts = Zeros
  /\ inserted = FALSE /\ stamped = 0 /\ intent = -1 /\ created = 0
  /\ unanswered = {} /\ unreleased = {}
NoteOff ==
  /\ known = FALSE /\ row = "absent" /\ acked = TRUE
  /\ wpc = [w \in Workers |-> "idle"] /\ seen = [w \in Workers |-> "absent"]
  /\ sends = 0 /\ excuses = 0 /\ again = 0 /\ slow = 0 /\ losses = 0
RolesOff   == scope = 0 /\ role = 0
CacheOff   == kind = 0 /\ version = 0 /\ entry = 0 /\ answer = 0 /\ change = 0 /\ evicted = 0
CartOff    == cart = 0 /\ put = 0 /\ ordered = 0 /\ excused = 0
CatalogOff ==
  product = 0 /\ price = 0 /\ sent = 0 /\ index = 0 /\ last = 0 /\ stale = 0
PlansOff ==
  /\ plans = 0 /\ subscription = 0 /\ planBoost = 0 /\ commits = 0
  /\ applied = 0 /\ newest = 0 /\ told = 0 /\ disturbed = 0
StockOff   == available = 0 /\ reserved = 0 /\ threshold = 0 /\ owed = 0
ReviewsOff == rating = 0 /\ sum = 0 /\ count = 0 /\ raced = 0
InquiryOff == thread = 0 /\ messages = 0

MCInit ==
  /\ focus \in {"checkout", "notification", "roles", "cache", "cart", "catalog", "plans", "stock",
                "reviews", "inquiry"}
  /\ IF focus = "checkout"     THEN Init              ELSE CheckoutOff
  /\ IF focus = "notification" THEN Notification!Init ELSE NoteOff
  /\ IF focus = "roles"        THEN Roles!Init        ELSE RolesOff
  /\ IF focus = "cache"        THEN Cache!Init        ELSE CacheOff
  /\ IF focus = "cart"         THEN Cart!Init         ELSE CartOff
  /\ IF focus = "catalog"      THEN Catalog!Init      ELSE CatalogOff
  /\ IF focus = "plans"        THEN Subs!Init       ELSE PlansOff
  /\ IF focus = "stock"        THEN Stock!Init        ELSE StockOff
  /\ IF focus = "reviews"      THEN Reviews!Init      ELSE ReviewsOff
  /\ IF focus = "inquiry"      THEN Inquiry!Init      ELSE InquiryOff
  /\ focus \in {"checkout", "notification"} => at = 0
  /\ focus \in {"checkout", "notification", "cache"} => call = 0 /\ started = 0
  /\ focus \notin {"cart", "catalog", "plans", "stock", "inquiry"} => faults = 0
  /\ focus \notin {"catalog", "plans"} => queue = 0 /\ redelivered = 0
  /\ focus \notin {"roles", "reviews"} => id = 0

\* A service in focus takes a step; what it does not have in common stays.
Others(groups) == UNCHANGED <<focus, groups>>

MCNext ==
  \/ /\ focus = "checkout" /\ Next
     /\ Others(<<callVars, faults, id, noteVars, roleVars, cacheVars, cartVars, eventVars, catalogVars, planVars, stockVars, reviewVars, inquiryVars>>)
  \/ /\ focus = "notification" /\ Notification!Next
     /\ Others(<<vars, callVars, faults, id, roleVars, cacheVars, cartVars, eventVars, catalogVars, planVars, stockVars, reviewVars, inquiryVars>>)
  \/ /\ focus = "roles" /\ Roles!Next
     /\ Others(<<vars, faults, noteVars, cacheVars, cartVars, eventVars, catalogVars, planVars, stockVars, reviewVars, inquiryVars>>)
  \/ /\ focus = "cache" /\ Cache!Next
     /\ Others(<<vars, call, started, faults, id, noteVars, roleVars, cartVars, eventVars, catalogVars, planVars, stockVars, reviewVars, inquiryVars>>)
  \/ /\ focus = "cart" /\ Cart!Next
     /\ Others(<<vars, id, noteVars, roleVars, cacheVars, eventVars, catalogVars, planVars, stockVars, reviewVars, inquiryVars>>)
  \/ /\ focus = "catalog" /\ Catalog!Next
     /\ Others(<<vars, id, noteVars, roleVars, cacheVars, cartVars, planVars, stockVars, reviewVars, inquiryVars>>)
  \/ /\ focus = "plans" /\ Subs!Next
     /\ Others(<<vars, id, noteVars, roleVars, cacheVars, cartVars, catalogVars, stockVars, reviewVars, inquiryVars>>)
  \/ /\ focus = "stock" /\ Stock!Next
     /\ Others(<<vars, id, noteVars, roleVars, cacheVars, cartVars, eventVars, catalogVars, planVars, reviewVars, inquiryVars>>)
  \/ /\ focus = "reviews" /\ Reviews!Next
     /\ Others(<<vars, faults, noteVars, roleVars, cacheVars, cartVars, eventVars, catalogVars, planVars, stockVars, inquiryVars>>)
  \/ /\ focus = "inquiry" /\ Inquiry!Next
     /\ Others(<<vars, id, noteVars, roleVars, cacheVars, cartVars, eventVars, catalogVars, planVars, stockVars, reviewVars>>)

allVars == <<focus, vars, callVars, faults, id, noteVars, roleVars, cacheVars, cartVars,
             eventVars, catalogVars, planVars, stockVars, reviewVars, inquiryVars>>

\* notification-svc's fairness asks for nothing while the service is off.
MCSpec == MCInit /\ [][MCNext]_allVars /\ Notification!Fairness

-----------------------------------------------------------------------------
\* notification-svc: no acknowledged shipping event is lost.
NotifiedBeforeAck == focus = "notification" => Notification!NotifiedBeforeAck

\* notification-svc: a second notification has a cause of its own.
ExtraSendIsExcused == focus = "notification" => Notification!ExtraSendIsExcused

\* notification-svc: an event of a known type is notified in the end.
EventuallyNotified == Notification!EventuallyNotified

\* auth-svc: the last owner only goes by a call whose actor was demoted meanwhile.
LastTopFallsToADemotedActor == [][focus = "roles" => Roles!LastTopFalls]_allVars

\* gateway: an eviction covers every lookup that auth-svc had yet to answer.
EvictionCovers == focus = "cache" => Cache!EvictionCovers

\* cart-svc: a unit put in the cart is in it or in one order.
UnitsAreConserved == focus = "cart" => Cart!UnitsAreConserved

\* catalog-svc and its readers: the newest event heals the copy.
NewestEventHealsIndex == focus = "catalog" => Catalog!NewestEventHealsIndex

\* subscription-svc and search-svc: a seller's boost is wrong only after a lost or late
\* event, an overlap or a tier that does not tell the plan; the newest event heals it.
BoostsTellPlans == focus = "plans" => Subs!NewestCommitHeals /\ Subs!DriftNeedsACause

\* inventory-svc: a reservation that takes the stock to the threshold is announced.
LowStockIsAnnounced == focus = "stock" => Stock!LowStockIsAnnounced

\* review-svc: the count never drifts and the sum only by a race.
DriftNeedsRace == focus = "reviews" => Reviews!DriftNeedsRace

\* inquiry-svc: a closed thread only gains what was read or created past the check.
ClosedThreadIsQuiet == focus = "inquiry" => Inquiry!ClosedThreadIsQuiet
===============================================================================
