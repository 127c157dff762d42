# TLA+ models of the marketplace's services

The repository is a multi-tenant marketplace: Go services that own one Postgres
schema each, call each other over HTTP/gRPC, publish protobuf events to Google
Pub/Sub and take payments through Stripe. Most of it is CRUD. What is hard is
money and events: a webhook that Stripe repeats until it is acknowledged, calls
to Stripe that must precede or follow a database commit, events that arrive
twice, late and in any order, and rows that several processes write. This
directory models that part, checks it with TLC and proves its safety properties with
TLAPS.

All paths below are relative to `src/backend/services/` unless they start with
`src/`.

## 1. Inventory

| component | state | operations | talks to |
|---|---|---|---|
| order-svc, checkout (`order/internal/app/order_service.go`) | orders, payouts, Stripe PaymentIntent | CreateCheckout, CreateOrder | coupon-svc and loyalty-svc (reserve, release), catalog, auth, Stripe |
| order-svc, settlement (same file, `adapter/postgres/order_repo.go`, `payout_repo.go`) | `orders.status`, publish claim and `paid_event_published_at`, payouts | HandlePaymentSuccess, UpdateOrderStatus, shipment events | Stripe (transfers), coupon-svc and loyalty-svc (commit), Pub/Sub `order.paid` |
| order-svc, cancellation (`order/internal/cancellation`) | cancellation requests | RequestCancellation, ApproveCancellation, RejectCancellation, AdminForceCancel | Stripe (refund, reversal), Pub/Sub `order.cancelled` |
| coupon-svc | coupons (usage_count, limit), reservations, redemptions, refund events | Reserve, Commit, Release, reaper, RefundRedemption, UpdateCoupon, RevokeCoupon | order-svc, `order.cancelled` |
| loyalty-svc | point accounts, ledger, reservations | AwardEarn, Reserve, Commit, Release, two reapers, cancellation, AdjustPoints | order-svc, `order.paid`, `order.cancelled` |
| shipping-svc | shipments, tombstones of cancelled orders, outbox | Create, CancelByOrderID, RegisterShipment, MarkDelivered, outbox relay | `order.paid`, `order.cancelled`, `shipment.*` |
| notification-svc | `processed_events`, an inbox for shipping events | TryClaim, send, MarkSent, Release | `shipment.*`, a mail sender |
| auth-svc | seller teams, platform administrators, API tokens | add, update, remove, transfer, bootstrap; issue, look up, revoke | gateway (HTTP) |
| gateway | 30-second caches of roles and tokens, per replica | Load, Evict, the team, administrator and token handlers | auth-svc |
| cart-svc | one JSON value per buyer in Redis | AddItem, UpdateItemQuantity, RemoveItem, ClearCart, Checkout | catalog, order-svc |
| catalog-svc | products, SKUs, outbox | Create/Update of products and SKUs, status changes | `product.*` |
| search-svc, recommend-svc | a copy of each product; in search-svc a boost per seller | upsert or delete per event; boost upserted, or updated by tier | `product.*`, `subscription-events` |
| inventory-svc | stock, movements | ReserveStock, ReleaseStock, ConfirmSold, UpdateStock | `inventory.low_stock`; `order.cancelled` (logged only) |
| review-svc | reviews, `product_ratings`, replies | create, update, delete | order-svc (purchase check) |
| inquiry-svc | threads and messages | CreateInquiry, PostMessage, CloseInquiry, MarkRead | order-svc (purchase check), `inquiry.*` |
| subscription-svc | plans and subscriptions of sellers and of buyers | CreatePlan, UpdatePlan, SubscribeSeller and the same for buyers | `seller.subscribed`, `subscription_plan.updated` to search-svc; order-svc asks for a buyer's plan |
| frontend, infra, shared packages | none that the services rely on | | |

What makes each modelled component hard, and what makes it correct:

* **Settlement.** Stripe may deliver one webhook to several handlers at once and
  repeats it until one answers 200. A handler reads rows and uses them several
  calls later; it can die between any two. Correct means: a completed payout is
  backed by a transfer for that order; `order.paid` is published only after the
  seller's payout and the discounts, twice only when a claim outlived its TTL,
  and never lost once Stripe has its 200; a payment is acknowledged in the end, unless
  the owner of a reservation refuses its commit for good.
* **Cancellation.** Several calls work on one request; Stripe moves before the
  database does. Correct means: an approval implies the refund, a reversed
  payout implies the reversal, the first verdict stays, and no cancelled order
  is ever written back to paid.
* **Checkout.** Two reservations in two services, integer division, and a
  deferred cleanup. Correct means: no yen appears or vanishes between buyer,
  sellers, commission and platform, discounts never exceed the order or the
  reservation, and a failed checkout gives back what it reserved.
* **Coupons.** Reservations race for the last seat; commit, release and the
  reaper race for one reservation; cancellations give shares back one by one.
* **Points.** A running balance, an append-only ledger and expiry by a FIFO
  replay of that ledger must tell the same story.
* **Shipments and outbox.** `order.paid` and `order.cancelled` in either order,
  two seller calls on one shipment, replicas that poll one outbox without a
  lock while they publish.

* **Notifications.** One claim row decides who of several workers sends; workers
  die, are slow, or cannot reach the row. Correct means: nothing is acknowledged
  unsent, an event is notified in the end, and a duplicate has a cause.
* **Roles.** Checks and writes of one transaction see different commits. Correct
  means: the last owner or super_admin never goes.
* **Gateway caches.** A lookup in flight outlives an eviction. Correct means: a
  replica does not serve what it evicted, but for such a lookup.
* **Carts.** Unlocked read-modify-write of one value, deleted by a checkout.
  Correct means: a unit is in the cart or in one order.
* **Catalog and its copies.** Events tell a whole product, partly as it was before
  the change, and arrive in any order. Correct means: the newest event heals the copy.
* **Plans and boosts.** Events published after the commit, losable, that name a tier
  and not a plan. Correct means: a seller is ranked as its plan says, and where an
  event went missing the next one heals it.
* **Stock, ratings, inquiries.** A write that acts on what an earlier transaction
  read. Correct means: the stock warning is not missed, the aggregate stays the
  aggregate, a closed thread stays quiet.

`PROJECT.json` lists the hazards with the line each bites at and the properties
that would catch it.

## 2. Modules

| module | models |
|---|---|
| `OrderSettlement` | HandlePaymentSuccess, the cancellation workflow, UpdateOrderStatus and order-svc's shipment events, against one Postgres and one Stripe account |
| `DiscountMath` | the integer arithmetic of discounts, their distribution, commission and earned points |
| `Checkout` | one CreateCheckout call; EXTENDS `DiscountMath` |
| `CouponRedemption` | one coupon, its carts and their orders' events |
| `LoyaltyLedger` | one buyer's account, ledger, reservations and both reapers |
| `EventDelivery` | abstract: what a transactional outbox promises |
| `OutboxRelay` | the outbox table and the replicas of shipping-svc's relay; implements `EventDelivery` |
| `Shipments` | one order's shipment in shipping-svc and what order-svc learns of it; composes `OutboxRelay` |
| `NotificationDedup` | notification-svc's inbox for one shipping event, several workers |
| `StaffRoles` | auth-svc's RBAC operations on one seller's team or the platform's administrators |
| `AccessCache` | the gateway replicas' cache of one role or token, and the changes of it |
| `CartStore` | one buyer's cart in cart-svc, and its checkout |
| `CatalogProjection` | one product and its SKUs in catalog-svc, the events, and the copy in search-svc and recommend-svc |
| `PlanBoost` | seller plans and subscriptions in subscription-svc, their events, and the boost per seller in search-svc |
| `StockLedger` | one SKU's stock in inventory-svc |
| `ReviewRatings` | one product's reviews and aggregate in review-svc |
| `InquiryThread` | one thread of inquiry-svc |
| `OrderSettlementProofs`, `OutboxRelayProofs`, `ShipmentsProofs`, `CouponProofs`, `PlanBoostProofs` | theorems about one module each, and their proofs |
| `ServicesProofs` | theorems about the modules that `MCServices` instantiates; EXTENDS it |
| `DiscountsProofs` | theorems about the coupon instances and the points of `MCDiscounts`; EXTENDS it |
| `DiscountMathProofs` | lemmas on sums, recursive functions and shares |
| `MCDiscounts` | two instances of `CouponRedemption` and one of `LoyaltyLedger` in one run |
| `MCServices` | `Checkout` and the nine modules of services beside the order flow, in one run |
| other `MC*` | instances for TLC: symmetry sets and constant sequences |

`MCServices` and `MCDiscounts` do not compose their parts: the services in them share
no state. A variable chosen at the start (`focus`, `instance`) says which part a
behaviour belongs to, every other part's variables hold a constant, and each
property speaks of one part. The state spaces add up instead of being multiplied, and
one configuration checks all of them. Their bounds are CONSTANTS with values in
`services.cfg` and `discounts.cfg` (the cart of three orders alone is fixed in
`MCDiscounts`), so that the theorems speak of any. Variables that several modules call by the
same name are declared once and used by whichever is in focus. The components that
do interact are composed in their own modules: settlement with cancellation, coupons
with the order's events, shipments with the relay and order-svc, the catalog with its
copies, the plans with the boosts.

How code becomes actions: one SQL statement or transaction that takes its locks
at the start, or one call to another service, is one atomic step. Locals of a
Go function that live across steps are variables indexed by the handler. Locals
that are read and used within a step are not. A handler that returns an error
forgets its locals; a crash looks the same. Every call that can fail has a
failing twin that spends one of `MaxFaults`; a call to Stripe or Pub/Sub can also
do its work and lose the answer. Time is an action that moves one thing past its
deadline (`ClaimExpires`, `ClaimAges`, `ReservationLapses`, `EarnLapses`).

Per module:

* **OrderSettlement.** `pc[d]` follows HandlePaymentSuccess through sections (A)
  payout, (B) downstream commits, (C) claim, publish, mark; `at[d]` is the loop
  index; `seenCancelled` and `seenPublished` are what
  FindAllByStripePaymentIntentID returned, stale from then on. `cpc[c]` follows a
  cancellation call through finalizeApproval. ApproveTx (request, order and
  payouts in one transaction) is one step. Amounts are one unit per order, so
  Stripe's limit on what can be refunded or transferred is a count.
  `carriers` says which orders of the cart carry the id of its coupon and of its point
  reservation: a coupon's is stamped on every order with a share, the points' on the first.
  A commit is accepted when it is a replay or finds the reservation pending, and refused
  otherwise, for good (`Accepts`, `CommitRefused`): after the reaper took the reservation
  (`ReservationLapses`), or after another order of the cart committed it.
  ClaimPaidEventPublish is one step. A handler that waited for the row lock reads the
  row as it was when its statement began; it may then find neither a claim to take nor the
  event published, which the handler treats as a claim held by another.
* **Checkout.** `Init` chooses a cart, a coupon, points, rates and fees; each
  call of CreateCheckout is a step with a twin that fails and one that takes effect and
  loses its answer. Of a reservation made by an unanswered call checkout knows nothing
  (`unanswered`). The cleanup releases the coupon, then the points, as far as it knows of
  them, and either release can fail (`unreleased`), before or after it took effect.
* **CouponRedemption.** Commit and Release read the reservation before they
  write, so they are two steps each; the other operations are transactions that
  lock first. Pub/Sub is a set of published events that can be delivered again
  while `MaxFaults` lasts.
* **LoyaltyLedger.** The same split. The expiration pass rebuilds the buckets by
  replaying the ledger, as the code does. A transaction that would violate a
  CHECK of `point_accounts` is rolled back: its action is not enabled.
* **OutboxRelay.** `Run` is claim, publish row by row, mark, record failures;
  `batch`, `ok` and `bad` are its locals. attempt_count and last_error are left
  out. A comment in the relay says that recordFailure restarts the five-minute
  clock; the statement sets processing_at to NULL, which makes the row claimable
  at once, and that is what is modelled.
* **Shipments.** Handlers of one order take the advisory lock and go statement by
  statement; seller calls load, then update guarded by the status they loaded.
  order-svc is reduced to the order's status and the events it sends. The relay
  is the module `OutboxRelay`, instantiated over the same outbox.

* **NotificationDedup.** TryClaim is one SQL statement, but its outer SELECT reads
  the snapshot taken when it started while its INSERT acts on the row as it is: two
  steps, `Receive` and `Claim`. `excuses` counts what may cost another notification.
* **StaffRoles.** A READ COMMITTED transaction: every read is a step (`Check`,
  `ReadTarget`, `Count`) and sees what is committed by then; the write and its commit
  are one. A team has members, admins and an owner, a platform its support, admins and
  super_admin: "member", "admin" and "top". A change to the role that was read does
  nothing; a transfer leaves its actor an admin. Rows have numbers, so that a row deleted
  and created again is not the one that was read.
* **AccessCache.** The subject's versions are numbered. An entry remembers whether
  its lookup was answered before an eviction (`spans`). UpdateRole, Remove and the
  promoted side of a transfer evict nothing (`QuietChange`).
* **CartStore.** Get, then Set or Del, with no version between: a call carries the
  cart it read. `put` is what the buyer's answered calls add up to. A
  Set or Del can take effect and lose its answer.
* **CatalogProjection.** The payload is what the code puts together: some of it read
  before the transaction, some within. A product is created with no SKU, one or several.
  The SKU update commits in a transaction of
  its own (`WriteSku`) before the one that appends the event.
* **PlanBoost.** A call reads the plan, commits, publishes: three steps. `commits`
  numbers the commits, `newest` and `told` say for each seller which one last changed
  what it is entitled to and which one its row comes from; `disturbed` collects what
  an ordered, lossless feed of the plans would not show. promoted_results goes the
  way of the boost and is one datum with it.
* **StockLedger.** Row, movement and warning are three steps, of which the later two
  may be lost. UpdateStock sets the stock and the threshold; the check reads both anew.
  `owed` holds the reservations that took the stock to its threshold and have yet to warn.
* **ReviewRatings.** Updates and deletions load the review in one transaction and
  apply the difference in the next. `CreateReview` is one transaction.
* **InquiryThread.** A creation is one transaction of two steps, because the row it
  did not find can be inserted meanwhile; posting, closing and marking read are two.
  Each message remembers the status its call had read and the status it met.

`order.cancelled` comes in two forms. `order/internal/cancellation/events.go` fills in the
coupon and point amounts, but from the row that ApproveTx returns, which lacks those columns
(section 6): today's events carry neither. `CouponRedemption` chooses at the start whether
events carry the coupon columns (`carried`), `LoyaltyLedger` publishes each event with its
amounts or with zeros. Events without coupon columns are acknowledged with nothing
refunded, and `CarriedCancelIsRefunded` claims nothing of them; events with zeros are applied and
move nothing.

## 3. Runs

Passing runs (`tlc -config <run>.cfg <module>.tla`, the module as `PROJECT.json` names it):

| run | instance | question |
|---|---|---|
| `settlement_pay` | 2 orders, points on the first and a coupon on both or on the second, 2 handlers, 2 faults, fair | do payouts, discounts and order.paid stay consistent under overlapping, repeated and failing deliveries and lapsing reservations, and is the payment acknowledged unless a commit is refused for good? |
| `settlement_cancel` | 1 order, 1 handler, 2 cancellation calls, 2 requests, 1 fault, a seller and shipment events | does Stripe always move first, is a verdict final, can a cancelled order become paid? |
| `discounts` | 2 one-order carts with limits none and 1, or 1 cart of 3 orders with 2 faults, 2 concurrent calls each; or a buyer's 3 orders, 1 that earns and 2 that redeem (1 of these earns and may be cancelled), with 1 adjustment | is usage_count exact and the coupon never oversold; one redemption per cart, each share refunded once, no event that carries the coupon acknowledged in vain; does the ledger explain the account, and its FIFO replay the balance until something is credited? |
| `loyalty_expiry` | 2 orders, 1 debit, fair | does every lapsed earn expire and every cancellation apply? |
| `outbox` | 2 replicas, 3 rows, batches of 2, 2 faults | is no row closed unsent, are duplicates excused, does it implement `EventDelivery`? |
| `shipment` | 1 order, 2 handlers, 2 seller calls, 1 relay, 3 handled events, 1 fault, fair | does a cancellation absorb a late payment, and does order-svc learn of a shipment? |
| `services` | one service per behaviour, see below | do the amounts of a checkout add up and does its failure release; and what the other services promise |

What the parts of `services` are instances of, and what they show:

| focus | instance | property |
|---|---|---|
| checkout | 3 sellers, 4 prices, 6 coupons, points below and above the total | `DiscountWithinOrder`, `MoneyAddsUp`, `FailureReleases` |
| notification | 2 workers, 2 duplicates of the broker, 1 slow claim, 2 faults, fair | `NotifiedBeforeAck`, `ExtraSendIsExcused`, `EventuallyNotified` |
| roles | 3 users, 2 calls at a time, 3 in all; a seller, or a platform before or after its bootstrap | `LastTopFallsToADemotedActor`: the top role only dies out by a call whose actor lost it after the check |
| cache | 2 gateways, 2 requests on each, 2 changes | `EvictionCovers` |
| cart | 2 SKUs, up to 2 units a call, 2 calls at a time, 4 in all, 1 failure or lost answer | `UnitsAreConserved` |
| catalog | 2 SKUs, 2 prices, 2 calls at a time, 3 in all, 1 redelivery, 1 fault | `NewestEventHealsIndex` |
| plans | 2 sellers, 2 plans, 2 tiers, 2 boosts, 2 calls at a time, 3 in all, 1 failure or lost event, 1 redelivery | `BoostsTellPlans`: a boost is wrong only after a lost or late event, an overlap or a tier that does not tell the plan, and the newest event heals it |
| stock | thresholds 0 and 2, levels 1 and 3, 2 calls at a time, 4 in all, 1 fault | `LowStockIsAnnounced` |
| reviews | 2 buyers, 1 or 3 stars, 2 calls at a time, 5 in all | `DriftNeedsRace` |
| inquiry | 2 calls at a time, 5 in all, 1 fault | `ClosedThreadIsQuiet` |

Several of these say what is left of a promise the code does not keep in full: the
excuse in the property names the exact race or loss that breaks it (`excused`, `stale`,
`raced`, `spans`, `disturbed`, `unanswered`, `unreleased`, a refused commit, the demoted
actor), and the property shows that nothing else does.

Runs that TLC must find violated, each a statement of the repository that the
code does not keep:

| run | statement | what happens |
|---|---|---|
| `finding_two_transfers` | `src/docs/payment.md:362`: a transfer idempotency key prevents duplicates | CreateTransfer sends no key; two overlapping deliveries read the payout as pending and both transfer |
| `finding_second_order_commit` | `order/internal/app/order_service.go:511`: commit uses only the anchor's reservation | every discounted order carries the reservation and the webhook commits each; the second gets ErrReservationAlreadyTerminal, and so does every redelivery |
| `finding_expiry_stuck` | `loyalty/internal/app/loyalty_service.go:1078`: the third term is always zero | once credited points are redeemed the leftover debit is dropped, and the expiration pass aborts for this buyer |
| `finding_last_owner` | `auth/internal/app/rbac.go:150` and `:219`: the last owner cannot be demoted or removed | a removal reads its target as a member, a transfer makes the target the owner and its actor an admin, then the removal is written; a change between admin and member in its place does the same |
| `finding_rating_drift` | `review/internal/app/review_service.go:121`: review and aggregate change in one transaction so they cannot diverge | two calls on one review each apply the difference to the rating both read |

**Bounds.** Two is enough for the races the code is exposed to: two handlers
contend for one claim, one payout or one reservation, and a third only repeats
what the second can do. Of the other services, two calls at a time are the race, and
the number in all lets a third follow it (a promotion before two removals, a review
created, deleted and created again). Three orders in a cart let the refunds of two
shares be followed by a third. Two orders are needed for "the first succeeded, the
second did not", two requests for "failed, then retried". Two faults let a
recovery be interrupted again. Three rows and batches of two leave a
batch partly published, partly failed and a row outside it. `CHECK_DEADLOCK
FALSE` is everywhere because these systems stop legitimately: the order is
delivered, the faults are spent, the seller does nothing. Counters are capped:
`paidEvents` and `sent` at 2 ("two or more"), faults by `MaxFaults`, handled events
by `MaxHandled`. Symmetry is used for interchangeable handlers, callers, workers, buyers and
replicas, and only in runs without liveness properties.

**Fairness.** Weak, and only for what the code or its environment repeats:

* a running handler's next step, and Stripe's redelivery until it gets a 200
  (`Delivery`); a publish claim ages (`ClaimExpires`). Failures are bounded by
  `MaxFaults`, so from some point on nothing fails any more. Refused commits are not
  failures and are not bounded: `PaymentEventuallySettled` excuses a payment one of whose
  orders has its commit refused. The carts of `settlement_pay` whose coupon falls on the
  second order alone are free of it unless a reservation lapses, which nothing forces;
* coupon and loyalty reapers run on a ticker, calls return, the broker
  redelivers until a handler answers nil, reservations lapse;
* Pub/Sub redelivers a shipping event that nobody holds or has acknowledged, a worker's
  running call takes its next step, and ten minutes pass over an abandoned claim
  (`NotificationDedup!Fairness`). Failures, slow claims and duplicates are bounded;
* the relay's five-second ticker, the database clock, and Pub/Sub's redelivery of
  a shipment event.

Sellers, buyers and administrators owe nothing and have no fairness.

## 4. What is proved

Every safety property that a passing run checks, and the refinement, is also a theorem
of the specification, for every value of the constants the assumptions allow: any
number of orders, handlers, calls, users, gateways, SKUs, carts, buyers, rows and
faults, any amounts. The runs show them on the instances of section 3, the theorems
everywhere else. Most of these properties are not inductive; the strengthening says
why the code keeps them, and is given below.

`OrderSettlementProofs`:

| theorem | property | what the invariant adds |
|---|---|---|
| `TypeCorrect` | `TypeOK` | `creq[c]` and `cpayout[c]` are array indices: a call past a given label holds a real request |
| `StripeBeforeDatabase` | `ApprovedIsRefunded` | a call past CreateRefund holds a request that Stripe has refunded; refunds only grow, and ApproveTx approves the request it holds |
| `ClaimIsExclusive` | `DuplicatePaidOnlyAfterExpiry` | until a claim has outlived its TTL, at most one handler is between claim and mark, and none after the event is out |
| `PayoutsAreBacked` | `PayoutCompletedIsBacked` | the transfer a handler is about to record was made for its order |
| `PaidFollowsSettlement` | `PaidEventNeedsSettlement` | a handler past the payout has seen its transfer, one past a commit has that discount in, and its order is no longer pending |
| `AckLosesNoEvent` | `AckedIsHandled` | each order before a handler's index is handled; what it believes published is published; a mark comes after the event |
| `ReversalsAreReal` | `ReversedPayoutIsReversed` | from ListPayouts on a call works on one request of one order, and its transfer is reversed before ApproveTx |
| `WebhookNeverResurrects`, `FirstVerdictWins` | `PaidOnlyFromPending`, `VerdictIsFinal` (action properties) | `TypeCorrect`: a handler writes the order at its index, a call the request it holds |

`OutboxRelayProofs`:

* `TypeCorrect`, and `NothingClosedUnsent`: `Spec => []PublishedIsSent`. Mark trusts a
  replica's memory, so the invariant adds that every row a replica believes published
  is sent.
* `DuplicatesAreExcused`: a row nothing has gone wrong with has at most one holder,
  whose claim is fresh, and once it is sent it is closed or still claimed.
* `Implements`: `Spec => ImplementsDelivery`. Append maps to Record, a publish
  (answered or not) to Deliver, Mark to Close, everything else to a stutter.

`ShipmentsProofs`:

* `CancellationAbsorbsPaid`: the invariant adds what CancelByOrderID has found out and
  still relies on between its statements. It stays true because the advisory lock
  keeps InsertShipment out and no seller call makes a shipment wait again. `OutboxTellsStatus`
  (`EventsTellStatus`) follows from the guarded update, and `OrderIsNeverAhead` from what an event tells.
* `ImplementsRelay`: every behaviour of the composition is one of `OutboxRelay`, whose
  `Spec` is the refinement's target; `InheritedFromRelay` then carries the theorems about
  the relay over to shipping-svc.

`CouponProofs`: `SeatsAreExact` needs that a reservation is committed exactly when it has
its one redemption and that only a committed one is fully refunded; without that a
refund could free the seat of a reservation that holds none. `CartsAreRedeemedOnce`,
`CouponIsNotOversold`, `RefundsAreExact` (a sum over the cancelled orders' shares) and
`CarriedCancelIsRefundedOnAck`, for events of either form, which is inductive as it stands.
`TypeCorrect` says that locals and reservations are well typed.

`DiscountsProofs` brings these to the specification that `discounts` checks, where two
instances take turns: the second instance is shown to be the same module with other constants,
action by action (`SameModule`), so that `CouponProofs`, instantiated, speaks of it. For
loyalty-svc it proves

* `LedgerAlwaysExplains` and `LedgerTellsAccountInTurn`: the rows, the balance and both
  lifetime counters are sums of the ledger. The invariant is the property itself,
  stated of a ledger that is given, so that rows can be added to it one at a time also where one
  transaction adds several (`TellsOneMore`; `ExpireRowsExplain` for a whole pass);
* `PendingIsAlwaysReserved` and `PendingTellsReservationsInTurn`;
* `ReplayNeverShort` (`BucketsCoverBalance`), `BucketsTellBalanceInTurn`, and for constants
  that credit nothing `ReplayExplainsBalance`. The argument: a longer ledger is replayed as its
  beginning was, with an empty bucket at the end (`ReplayedExtended`, `BucketsOneMore`); a row
  then changes one bucket or drains the oldest ones, and what a debit drains is the debit,
  or all there is (`ConsumeTakes`); within an expiration pass the buckets that are still to be marked
  are those the pass started from (`ExpireRowsReplay`). The equation is lost exactly when a
  debit exceeds what is left of the earns, which takes a credit: `finding_expiry_stuck`. The condition
  `NoPlatformCredits` (adjustments are negative and no order that redeemed points is
  cancelled) is what `loyalty_expiry` instantiates; with the equation lost, the buckets and
  credits exceed the balance and never fall short of it.

`ServicesProofs`, for the modules that `services` composes, each theorem of the service's own
specification and again "in turn" (`MCSpec`):

| part | strengthening |
|---|---|
| checkout | `FailedCheckoutReleases`: until the cleanup a discount is held by its reservation, and any other reservation was made by a call that gave no answer. `DiscountsStayWithin`, `EveryYenIsAccountedFor`: order by order, shares within the subtotal, an unclamped total, payout and commission that divide what the order is funded with; the sums follow from `DiscountMathProofs` |
| notification | every notification but the first, sent or still owed, has used up an excuse of its own, counting workers past their claim and a row the next claim wins |
| roles | a transfer carries the top role; past its checks any other call names somebody but its actor. Hence only a demoted actor can fell the last one |
| cache | an answer under way that is older than the last eviction was there before it; no gateway evicts for a change to come |
| cart | a call that nobody overlapped holds the cart as it is |
| catalog | what a call nobody overlapped has read is what is there; the newest event tells the product; the copy is the image of the event applied last |
| plans | `PlanBoostProofs` (below), carried over by showing the instance in `MCServices` and an instance of the proofs to be the same module |
| stock | while the stock is low, a reservation that owes a warning is on its way to give it |
| reviews | none but types: the aggregate is a sum over buyers that changes where a rating does |
| inquiry | a posting call has read an open thread, and a thread that was read is there |

`PlanBoostProofs`, given `Params` (the seeded plan is a plan, there is a seller, the bounds
are numbers):

* `PlanBoostInv`: an announcement of a seller's newest commit, queued or about to be
  published, tells the seller's plan; numbers are never used twice; a subscription nobody
  overtook holds the plan as it is; plans that are referred to exist. `NewestCommitAlwaysHeals`
  follows.
* `DriftAlwaysNeedsACause` (`DriftNeedsACause`): while nothing is disturbed, each seller's newest
  commit is on its way or applied, the last subscription names the plan's tier and the row has the
  tier of the last subscription delivered, unless an event was overtaken and is thereby late.

`DiscountMathProofs` holds the lemmas: sums of sequences and over finite sets add up, agree,
split and change in one place; a recursive function over 0..n exists and is what its equations say
(`RecursionExists`); shares are within their order and within the discount.

**Induction.** The library's induction theorems take an operator as a parameter and
cannot be used with the installed provers. The sums, the replay and the pass are reached
otherwise: a set T of numbers up to n that holds 0, and i with i - 1, is 0..n (`Upto`, from the
least element that is missing), applied to the set of numbers for which the claim holds.

**Assumed**, of the constants only: the bounds are numbers, at least one order, seller,
buyer or cart where the code has one, amounts are not negative, rates are at most 10000
basis points, sets of callers, workers and buyers are finite where their members are counted or summed over,
the founder is a user. They are the ASSUMEs `NumOrdersAssumption`, `CartsAssumption` and their neighbours, `NumRowsAssumption` and
its neighbours, `MaxHandledAssumption`, `RelayAssumption`, `HandlersAssumption`, `CheckoutAssumption`,
`CouponAssumption`, `LoyaltyAssumption`, `PointsAssumption` and `ServicesAssumption`.

**Only model-checked:** the liveness properties (`PaymentEventuallySettled`, `LapsedEarnIsMarked`,
`CancelEventuallyApplied`, `RowsArePublished`, `ShipmentReachesOrder`, `EventuallyNotified`): fairness and
ENABLED are beyond the prover. What the findings violate is refuted by a run and not proved about.

## 5. Not modelled

* Amounts in settlement and cancellation (one unit per order), currencies,
  audit columns, read-only queries, authorisation checks, tracing and logging.
* CreateOrder: the older single-seller path repeats CreateCheckout for one
  group. It inserts no payout, which is one of `OrderSettlement`'s initial states.
* CreateCoupon and the patched fields of UpdateCoupon other than the limit:
  validation of a row nobody contends for.
* Deadlocks between row locks: Postgres aborts one transaction, which every model
  allows as a step that does not happen.
* A row the broker rejects for ever: fifty of them would starve the outbox, since
  a recorded failure is claimable at once. The code produces no such event.
* notification-svc's other subscribers: each sends and returns the sender's error,
  remembering nothing between deliveries.
* inventory-svc's AdjustStock and ReleaseForOrderCancellation have no caller; the
  `order.cancelled` subscriber only logs. The contents of stock_movements.
* Categories in catalog-svc, the ranking query in search-svc,
  recommend-svc's behaviour events, replies in review-svc, issuing and listing API
  tokens and approving sellers in auth-svc: single statements or queries that nothing
  contends for. The gateway's rate limiter is a script Redis runs atomically.
* In subscription-svc, buyer plans and subscriptions: upserts that publish nothing.
  seller_subscription.cancelled, which search-svc handles, is published by nobody.
* The connection pool. Reads made on a second connection while a transaction holds
  one (section 6) can exhaust it; the models give every call its connection.
* The frontend and the infrastructure keep no state the services rely on. The type
  invariants are part of no run: they are proved, as theorems of their own or within
  the invariants of section 4.

## 6. Disagreements met while modelling, without a run

* A delivery that read the order before a cancellation committed goes on to
  transfer money for it: `order_service.go:685` falls through on
  ErrOrderNotPending, `order_repo.go:382` says the transfer is skipped then.
* A request that a seller rejected while an approval was under way is refunded
  nevertheless: `cancellation/service.go:393` runs before the guarded update that
  `src/docs/order-cancellation.md:173` relies on.
* A retry under a new request refunds under a new key: `cancellation/service.go:392`
  against `adapter/stripe/client.go:96`.
* DistributeDiscount caps the bucket that absorbs the rounding remainder, so
  shares can sum to less than the discount that is burned (`domain/discount.go:59`
  against `order_service.go:429`).
* A redelivered `order.cancelled` hits a duplicate key inside the outer
  transaction, which Postgres has then aborted; the handler's "already refunded"
  becomes a commit error and the event is nacked again
  (`coupon/internal/app/coupon_service.go:526` against
  `coupon/internal/adapter/pubsub/order_subscriber.go:20`).
* `order.cancelled` is built from the row ApproveTx returns, which lacks the coupon
  and point columns (`cancellation/repository.go:349` against
  `cancellation/events.go:88`): a cancelled order's coupon share and points are not given back.
* A cancellation that finds the shipment already shipped is dropped:
  `shipping/internal/adapter/postgres/shipment_repo.go:215` against its comment at 173.
* A point reservation that lapses before the payment makes the webhook's commit
  fail on every redelivery (`loyalty/internal/app/loyalty_service.go:362`);
  `PaymentEventuallySettled` excuses it.
* Products, categories and team members are read by GetByID on a connection of their own
  inside a transaction that already holds one; enough such calls at once wait on the
  pool for ever (`catalog/internal/app/catalog_service.go:387`,
  `auth/internal/app/rbac.go:170`).
* A SKU update commits in its own transaction, outside the outbox's
  (`catalog/internal/adapter/postgres/sku_repo.go:113`), though
  `catalog_service.go:382` means them to be one. `CatalogProjection` counts it as
  `stale`.
* TryClaim's outer SELECT reads an older snapshot than its upsert:
  `notification/internal/adapter/postgres/event_deduplicator.go:27` says there is no
  gap. A worker whose snapshot holds no row gets no row back, which is an error, and
  errors fail open.
* A token looked up before its revocation is cached after the eviction:
  `gateway/internal/middleware/apitoken/loader.go:167` says the change is visible
  immediately. UpdateRole and Remove of a team member evict nothing.
* A cart's price snapshot is what order-svc charges
  (`order/internal/app/order_service.go:108`), though `cart/internal/domain/cart.go:21`
  says checkout validates it against the catalog.
* The search index keeps draft products, and products archived out of order, and the
  query filters on the status only when the request names one
  (`search/internal/engine/postgres.go:57`).
* After the unique violation of a racing CreateInquiry Postgres has aborted the
  transaction, so the fallback to the other's row
  (`inquiry/internal/adapter/postgres/inquiry_repo.go:80`) fails; and CreateInquiry
  appends to a closed thread, which PostMessage refuses.
* `inventory/internal/app/inventory_service.go:143` says the order subscriber releases
  stock; it logs and returns.

* A late shipment event moves a cancelled or delivered order back to shipped:
  UpdateStatus (`order/internal/adapter/postgres/order_repo.go:364`) is unconditional,
  `order/internal/adapter/pubsub/shipping_subscriber.go:25` speaks of a conditional one.
* Orders inserted before a failed PaymentIntent call stay pending:
  `order_service.go:580` against `src/docs/payment.md:351`.
* A plan's new boost goes to the rows of its tier
  (`search/internal/adapter/pubsub/subscription_subscriber.go:123`), though `:56` there and
  `subscription/internal/app/subscription.go:84` mean every seller on the plan. A plan
  whose tier changed misses its own sellers. `PlanBoost` counts it as `disturbed`.

## 7. Plan

Done: the services with state that several steps or processes contend for, with the
runs above, and a theorem for every safety property the passing runs check.

Proofs worth having next:

* `Shipments`: that a row of the outbox tells the status the shipment had when it was
  appended, so that `ImplementsDelivery` carries the story to order-svc in order.
* `LoyaltyLedger`: what a credit costs the replay, as an equation in place of the inequality
  of `ReplayNeverShort`.
* `DiscountMath`: that the shares of a discount with no capped bucket add up to it.
* `OrderSettlement`: what separates the second transfer of `finding_two_transfers` from the
  first, as an invariant that excuses overlapping deliveries only.

Models: `Checkout` composed with `OrderSettlement` for a PaymentIntent that is
attached to part of the batch; `ReleaseForOrderCancellation` when the subscriber calls
it; CreateOrder with `Checkout`'s operators.
