------------------------------ MODULE PlanBoost -------------------------------
(***************************************************************************)
(* subscription-svc's seller plans and subscriptions, and the boost that    *)
(* search-svc keeps per seller.  An event is published after the commit, by *)
(* a call that ignores failures, and carries no plan the projection could   *)
(* match: a plan's new boost goes to the rows that have the plan's tier.    *)
(***************************************************************************)
EXTENDS Naturals

CONSTANTS
  Plans, SeededPlan, \* the plan the migration inserts is one of Plans
  Sellers,
  Tiers, Boosts,     \* what a plan may have; a boost of 0 is one left out
  Calls,             \* calls in progress
  MaxCalls,          \* bound: calls started
  MaxRedeliveries,   \* bound: events delivered again
  MaxFaults          \* bound: calls that fail, or whose event is lost

VARIABLES
  plans,        \* plan -> its tier and boost, or NoPlan
  subscription, \* seller -> the plan it is on, or "none"
  planBoost,    \* seller -> its row of the projection, or NoRow
  pc, call,
  commits,      \* commits so far; an event has the number of its commit
  queue,        \* events still to be delivered
  applied,      \* the highest number the subscriber has handled
  newest,       \* seller -> the commit that last changed what it is entitled to
  told,         \* seller -> the event its row comes from
  disturbed,    \* what has happened that an ordered, lossless feed would not see
  started, redelivered, faults

vars == <<plans, subscription, planBoost, pc, call, commits, queue, applied, newest, told,
          disturbed, started, redelivered, faults>>
feedVars == <<planBoost, queue, applied, told, redelivered>>

NoPlan == [tier |-> 0, boost |-> 0, exists |-> FALSE]
Plan(tier, boost) == [tier |-> tier, boost |-> boost, exists |-> TRUE]
NoRow == [tier |-> 0, boost |-> 1, exists |-> FALSE]
NoCall == [op |-> "none", seller |-> CHOOSE s \in Sellers : TRUE, plan |-> SeededPlan,
           new |-> NoPlan, overlapped |-> FALSE, commit |-> 0]

PlanRecords == [tier : Tiers \cup {0}, boost : Boosts \cup {0, 1}, exists : BOOLEAN]
CallRecords == [op : {"none", "subscribe", "update"}, seller : Sellers, plan : Plans,
                new : PlanRecords, overlapped : BOOLEAN, commit : Nat]
Events == [op : {"subscribe", "update"}, seller : Sellers, tier : Tiers \cup {0},
           boost : Boosts \cup {0, 1}, n : Nat]

TypeOK ==
  /\ plans \in [Plans -> PlanRecords]
  /\ subscription \in [Sellers -> Plans \cup {"none"}]
  /\ planBoost \in [Sellers -> PlanRecords]
  /\ pc \in [Calls -> {"idle", "write", "publish"}]
  /\ call \in [Calls -> CallRecords]
  /\ commits \in Nat /\ applied \in Nat /\ queue \subseteq Events
  /\ newest \in [Sellers -> Nat] /\ told \in [Sellers -> Nat]
  /\ disturbed \subseteq {"lost", "late", "overlap", "tier"}
  /\ started \in 0..MaxCalls /\ redelivered \in 0..MaxRedeliveries /\ faults \in 0..MaxFaults

Init ==
  /\ plans = [p \in Plans |-> IF p = SeededPlan THEN Plan(0, 1) ELSE NoPlan]
  /\ subscription = [s \in Sellers |-> "none"] /\ planBoost = [s \in Sellers |-> NoRow]
  /\ pc = [c \in Calls |-> "idle"] /\ call = [c \in Calls |-> NoCall]
  /\ commits = 0 /\ queue = {} /\ applied = 0
  /\ newest = [s \in Sellers |-> 0] /\ told = [s \in Sellers |-> 0]
  /\ disturbed = {} /\ started = 0 /\ redelivered = 0 /\ faults = 0

-----------------------------------------------------------------------------
Started == started < MaxCalls /\ started' = started + 1

\* CreatePlan inserts a plan and tells nobody; two plans may have one tier.
CreatePlan == \E p \in Plans, t \in Tiers, b \in Boosts :
  /\ Started /\ ~plans[p].exists
  /\ plans' = [plans EXCEPT ![p] = Plan(t, b)]
  /\ UNCHANGED <<feedVars, subscription, pc, call, commits, newest, disturbed, faults>>

\* Both other calls read the plan first, each in a transaction of its own.
Begin(c, request) ==
  /\ pc[c] = "idle" /\ Started
  /\ plans[request.plan].exists
  /\ call' = [call EXCEPT ![c] = request]
  /\ pc' = [pc EXCEPT ![c] = "write"]
  /\ UNCHANGED <<feedVars, plans, subscription, commits, newest, disturbed, faults>>

SubscribeSeller(c) == \E s \in Sellers, p \in Plans :
  Begin(c, [NoCall EXCEPT !.op = "subscribe", !.seller = s, !.plan = p, !.new = plans[p]])
UpdatePlan(c) == \E p \in Plans, t \in Tiers, b \in Boosts :
  Begin(c, [NoCall EXCEPT !.op = "update", !.plan = p, !.new = Plan(t, b)])

\* Calls that will announce the plan as they read it before this commit.
Outdated(p) == [d \in Calls |->
  IF call[d].op = "subscribe" /\ pc[d] = "write" /\ call[d].plan = p
  THEN [call[d] EXCEPT !.overlapped = TRUE] ELSE call[d]]

\* UpsertSellerSubscription: one row per seller.
WriteSubscription(c) ==
  /\ pc[c] = "write" /\ call[c].op = "subscribe"
  /\ commits' = commits + 1
  /\ subscription' = [subscription EXCEPT ![call[c].seller] = call[c].plan]
  /\ newest' = [newest EXCEPT ![call[c].seller] = commits + 1]
  /\ disturbed' = disturbed \cup (IF call[c].overlapped THEN {"overlap"} ELSE {})
  /\ call' = [call EXCEPT ![c].commit = commits + 1]
  /\ pc' = [pc EXCEPT ![c] = "publish"]
  /\ UNCHANGED <<feedVars, plans, started, faults>>

\* The tier no longer tells the plan's sellers apart from those of other plans.
Blurred(p, new) ==
  \/ new.tier # plans[p].tier
  \/ \E q \in Plans \ {p} : plans[q].exists /\ plans[q].tier = new.tier

WritePlan(c) ==
  /\ pc[c] = "write" /\ call[c].op = "update"
  /\ LET p == call[c].plan IN
       /\ commits' = commits + 1
       /\ plans' = [plans EXCEPT ![p] = call[c].new]
       /\ newest' = [s \in Sellers |-> IF subscription[s] = p THEN commits + 1 ELSE newest[s]]
       /\ disturbed' = disturbed \cup (IF Blurred(p, call[c].new) THEN {"tier"} ELSE {})
       /\ call' = [Outdated(p) EXCEPT ![c].commit = commits + 1]
  /\ pc' = [pc EXCEPT ![c] = "publish"]
  /\ UNCHANGED <<feedVars, subscription, started, faults>>

\* seller.subscribed or subscription_plan.updated; the plan itself is not used.
Event(c) ==
  [op |-> call[c].op, seller |-> call[c].seller, tier |-> call[c].new.tier,
   boost |-> call[c].new.boost, n |-> call[c].commit]

Publish(c) ==
  /\ pc[c] = "publish"
  /\ queue' = queue \cup {Event(c)}
  /\ call' = [call EXCEPT ![c] = NoCall]
  /\ pc' = [pc EXCEPT ![c] = "idle"]
  /\ UNCHANGED <<plans, subscription, planBoost, commits, applied, newest, told, disturbed,
                 started, redelivered, faults>>

\* The call fails before its commit, or the event is lost after it: PublishProtoEvent
\* only logs an error, and a replica that dies publishes nothing.
Fail(c) ==
  /\ pc[c] # "idle" /\ faults < MaxFaults
  /\ faults' = faults + 1
  /\ disturbed' = disturbed \cup (IF pc[c] = "publish" THEN {"lost"} ELSE {})
  /\ call' = [call EXCEPT ![c] = NoCall]
  /\ pc' = [pc EXCEPT ![c] = "idle"]
  /\ UNCHANGED <<feedVars, plans, subscription, commits, newest, started>>

-----------------------------------------------------------------------------
\* A boost of 0 is read as 1, the baseline.
Effective(boost) == IF boost = 0 THEN 1 ELSE boost

\* upsertBoost.
Row(old, e) == [tier |-> e.tier, boost |-> Effective(e.boost), exists |-> TRUE]

\* Mutant of Reaches: an update also reaches the tiers below.
ReachesUpTo(e, s) ==
  IF e.op = "subscribe" THEN s = e.seller ELSE planBoost[s].exists /\ planBoost[s].tier <= e.tier

\* The rows an event is applied to: the seller's own, or all of the plan's tier.
Reaches(e, s) ==
  IF e.op = "subscribe" THEN s = e.seller ELSE planBoost[s].exists /\ planBoost[s].tier = e.tier

\* The subscriber handles an event, which may have to be delivered again.  It also
\* knows seller_subscription.cancelled, which no service publishes.
Deliver == \E e \in queue :
  /\ planBoost' = [s \in Sellers |->
       IF ~Reaches(e, s) THEN planBoost[s]
       ELSE IF e.op = "subscribe" THEN Row(planBoost[s], e)
       ELSE [planBoost[s] EXCEPT !.boost = Effective(e.boost)]]
  /\ told' = [s \in Sellers |-> IF Reaches(e, s) THEN e.n ELSE told[s]]
  /\ disturbed' = disturbed \cup (IF e.n < applied THEN {"late"} ELSE {})
  /\ applied' = IF e.n < applied THEN applied ELSE e.n
  /\ \/ queue' = queue \ {e} /\ UNCHANGED redelivered
     \/ redelivered < MaxRedeliveries /\ redelivered' = redelivered + 1 /\ UNCHANGED queue
  /\ UNCHANGED <<plans, subscription, pc, call, commits, newest, started, faults>>

Next ==
  \/ CreatePlan
  \/ \E c \in Calls :
       \/ SubscribeSeller(c) \/ UpdatePlan(c) \/ WriteSubscription(c) \/ WritePlan(c)
       \/ Publish(c) \/ Fail(c)
  \/ Deliver

Spec == Init /\ [][Next]_vars

-----------------------------------------------------------------------------
\* The seller's row ranks its products as its plan says.
Tells(s) ==
  subscription[s] # "none" =>
    LET p == plans[subscription[s]] IN
    planBoost[s] = [tier |-> p.tier, boost |-> Effective(p.boost), exists |-> TRUE]
Quiet == queue = {} /\ \A c \in Calls : pc[c] = "idle"

\* A row that comes from the newest commit about its seller is the seller's plan,
\* whatever was lost, repeated or out of order before: subscribing anew, or updating
\* the plan once more, heals the row.  Not so a subscription that announced a plan
\* which changed between the read and the commit.
NewestCommitHeals ==
  "overlap" \notin disturbed =>
    \A s \in Sellers : newest[s] > 0 /\ told[s] = newest[s] => Tells(s)

\* Without a lost or late event, an overlap, or a tier that changed or is shared by two
\* plans, the tier is as good as the plan and every row is right once all is delivered.
DriftNeedsACause == Quiet /\ disturbed = {} => \A s \in Sellers : Tells(s)
===============================================================================
