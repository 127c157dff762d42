---------------------------- MODULE PlanBoostProofs ----------------------------
(***************************************************************************)
(* For all plans, sellers, tiers and calls: a row of the projection that    *)
(* comes from the newest commit about its seller tells the seller's plan.   *)
(***************************************************************************)
EXTENDS PlanBoost, TLAPS

\* What a run of the two services is given.
Params ==
  /\ SeededPlan \in Plans /\ Sellers # {}
  /\ Tiers \subseteq Nat /\ Boosts \subseteq Nat
  /\ MaxCalls \in Nat /\ MaxRedeliveries \in Nat /\ MaxFaults \in Nat

\* A commit's number is new, and so is the number of the event it publishes.
Numbered ==
  /\ \A s \in Sellers : newest[s] <= commits /\ told[s] <= commits
  /\ \A e \in queue : e.n <= commits
  /\ \A c \in Calls : pc[c] = "publish" => call[c].commit <= commits

\* Plans are never deleted, so what refers to a plan refers to one that exists.
RefersToPlan ==
  /\ \A s \in Sellers : subscription[s] # "none" => plans[subscription[s]].exists
  /\ \A c \in Calls : pc[c] # "idle" => plans[call[c].plan].exists
  /\ \A c \in Calls : pc[c] # "idle" => call[c].op \in {"subscribe", "update"}

\* An update leaves a plan that exists.
UpdatesExist == \A c \in Calls : call[c].op = "update" => call[c].new.exists

\* A subscription that nobody has overtaken holds the plan as it is.
ReadsPlan ==
  \A c \in Calls :
    pc[c] = "write" /\ call[c].op = "subscribe" /\ ~call[c].overlapped =>
      call[c].new = plans[call[c].plan]

\* An announcement of seller s's newest commit, published or not, tells its plan.
Concerns(a, s) == a.op = "subscribe" => a.seller = s
TellsPlan(a, s) ==
  a.tier = plans[subscription[s]].tier /\ a.boost = plans[subscription[s]].boost
Announced ==
  \A s \in Sellers : subscription[s] # "none" =>
    /\ \A e \in queue : e.n = newest[s] /\ Concerns(e, s) => TellsPlan(e, s)
    /\ \A c \in Calls :
         pc[c] = "publish" /\ call[c].commit = newest[s] /\ Concerns(call[c], s) =>
           TellsPlan(call[c].new, s)
RowsTell == \A s \in Sellers : newest[s] > 0 /\ told[s] = newest[s] => Tells(s)

IInv ==
  /\ TypeOK /\ Numbered /\ RefersToPlan /\ UpdatesExist /\ ReadsPlan
  /\ "overlap" \notin disturbed => Announced /\ RowsTell

-----------------------------------------------------------------------------
LEMMA Idle == ASSUME Params PROVE NoCall \in CallRecords /\ NoCall.op = "none"
<1>1. (CHOOSE s \in Sellers : TRUE) \in Sellers
  BY Params DEF Params
<1> QED
  BY <1>1, Params DEF Params, NoCall, CallRecords, NoPlan, PlanRecords

\* At first nothing is committed and nothing announced.
LEMMA InitInv == ASSUME Params, Init PROVE IInv
<1>1. TypeOK
  BY Idle, Params DEF Params, Init, TypeOK, PlanRecords, Plan, NoPlan, NoRow
<1>2. Numbered /\ RefersToPlan /\ UpdatesExist /\ ReadsPlan
  BY Idle DEF Init, Numbered, RefersToPlan, UpdatesExist, ReadsPlan
<1>3. Announced /\ RowsTell
  BY DEF Init, Announced, RowsTell
<1> QED
  BY <1>1, <1>2, <1>3 DEF IInv

\* A plan that does not exist yet is nobody's plan.
LEMMA CreatePlanInv == ASSUME Params, IInv, CreatePlan PROVE IInv'
<1>1. PICK p \in Plans, t \in Tiers, b \in Boosts :
         ~plans[p].exists /\ plans' = [plans EXCEPT ![p] = Plan(t, b)]
  BY DEF CreatePlan
<1>2. /\ Started
      /\ UNCHANGED <<feedVars, subscription, pc, call, commits, newest, disturbed, faults>>
  BY DEF CreatePlan
<1>3. \A q \in Plans : plans[q].exists => plans'[q] = plans[q]
  BY <1>1 DEF IInv, TypeOK
<1>4. Plan(t, b) \in PlanRecords
  BY DEF Plan, PlanRecords
<1>5. TypeOK'
  BY <1>1, <1>2, <1>4, Params DEF Params, IInv, TypeOK, feedVars, Started
<1>6. Numbered'
  BY <1>2 DEF IInv, Numbered, feedVars
<1>7. \A s \in Sellers : subscription[s] # "none" =>
        plans[subscription[s]].exists /\ plans'[subscription[s]] = plans[subscription[s]]
  BY <1>3 DEF IInv, TypeOK, RefersToPlan
<1>8. \A c \in Calls : pc[c] # "idle" =>
        plans[call[c].plan].exists /\ plans'[call[c].plan] = plans[call[c].plan]
  BY <1>3 DEF IInv, TypeOK, RefersToPlan, CallRecords
<1>9. RefersToPlan'
  BY <1>2, <1>7, <1>8 DEF IInv, RefersToPlan
<1>10. ReadsPlan'
  BY <1>2, <1>8 DEF IInv, ReadsPlan
<1>11. Announced => Announced'
  BY <1>2, <1>7 DEF Announced, Concerns, TellsPlan, feedVars
<1>12. RowsTell => RowsTell'
  BY <1>2, <1>7 DEF RowsTell, Tells, feedVars
<1>13. UpdatesExist'
  BY <1>2 DEF IInv, UpdatesExist
<1> QED
  BY <1>2, <1>5, <1>6, <1>9, <1>10, <1>11, <1>12, <1>13 DEF IInv

\* A call begins with the plan as it is.
LEMMA BeginInv ==
  ASSUME Params, IInv, NEW c \in Calls, NEW request \in CallRecords, Begin(c, request),
         request.op = "subscribe" => request.new = plans[request.plan],
         request.op = "update" => request.new.exists,
         request.op \in {"subscribe", "update"}
  PROVE  IInv'
<1>1. /\ pc[c] = "idle" /\ Started /\ plans[request.plan].exists
      /\ call' = [call EXCEPT ![c] = request]
      /\ pc' = [pc EXCEPT ![c] = "write"]
      /\ UNCHANGED <<feedVars, plans, subscription, commits, newest, disturbed, faults>>
  BY DEF Begin
<1>2. TypeOK'
  BY <1>1, Params DEF Params, IInv, TypeOK, feedVars, Started
<1>3. \A d \in Calls : pc'[d] = "publish" => pc[d] = "publish" /\ call'[d] = call[d]
  BY <1>1 DEF IInv, TypeOK
<1>4. Numbered'
  BY <1>1, <1>3 DEF IInv, Numbered, feedVars
<1>5. RefersToPlan' /\ UpdatesExist' /\ ReadsPlan'
  BY <1>1 DEF IInv, TypeOK, RefersToPlan, UpdatesExist, ReadsPlan
<1>6. Announced => Announced'
  BY <1>1, <1>3 DEF Announced, Concerns, TellsPlan, feedVars
<1>7. RowsTell => RowsTell'
  BY <1>1 DEF RowsTell, Tells, feedVars
<1> QED
  BY <1>1, <1>2, <1>4, <1>5, <1>6, <1>7 DEF IInv

LEMMA SubscribeSellerInv ==
  ASSUME Params, IInv, NEW c \in Calls, SubscribeSeller(c) PROVE IInv'
<1>1. PICK s \in Sellers, p \in Plans :
        Begin(c, [NoCall EXCEPT !.op = "subscribe", !.seller = s, !.plan = p, !.new = plans[p]])
  BY DEF SubscribeSeller
<1> DEFINE r == [NoCall EXCEPT !.op = "subscribe", !.seller = s, !.plan = p, !.new = plans[p]]
<1>2. plans[p] \in PlanRecords
  BY DEF IInv, TypeOK
<1>3. r \in CallRecords /\ r.op = "subscribe" /\ r.new = plans[r.plan]
  BY <1>2, Idle DEF CallRecords
<1>4. Begin(c, r)
  BY <1>1
<1> HIDE DEF r
<1> QED
  BY <1>3, <1>4, BeginInv

LEMMA UpdatePlanInv ==
  ASSUME Params, IInv, NEW c \in Calls, UpdatePlan(c) PROVE IInv'
<1>1. PICK p \in Plans, t \in Tiers, b \in Boosts :
        Begin(c, [NoCall EXCEPT !.op = "update", !.plan = p, !.new = Plan(t, b)])
  BY DEF UpdatePlan
<1> DEFINE r == [NoCall EXCEPT !.op = "update", !.plan = p, !.new = Plan(t, b)]
<1>2. Plan(t, b) \in PlanRecords
  BY DEF Plan, PlanRecords
<1>3. r \in CallRecords /\ r.op = "update" /\ r.new.exists
  BY <1>2, Idle DEF CallRecords, Plan
<1>4. Begin(c, r)
  BY <1>1
<1> HIDE DEF r
<1> QED
  BY <1>3, <1>4, BeginInv

\* A subscription's commit is the newest about its seller, and announces the plan as
\* it is unless an update overtook it.
LEMMA WriteSubscriptionInv ==
  ASSUME Params, IInv, NEW c \in Calls, WriteSubscription(c) PROVE IInv'
<1> DEFINE n == commits + 1  r == call[c]
<1>1. /\ pc[c] = "write" /\ r.op = "subscribe" /\ commits' = n
      /\ subscription' = [subscription EXCEPT ![r.seller] = r.plan]
      /\ newest' = [newest EXCEPT ![r.seller] = n]
      /\ disturbed' = disturbed \cup (IF r.overlapped THEN {"overlap"} ELSE {})
      /\ call' = [call EXCEPT ![c].commit = n]
      /\ pc' = [pc EXCEPT ![c] = "publish"]
      /\ UNCHANGED <<feedVars, plans, started, faults>>
  BY DEF WriteSubscription
<1>2. r \in CallRecords /\ r.seller \in Sellers /\ r.plan \in Plans /\ commits \in Nat /\ n \in Nat
  BY DEF IInv, TypeOK, CallRecords
<1>3. call'[c] = [r EXCEPT !.commit = n] /\ call'[c] \in CallRecords
  BY <1>1, <1>2 DEF IInv, TypeOK, CallRecords
<1>4. \A d \in Calls \ {c} : pc'[d] = pc[d] /\ call'[d] = call[d]
  BY <1>1 DEF IInv, TypeOK
<1>5. TypeOK'
  <2>1. call' \in [Calls -> CallRecords]
    BY <1>1, <1>3, <1>4 DEF IInv, TypeOK
  <2> QED
    BY <2>1, <1>1, <1>2 DEF IInv, TypeOK, feedVars
<1>6. call'[c].commit = n /\ call'[c].new = r.new /\ call'[c].plan = r.plan
      /\ call'[c].op = "subscribe" /\ call'[c].seller = r.seller
  BY <1>1, <1>2, <1>3 DEF CallRecords
<1>7. pc'[c] = "publish"
  BY <1>1 DEF IInv, TypeOK
<1>8. \A d \in Calls : pc[d] = "publish" => d # c
  BY <1>1
<1>9. \A s \in Sellers : s # r.seller => newest'[s] = newest[s] /\ subscription'[s] = subscription[s]
  BY <1>1 DEF IInv, TypeOK
<1>10. newest'[r.seller] = n /\ subscription'[r.seller] = r.plan
  BY <1>1, <1>2 DEF IInv, TypeOK
<1>11. Numbered'
  <2>1. \A s \in Sellers : newest[s] \in Nat /\ told[s] \in Nat /\ newest[s] <= n /\ told[s] <= n
    BY <1>2 DEF IInv, TypeOK, Numbered
  <2>2. \A e \in queue : e.n \in Nat /\ e.n <= n
    BY <1>2 DEF IInv, TypeOK, Numbered, Events
  <2>3. \A d \in Calls : pc'[d] = "publish" => call'[d].commit <= n
    <3> SUFFICES ASSUME NEW d \in Calls, pc'[d] = "publish" PROVE call'[d].commit <= n
      OBVIOUS
    <3>1. CASE d = c
      BY <1>2, <1>6, <3>1
    <3>2. CASE d # c
      <4>1. call'[d] = call[d] /\ call[d].commit <= commits /\ call[d].commit \in Nat
        BY <1>4, <3>2 DEF IInv, TypeOK, Numbered, CallRecords
      <4> QED
        BY <4>1, <1>2
    <3> QED
      BY <3>1, <3>2
  <2>4. \A s \in Sellers : newest'[s] <= n
    BY <2>1, <1>2, <1>9, <1>10
  <2> QED
    BY <2>1, <2>2, <2>3, <2>4, <1>1 DEF Numbered, feedVars
<1>12. RefersToPlan'
  <2>1. plans[r.plan].exists
    BY <1>1 DEF IInv, RefersToPlan
  <2>2. \A s \in Sellers : subscription'[s] # "none" => plans[subscription'[s]].exists
    BY <2>1, <1>9, <1>10 DEF IInv, RefersToPlan
  <2>3. \A d \in Calls : pc'[d] # "idle" =>
          plans[call'[d].plan].exists /\ call'[d].op \in {"subscribe", "update"}
    BY <2>1, <1>4, <1>6 DEF IInv, RefersToPlan
  <2> QED
    BY <2>2, <2>3, <1>1 DEF RefersToPlan
<1>13. ReadsPlan'
  BY <1>1, <1>4, <1>7 DEF IInv, ReadsPlan
<1>14. ASSUME "overlap" \notin disturbed' PROVE Announced' /\ RowsTell'
  <2>1. "overlap" \notin disturbed /\ ~r.overlapped
    BY <1>1, <1>14
  <2>2. Announced /\ RowsTell /\ r.new = plans[r.plan]
    BY <2>1, <1>1 DEF IInv, ReadsPlan
  <2>3. \A s \in Sellers : newest[s] # n /\ told[s] # n
    BY <1>2 DEF IInv, TypeOK, Numbered
  <2>4. \A e \in queue : e.n # n
    BY <1>2 DEF IInv, TypeOK, Numbered, Events
  <2>5. \A d \in Calls : pc[d] = "publish" => call[d].commit # n
    BY <1>2 DEF IInv, TypeOK, Numbered, CallRecords
  <2>6. Announced'
    <3> SUFFICES ASSUME NEW s \in Sellers, subscription'[s] # "none"
                 PROVE  /\ \A e \in queue : e.n = newest'[s] /\ Concerns(e, s) => TellsPlan(e, s)'
                        /\ \A d \in Calls :
                             pc'[d] = "publish" /\ call'[d].commit = newest'[s]
                               /\ Concerns(call'[d], s) => TellsPlan(call[d].new, s)'
      BY <1>1 DEF Announced, Concerns, TellsPlan, feedVars
    <3>1. CASE s = r.seller
      BY <3>1, <2>2, <2>4, <2>5, <1>1, <1>4, <1>6, <1>10 DEF TellsPlan
    <3>2. CASE s # r.seller
      BY <3>2, <2>2, <2>3, <1>1, <1>4, <1>6, <1>9 DEF Announced, Concerns, TellsPlan
    <3> QED
      BY <3>1, <3>2
  <2>7. RowsTell'
    BY <2>2, <2>3, <1>1, <1>9, <1>10 DEF RowsTell, Tells, feedVars
  <2> QED
    BY <2>6, <2>7
<1>15. UpdatesExist'
  BY <1>4, <1>6 DEF IInv, UpdatesExist
<1> QED
  BY <1>5, <1>11, <1>12, <1>13, <1>14, <1>15 DEF IInv

\* An update's commit is the newest about the sellers of the plan, and outdates the
\* subscriptions that have read it.
LEMMA WritePlanInv ==
  ASSUME Params, IInv, NEW c \in Calls, WritePlan(c) PROVE IInv'
<1> DEFINE n == commits + 1  p == call[c].plan  new == call[c].new
<1>1. /\ pc[c] = "write" /\ call[c].op = "update" /\ commits' = n
      /\ plans' = [plans EXCEPT ![p] = new]
      /\ newest' = [s \in Sellers |-> IF subscription[s] = p THEN n ELSE newest[s]]
      /\ disturbed' = disturbed \cup (IF Blurred(p, new) THEN {"tier"} ELSE {})
      /\ call' = [Outdated(p) EXCEPT ![c].commit = n]
      /\ pc' = [pc EXCEPT ![c] = "publish"]
      /\ UNCHANGED <<feedVars, subscription, started, faults>>
  BY DEF WritePlan
<1>2. /\ call[c] \in CallRecords /\ p \in Plans /\ new \in PlanRecords
      /\ commits \in Nat /\ n \in Nat
  BY DEF IInv, TypeOK, CallRecords
<1>3. Outdated(p) \in [Calls -> CallRecords] /\ Outdated(p)[c] = call[c]
  BY <1>1 DEF IInv, TypeOK, CallRecords, Outdated
<1>4. call'[c] = [call[c] EXCEPT !.commit = n] /\ call'[c] \in CallRecords
  BY <1>1, <1>2, <1>3 DEF CallRecords
<1>5. /\ call'[c].commit = n /\ call'[c].new = new /\ call'[c].plan = p
      /\ call'[c].op = "update" /\ pc'[c] = "publish"
  BY <1>1, <1>2, <1>4 DEF CallRecords, IInv, TypeOK
<1>6. ASSUME NEW d \in Calls, d # c
      PROVE  /\ pc'[d] = pc[d] /\ call'[d] = Outdated(p)[d]
             /\ call'[d].op = call[d].op /\ call'[d].seller = call[d].seller
             /\ call'[d].plan = call[d].plan /\ call'[d].new = call[d].new
             /\ call'[d].commit = call[d].commit
  <2>1. pc'[d] = pc[d] /\ call'[d] = Outdated(p)[d] /\ call[d] \in CallRecords
    BY <1>1, <1>3, <1>6 DEF IInv, TypeOK
  <2> QED
    BY <2>1, <1>6 DEF Outdated, CallRecords
<1>7. TypeOK'
  <2>1. call' \in [Calls -> CallRecords]
    BY <1>1, <1>3, <1>4, <1>6 DEF IInv, TypeOK
  <2> QED
    BY <2>1, <1>1, <1>2 DEF IInv, TypeOK, feedVars
<1>8. Numbered'
  <2>1. \A s \in Sellers : newest[s] \in Nat /\ told[s] \in Nat /\ newest'[s] <= n /\ told[s] <= n
    BY <1>1, <1>2 DEF IInv, TypeOK, Numbered
  <2>2. \A e \in queue : e.n <= n
    BY <1>2 DEF IInv, TypeOK, Numbered, Events
  <2>3. \A d \in Calls : pc'[d] = "publish" => call'[d].commit <= n
    <3> SUFFICES ASSUME NEW d \in Calls, pc'[d] = "publish" PROVE call'[d].commit <= n
      OBVIOUS
    <3>1. CASE d = c
      BY <1>2, <1>5, <3>1
    <3>2. CASE d # c
      <4>1. call'[d].commit = call[d].commit /\ call[d].commit <= commits /\ call[d].commit \in Nat
        BY <1>6, <3>2 DEF IInv, TypeOK, Numbered, CallRecords
      <4> QED
        BY <4>1, <1>2
    <3> QED
      BY <3>1, <3>2
  <2> QED
    BY <2>1, <2>2, <2>3, <1>1 DEF Numbered, feedVars
<1>9. plans'[p] = new /\ \A q \in Plans : q # p => plans'[q] = plans[q]
  BY <1>1, <1>2 DEF IInv, TypeOK
<1>10. new.exists
  BY <1>1 DEF IInv, UpdatesExist
<1>11. RefersToPlan'
  <2>1. \A s \in Sellers : subscription[s] # "none" => plans'[subscription[s]].exists
    BY <1>9, <1>10 DEF IInv, TypeOK, RefersToPlan
  <2>2. \A d \in Calls : pc'[d] # "idle" =>
          plans'[call'[d].plan].exists /\ call'[d].op \in {"subscribe", "update"}
    <3> SUFFICES ASSUME NEW d \in Calls, pc'[d] # "idle"
                 PROVE  plans'[call'[d].plan].exists /\ call'[d].op \in {"subscribe", "update"}
      OBVIOUS
    <3>1. CASE d = c
      BY <3>1, <1>5, <1>9, <1>10
    <3>2. CASE d # c
      <4>1. call'[d].plan = call[d].plan /\ call'[d].op = call[d].op /\ call[d].plan \in Plans
            /\ plans[call[d].plan].exists /\ call[d].op \in {"subscribe", "update"}
        BY <1>6, <3>2 DEF IInv, TypeOK, RefersToPlan, CallRecords
      <4> QED
        BY <4>1, <1>9, <1>10
    <3> QED
      BY <3>1, <3>2
  <2> QED
    BY <2>1, <2>2, <1>1 DEF RefersToPlan
<1>12. ReadsPlan'
  <2> SUFFICES ASSUME NEW d \in Calls, pc'[d] = "write", call'[d].op = "subscribe",
                      ~call'[d].overlapped
               PROVE  call'[d].new = plans'[call'[d].plan]
    BY DEF ReadsPlan
  <2>1. d # c
    BY <1>5
  <2>2. call[d] \in CallRecords /\ pc[d] = "write" /\ call[d].op = "subscribe"
    BY <2>1, <1>6 DEF IInv, TypeOK
  <2>3. call[d].plan # p /\ ~call[d].overlapped
    BY <2>1, <2>2, <1>6 DEF Outdated, CallRecords
  <2> QED
    BY <2>1, <2>2, <2>3, <1>6, <1>9 DEF IInv, ReadsPlan, CallRecords
<1>13. UpdatesExist'
  BY <1>5, <1>6, <1>10 DEF IInv, UpdatesExist
<1>14. ASSUME "overlap" \notin disturbed' PROVE Announced' /\ RowsTell'
  <2>1. Announced /\ RowsTell
    BY <1>1, <1>14 DEF IInv
  <2>2. \A s \in Sellers : newest[s] # n /\ told[s] # n
    BY <1>2 DEF IInv, TypeOK, Numbered
  <2>3. \A e \in queue : e.n # n
    BY <1>2 DEF IInv, TypeOK, Numbered, Events
  <2>4. \A d \in Calls : pc[d] = "publish" => call[d].commit # n
    BY <1>2 DEF IInv, TypeOK, Numbered, CallRecords
  <2>5. \A s \in Sellers : subscription[s] # p /\ subscription[s] # "none" =>
          newest'[s] = newest[s] /\ plans'[subscription[s]] = plans[subscription[s]]
    BY <1>1, <1>9 DEF IInv, TypeOK
  <2>6. Announced'
    <3> SUFFICES ASSUME NEW s \in Sellers, subscription[s] # "none"
                 PROVE  /\ \A e \in queue : e.n = newest'[s] /\ Concerns(e, s) => TellsPlan(e, s)'
                        /\ \A d \in Calls :
                             pc'[d] = "publish" /\ call'[d].commit = newest'[s]
                               /\ Concerns(call'[d], s) => TellsPlan(call[d].new, s)'
      BY <1>1, <1>5, <1>6 DEF Announced, Concerns, TellsPlan, feedVars
    <3>1. CASE subscription[s] = p
      <4>1. newest'[s] = n
        BY <3>1, <1>1
      <4>2. \A d \in Calls : pc'[d] = "publish" /\ call'[d].commit = n => d = c
        BY <2>4, <1>6
      <4> QED
        BY <3>1, <4>1, <4>2, <2>3, <1>1, <1>5, <1>9 DEF TellsPlan
    <3>2. CASE subscription[s] # p
      <4>1. \A d \in Calls : pc'[d] = "publish" /\ call'[d].commit = newest[s] => d # c
        BY <2>2, <1>5
      <4> QED
        BY <3>2, <4>1, <2>1, <2>5, <1>1, <1>6 DEF Announced, Concerns, TellsPlan
    <3> QED
      BY <3>1, <3>2
  <2>7. RowsTell'
    <3> SUFFICES ASSUME NEW s \in Sellers, newest'[s] > 0, told[s] = newest'[s],
                        subscription[s] # "none"
                 PROVE  Tells(s)'
      BY <1>1 DEF RowsTell, Tells, feedVars
    <3>1. subscription[s] # p
      BY <1>1, <2>2
    <3> QED
      BY <3>1, <2>1, <2>5, <1>1 DEF RowsTell, Tells, feedVars
  <2> QED
    BY <2>6, <2>7
<1> QED
  BY <1>7, <1>8, <1>11, <1>12, <1>13, <1>14 DEF IInv

\* The event tells what the call committed.
LEMMA PublishInv == ASSUME Params, IInv, NEW c \in Calls, Publish(c) PROVE IInv'
<1>1. /\ pc[c] = "publish"
      /\ queue' = queue \cup {Event(c)}
      /\ call' = [call EXCEPT ![c] = NoCall]
      /\ pc' = [pc EXCEPT ![c] = "idle"]
      /\ UNCHANGED <<plans, subscription, planBoost, commits, applied, newest, told, disturbed,
                     started, redelivered, faults>>
  BY DEF Publish
<1>2. call[c] \in CallRecords /\ call[c].op \in {"subscribe", "update"}
  BY <1>1 DEF IInv, TypeOK, RefersToPlan
<1>3. Event(c) \in Events
  BY <1>2 DEF Event, Events, CallRecords, PlanRecords
<1>4. TypeOK'
  BY <1>1, <1>3, Idle DEF IInv, TypeOK
<1>5. /\ pc'[c] = "idle" /\ call'[c] = NoCall
      /\ \A d \in Calls : d # c => pc'[d] = pc[d] /\ call'[d] = call[d]
  BY <1>1 DEF IInv, TypeOK
<1>6. Numbered'
  <2>1. Event(c).n <= commits
    BY <1>1 DEF IInv, Numbered, Event
  <2> QED
    BY <2>1, <1>1, <1>5 DEF IInv, Numbered
<1>7. RefersToPlan' /\ UpdatesExist' /\ ReadsPlan'
  BY <1>1, <1>5, Idle DEF IInv, RefersToPlan, UpdatesExist, ReadsPlan
<1>8. ASSUME Announced PROVE Announced'
  <2> SUFFICES ASSUME NEW s \in Sellers, subscription[s] # "none"
               PROVE  /\ \A e \in queue' : e.n = newest[s] /\ Concerns(e, s) => TellsPlan(e, s)
                      /\ \A d \in Calls :
                           pc'[d] = "publish" /\ call'[d].commit = newest[s]
                             /\ Concerns(call'[d], s) => TellsPlan(call'[d].new, s)
    BY <1>1 DEF Announced, Concerns, TellsPlan
  <2>1. Event(c).n = newest[s] /\ Concerns(Event(c), s) => TellsPlan(Event(c), s)
    BY <1>1, <1>8 DEF Announced, Event, Concerns, TellsPlan
  <2> QED
    BY <2>1, <1>1, <1>5, <1>8 DEF Announced
<1>9. RowsTell => RowsTell'
  BY <1>1 DEF RowsTell, Tells
<1> QED
  BY <1>1, <1>4, <1>6, <1>7, <1>8, <1>9 DEF IInv

\* A call that is gone announces nothing.
LEMMA FailInv == ASSUME Params, IInv, NEW c \in Calls, Fail(c) PROVE IInv'
<1>1. /\ faults < MaxFaults /\ faults' = faults + 1
      /\ disturbed' = disturbed \cup (IF pc[c] = "publish" THEN {"lost"} ELSE {})
      /\ call' = [call EXCEPT ![c] = NoCall]
      /\ pc' = [pc EXCEPT ![c] = "idle"]
      /\ UNCHANGED <<feedVars, plans, subscription, commits, newest, started>>
  BY DEF Fail
<1>2. TypeOK'
  BY <1>1, Idle, Params DEF Params, IInv, TypeOK, feedVars
<1>3. /\ pc'[c] = "idle" /\ call'[c] = NoCall
      /\ \A d \in Calls : d # c => pc'[d] = pc[d] /\ call'[d] = call[d]
  BY <1>1 DEF IInv, TypeOK
<1>4. Numbered' /\ RefersToPlan' /\ UpdatesExist' /\ ReadsPlan'
  BY <1>1, <1>3, Idle DEF IInv, Numbered, RefersToPlan, UpdatesExist, ReadsPlan, feedVars
<1>5. Announced => Announced'
  BY <1>1, <1>3 DEF Announced, Concerns, TellsPlan, feedVars
<1>6. RowsTell => RowsTell'
  BY <1>1 DEF RowsTell, Tells, feedVars
<1> QED
  BY <1>1, <1>2, <1>4, <1>5, <1>6 DEF IInv

\* An event that reaches a row gives it the event's tier and boost.
LEMMA DeliverInv == ASSUME Params, IInv, Deliver PROVE IInv'
<1>1. PICK e \in queue :
        /\ planBoost' = [s \in Sellers |->
             IF ~Reaches(e, s) THEN planBoost[s]
             ELSE IF e.op = "subscribe" THEN Row(planBoost[s], e)
             ELSE [planBoost[s] EXCEPT !.boost = Effective(e.boost)]]
        /\ told' = [s \in Sellers |-> IF Reaches(e, s) THEN e.n ELSE told[s]]
        /\ disturbed' = disturbed \cup (IF e.n < applied THEN {"late"} ELSE {})
        /\ applied' = IF e.n < applied THEN applied ELSE e.n
        /\ \/ queue' = queue \ {e} /\ UNCHANGED redelivered
           \/ redelivered < MaxRedeliveries /\ redelivered' = redelivered + 1 /\ UNCHANGED queue
        /\ UNCHANGED <<plans, subscription, pc, call, commits, newest, started, faults>>
  BY DEF Deliver
<1>2. e \in Events /\ queue' \subseteq queue
  BY <1>1 DEF IInv, TypeOK
<1>3. ASSUME NEW s \in Sellers, Reaches(e, s)
      PROVE  planBoost'[s] = [tier |-> e.tier, boost |-> Effective(e.boost), exists |-> TRUE]
  <2>1. planBoost[s] \in PlanRecords
    BY DEF IInv, TypeOK
  <2>2. CASE e.op = "subscribe"
    BY <2>2, <1>1, <1>3 DEF Row
  <2>3. CASE e.op # "subscribe"
    <3>1. planBoost'[s] = [planBoost[s] EXCEPT !.boost = Effective(e.boost)]
      BY <2>3, <1>1, <1>3
    <3>2. planBoost[s].exists /\ planBoost[s].tier = e.tier
      BY <2>3, <1>3 DEF Reaches
    <3> QED
      BY <2>1, <3>1, <3>2 DEF PlanRecords
  <2> QED
    BY <2>2, <2>3
<1>4. TypeOK'
  <2>1. Effective(e.boost) \in Boosts \cup {0, 1} /\ e.tier \in Tiers \cup {0} /\ e.n \in Nat
    BY <1>2 DEF Effective, Events
  <2>2. \A s \in Sellers : planBoost'[s] \in PlanRecords
    <3> SUFFICES ASSUME NEW s \in Sellers PROVE planBoost'[s] \in PlanRecords
      OBVIOUS
    <3>1. CASE Reaches(e, s)
      <4>1. [tier |-> e.tier, boost |-> Effective(e.boost), exists |-> TRUE] \in PlanRecords
        BY <2>1 DEF PlanRecords
      <4> QED
        BY <3>1, <4>1, <1>3
    <3>2. CASE ~Reaches(e, s)
      <4>1. planBoost'[s] = planBoost[s]
        BY <3>2, <1>1
      <4> QED
        BY <4>1 DEF IInv, TypeOK
    <3> QED
      BY <3>1, <3>2
  <2>3. planBoost' \in [Sellers -> PlanRecords]
    BY <1>1, <2>2
  <2>4. redelivered' \in 0..MaxRedeliveries
    BY <1>1, Params DEF Params, IInv, TypeOK
  <2> QED
    BY <1>1, <1>2, <2>1, <2>3, <2>4 DEF IInv, TypeOK
<1>5. Numbered'
  BY <1>1, <1>2 DEF IInv, TypeOK, Numbered
<1>6. RefersToPlan' /\ UpdatesExist' /\ ReadsPlan'
  BY <1>1 DEF IInv, RefersToPlan, UpdatesExist, ReadsPlan
<1>7. Announced => Announced'
  BY <1>1, <1>2 DEF Announced, Concerns, TellsPlan
<1>8. ASSUME Announced, RowsTell PROVE RowsTell'
  <2> SUFFICES ASSUME NEW s \in Sellers, newest[s] > 0, told'[s] = newest[s],
                      subscription[s] # "none"
               PROVE  Tells(s)'
    BY <1>1 DEF RowsTell, Tells
  <2>1. CASE Reaches(e, s)
    <3>1. e.n = newest[s] /\ Concerns(e, s)
      BY <2>1, <1>1 DEF Reaches, Concerns
    <3>2. TellsPlan(e, s)
      BY <3>1, <1>8 DEF Announced
    <3> QED
      BY <2>1, <3>2, <1>1, <1>3 DEF Tells, TellsPlan
  <2>2. CASE ~Reaches(e, s)
    BY <2>2, <1>1, <1>8 DEF RowsTell, Tells
  <2> QED
    BY <2>1, <2>2
<1> QED
  BY <1>1, <1>4, <1>5, <1>6, <1>7, <1>8 DEF IInv

LEMMA NextInv == ASSUME Params, IInv, [Next]_vars PROVE IInv'
<1>1. CASE UNCHANGED vars
  BY <1>1 DEF vars, IInv, TypeOK, Numbered, RefersToPlan, UpdatesExist, ReadsPlan, Announced,
              Concerns, TellsPlan, RowsTell, Tells
<1> QED
  BY <1>1, CreatePlanInv, SubscribeSellerInv, UpdatePlanInv, WriteSubscriptionInv, WritePlanInv,
     PublishInv, FailInv, DeliverInv DEF Next

\* Type correctness, the numbering of commits and what every announcement tells, for
\* any number of plans, sellers, calls and faults.
THEOREM PlanBoostInv == ASSUME Params PROVE Spec => []IInv
<1>1. Init => IInv
  BY InitInv
<1>2. IInv /\ [Next]_vars => IInv'
  BY NextInv
<1> QED
  BY <1>1, <1>2, PTL DEF Spec

\* However many plans, sellers, calls, losses and repetitions there are, a row that
\* comes from the newest commit about its seller tells the seller's plan.
THEOREM NewestCommitAlwaysHeals == ASSUME Params PROVE Spec => []NewestCommitHeals
<1>1. IInv => NewestCommitHeals
  BY DEF IInv, RowsTell, NewestCommitHeals
<1> QED
  BY <1>1, PlanBoostInv, PTL
-----------------------------------------------------------------------------
(***************************************************************************)
(* While nothing has gone wrong                                              *)
(***************************************************************************)

\* Every event the subscriber has yet to handle, published already or about to be.
Announcing == {c \in Calls : pc[c] = "publish"}
Pending == queue \cup {Event(c) : c \in Announcing}
Subscribes(s) == {a \in Pending : a.op = "subscribe" /\ a.seller = s}

\* Numbers are in the order of the commits, and no two events share one.
Ordered ==
  /\ applied <= commits
  /\ \A a \in Pending : a.n <= commits
  /\ \A a \in Pending, b \in Pending : a.n = b.n => a = b

\* An event was overtaken: it will be late when it comes.
Overtaken == \E a \in Pending : a.n < applied

\* The seller's row tells its plan, or the event that makes it do so is on its way:
\* its newest commit's, after the last subscription about it.
Tier(s) == plans[subscription[s]].tier
OnItsWay(s) ==
  newest[s] > applied => \E a \in Pending : a.n = newest[s] /\ Concerns(a, s)
Arrived(s) == newest[s] <= applied => Tells(s)
LastTellsTier(s) ==
  \A a \in Subscribes(s) : (\A b \in Subscribes(s) : b.n <= a.n) => a.tier = Tier(s)
RowHasTier(s) ==
  (\A a \in Subscribes(s) : a.n <= applied) => planBoost[s].exists /\ planBoost[s].tier = Tier(s)
NoneIsNewer(s) ==
  /\ \A a \in Subscribes(s) : a.n <= newest[s]
  /\ \A a \in Pending : a.op = "update" /\ a.tier = Tier(s) => a.n <= newest[s]
Tracks(s) ==
  OnItsWay(s) /\ Arrived(s) /\ LastTellsTier(s) /\ RowHasTier(s) /\ NoneIsNewer(s)

AllTrack == \A s \in Sellers : subscription[s] # "none" => Tracks(s)
Followed == Ordered /\ (disturbed = {} => Overtaken \/ AllTrack)
DriftInv == IInv /\ Followed

LEMMA PendingTypes == ASSUME IInv PROVE Pending \subseteq Events
<1>1. ASSUME NEW c \in Announcing PROVE Event(c) \in Events
  <2>1. c \in Calls /\ call[c] \in CallRecords /\ call[c].op \in {"subscribe", "update"}
    BY <1>1 DEF IInv, TypeOK, RefersToPlan, Announcing
  <2> QED
    BY <2>1 DEF Event, Events, CallRecords, PlanRecords
<1> QED
  BY <1>1 DEF IInv, TypeOK, Pending

\* The announcements that are not call c's.
Elsewhere(c) == {Event(d) : d \in Announcing \ {c}}

\* A step of call c leaves the announcements of the others as they are.
LEMMA PendingMoves ==
  ASSUME NEW c \in Calls,
         \A d \in Calls \ {c} :
           /\ pc'[d] = "publish" <=> pc[d] = "publish"
           /\ pc[d] = "publish" =>
                /\ call'[d].op = call[d].op /\ call'[d].seller = call[d].seller
                /\ call'[d].new = call[d].new /\ call'[d].commit = call[d].commit
  PROVE  /\ Pending = queue \cup Elsewhere(c) \cup (IF pc[c] = "publish" THEN {Event(c)} ELSE {})
         /\ Pending' = queue' \cup Elsewhere(c)
                         \cup (IF pc'[c] = "publish" THEN {Event(c)'} ELSE {})
<1>1. Pending = queue \cup Elsewhere(c) \cup (IF pc[c] = "publish" THEN {Event(c)} ELSE {})
  BY DEF Pending, Elsewhere, Announcing
<1>2. (Pending = queue \cup Elsewhere(c) \cup (IF pc[c] = "publish" THEN {Event(c)} ELSE {}))'
  BY DEF Pending, Elsewhere, Announcing, Event
<1>3. Elsewhere(c)' = Elsewhere(c)
  <2>1. Announcing' \ {c} = Announcing \ {c}
    BY DEF Announcing
  <2>2. \A d \in Announcing \ {c} :
          [op |-> call'[d].op, seller |-> call'[d].seller, tier |-> call'[d].new.tier,
           boost |-> call'[d].new.boost, n |-> call'[d].commit]
          = [op |-> call[d].op, seller |-> call[d].seller, tier |-> call[d].new.tier,
             boost |-> call[d].new.boost, n |-> call[d].commit]
    BY DEF Announcing
  <2> QED
    BY <2>1, <2>2 DEF Elsewhere, Event
<1> QED
  BY <1>1, <1>2, <1>3

\* What the projection and the events yet to come say of it depends on these.
LEMMA Unmoved ==
  ASSUME Ordered, disturbed = {} => Overtaken \/ AllTrack, Pending' = Pending,
         UNCHANGED <<planBoost, applied, commits, newest, subscription, disturbed>>,
         \A s \in Sellers : subscription[s] # "none" =>
           plans'[subscription[s]] = plans[subscription[s]]
  PROVE  Ordered' /\ (disturbed' = {} => Overtaken' \/ AllTrack')
<1>1. Ordered'
  BY DEF Ordered
<1>2. Overtaken => Overtaken'
  BY DEF Overtaken
<1>3. ASSUME NEW s \in Sellers, subscription[s] # "none", Tracks(s) PROVE Tracks(s)'
  <2>1. Subscribes(s)' = Subscribes(s)
    BY DEF Subscribes
  <2>2. Tier(s)' = Tier(s)
    BY <1>3 DEF Tier
  <2>3. OnItsWay(s)' /\ Arrived(s)'
    BY <1>3 DEF Tracks, OnItsWay, Arrived, Concerns, Tells
  <2>4. LastTellsTier(s)' /\ RowHasTier(s)' /\ NoneIsNewer(s)'
    BY <1>3, <2>1, <2>2 DEF Tracks, LastTellsTier, RowHasTier, NoneIsNewer
  <2> QED
    BY <2>3, <2>4 DEF Tracks
<1>4. AllTrack => AllTrack'
  BY <1>3 DEF AllTrack
<1> QED
  BY <1>1, <1>2, <1>4

\* A commit's event has a number above all others.
LEMMA Enqueued ==
  ASSUME IInv, Ordered, NEW e \in Events, e.n = commits + 1, commits' = commits + 1,
         applied' = applied, Pending' = Pending \cup {e}
  PROVE  /\ Ordered' /\ (Overtaken => Overtaken')
         /\ applied < e.n /\ \A a \in Pending : a.n < e.n
<1>1. commits \in Nat /\ applied \in Nat /\ \A a \in Pending : a.n \in Nat
  BY PendingTypes DEF IInv, TypeOK, Events
<1>2. applied < e.n /\ \A a \in Pending : a.n < e.n
  BY <1>1 DEF Ordered
<1>3. applied' <= commits' /\ \A a \in Pending' : a.n <= commits'
  BY <1>1 DEF Ordered
<1>4. \A a \in Pending', b \in Pending' : a.n = b.n => a = b
  BY <1>1, <1>2 DEF Ordered
<1> QED
  BY <1>2, <1>3, <1>4 DEF Ordered, Overtaken

LEMMA CreatePlanFollowed == ASSUME IInv, Followed, CreatePlan PROVE Followed'
<1>1. PICK p \in Plans, t \in Tiers, b \in Boosts :
        /\ ~plans[p].exists /\ plans' = [plans EXCEPT ![p] = Plan(t, b)]
        /\ UNCHANGED <<feedVars, subscription, pc, call, commits, newest, disturbed, faults>>
  BY DEF CreatePlan
<1>2. Pending' = Pending
  BY <1>1 DEF Pending, Announcing, Event, feedVars
<1>3. \A s \in Sellers : subscription[s] # "none" =>
        plans'[subscription[s]] = plans[subscription[s]]
  BY <1>1 DEF IInv, TypeOK, RefersToPlan
<1> QED
  BY <1>1, <1>2, <1>3, Unmoved DEF Followed, feedVars

LEMMA BeginFollowed ==
  ASSUME IInv, Followed, NEW c \in Calls, NEW request, Begin(c, request) PROVE Followed'
<1>1. /\ pc[c] = "idle" /\ call' = [call EXCEPT ![c] = request]
      /\ pc' = [pc EXCEPT ![c] = "write"]
      /\ UNCHANGED <<feedVars, plans, subscription, commits, newest, disturbed, faults>>
  BY DEF Begin
<1>2. pc'[c] = "write" /\ \A d \in Calls \ {c} : pc'[d] = pc[d] /\ call'[d] = call[d]
  BY <1>1 DEF IInv, TypeOK
<1>3. Pending' = Pending
  BY <1>1, <1>2, PendingMoves DEF feedVars
<1> QED
  BY <1>1, <1>3, Unmoved DEF Followed, feedVars

\* The subscription is the last event about its seller, and announces the plan's tier
\* unless an update overtook it.
LEMMA WriteSubscriptionFollowed ==
  ASSUME IInv, IInv', Followed, NEW c \in Calls, WriteSubscription(c) PROVE Followed'
<1> DEFINE n == commits + 1  r == call[c]  e == Event(c)'
<1>1. /\ pc[c] = "write" /\ r.op = "subscribe" /\ commits' = n
      /\ subscription' = [subscription EXCEPT ![r.seller] = r.plan]
      /\ newest' = [newest EXCEPT ![r.seller] = n]
      /\ disturbed' = disturbed \cup (IF r.overlapped THEN {"overlap"} ELSE {})
      /\ call' = [call EXCEPT ![c].commit = n]
      /\ pc' = [pc EXCEPT ![c] = "publish"]
      /\ UNCHANGED <<feedVars, plans, started, faults>>
  BY DEF WriteSubscription
<1>2. r \in CallRecords /\ r.seller \in Sellers /\ r.plan \in Plans /\ commits \in Nat /\ n \in Nat
  BY DEF IInv, TypeOK, CallRecords
<1>3. /\ call'[c] = [r EXCEPT !.commit = n] /\ pc'[c] = "publish"
      /\ \A d \in Calls \ {c} : pc'[d] = pc[d] /\ call'[d] = call[d]
  BY <1>1 DEF IInv, TypeOK
<1>4. e = [op |-> "subscribe", seller |-> r.seller, tier |-> r.new.tier, boost |-> r.new.boost, n |-> n]
  BY <1>1, <1>2, <1>3 DEF Event, CallRecords
<1>5. Pending' = Pending \cup {e}
  BY <1>1, <1>3, PendingMoves DEF feedVars
<1>6. e \in Events
  BY <1>2, <1>4 DEF Events, CallRecords, PlanRecords
<1>7. e.op = "subscribe" /\ e.seller = r.seller /\ e.tier = r.new.tier /\ e.n = n
  BY <1>4
<1> HIDE DEF e
<1>8. Ordered' /\ (Overtaken => Overtaken') /\ applied < n /\ \A a \in Pending : a.n < n
  BY <1>1, <1>5, <1>6, <1>7, Enqueued DEF Followed, feedVars
<1>9. \A a \in Pending : a.n \in Nat
  BY PendingTypes DEF Events
<1>10. ASSUME disturbed' = {}, NEW s \in Sellers, subscription'[s] # "none", AllTrack
       PROVE  Tracks(s)'
  <2>1. r.new = plans[r.plan]
    BY <1>1, <1>10 DEF IInv, ReadsPlan
  <2>2. CASE s = r.seller
    <3>1. newest'[s] = n /\ Tier(s)' = e.tier
      BY <2>1, <2>2, <1>1, <1>2, <1>7 DEF IInv, TypeOK, Tier
    <3>2. OnItsWay(s)'
      BY <2>2, <3>1, <1>5, <1>7 DEF OnItsWay, Concerns
    <3>3. Arrived(s)'
      BY <3>1, <1>1, <1>2, <1>8 DEF Arrived, feedVars, IInv, TypeOK
    <3>4. e \in Subscribes(s)' /\ Subscribes(s)' \subseteq Pending \cup {e}
      BY <2>2, <1>5, <1>7 DEF Subscribes
    <3>5. LastTellsTier(s)'
      <4> SUFFICES ASSUME NEW a \in Subscribes(s)', \A b \in Subscribes(s)' : b.n <= a.n
                   PROVE  a.tier = Tier(s)'
        BY DEF LastTellsTier
      <4>1. e.n <= a.n
        BY <3>4
      <4>2. a = e
        BY <4>1, <3>4, <1>2, <1>7, <1>8, <1>9
      <4> QED
        BY <4>2, <3>1
    <3>6. RowHasTier(s)'
      <4>1. ~(e.n <= applied)
        BY <1>2, <1>7, <1>8 DEF IInv, TypeOK
      <4> QED
        BY <3>4, <4>1, <1>1 DEF RowHasTier, feedVars
    <3>7. \A a \in Pending' : a.n <= newest'[s]
      BY <3>1, <1>2, <1>5, <1>7, <1>8, <1>9
    <3>8. NoneIsNewer(s)'
      BY <3>4, <3>7, <1>5 DEF NoneIsNewer
    <3> QED
      BY <3>2, <3>3, <3>5, <3>6, <3>8 DEF Tracks
  <2>3. CASE s # r.seller
    <3>1. newest'[s] = newest[s] /\ subscription'[s] = subscription[s] /\ Tier(s)' = Tier(s)
      BY <2>3, <1>1 DEF IInv, TypeOK, Tier
    <3>2. Tracks(s)
      BY <3>1, <1>10 DEF AllTrack
    <3>3. Subscribes(s)' = Subscribes(s)
      BY <2>3, <1>5, <1>7 DEF Subscribes
    <3>4. OnItsWay(s)' /\ Arrived(s)'
      BY <3>1, <3>2, <1>1, <1>5 DEF Tracks, OnItsWay, Arrived, Concerns, Tells, feedVars
    <3>5. LastTellsTier(s)' /\ RowHasTier(s)' /\ NoneIsNewer(s)'
      BY <3>1, <3>2, <3>3, <1>1, <1>5, <1>7
         DEF Tracks, LastTellsTier, RowHasTier, NoneIsNewer, feedVars
    <3> QED
      BY <3>4, <3>5 DEF Tracks
  <2> QED
    BY <2>2, <2>3
<1>11. disturbed' = {} => disturbed = {}
  BY <1>1
<1>12. disturbed' = {} /\ AllTrack => AllTrack'
  BY <1>10 DEF AllTrack
<1> QED
  BY <1>8, <1>11, <1>12 DEF Followed

\* An update that keeps the plan's tier, and shares it with no other plan, is the last
\* event for the plan's sellers and reaches nobody else's.
LEMMA WritePlanFollowed ==
  ASSUME IInv, IInv', Followed, NEW c \in Calls, WritePlan(c) PROVE Followed'
<1> DEFINE n == commits + 1  p == call[c].plan  new == call[c].new  e == Event(c)'
<1>1. /\ pc[c] = "write" /\ call[c].op = "update" /\ commits' = n
      /\ plans' = [plans EXCEPT ![p] = new]
      /\ newest' = [s \in Sellers |-> IF subscription[s] = p THEN n ELSE newest[s]]
      /\ disturbed' = disturbed \cup (IF Blurred(p, new) THEN {"tier"} ELSE {})
      /\ call' = [Outdated(p) EXCEPT ![c].commit = n]
      /\ pc' = [pc EXCEPT ![c] = "publish"]
      /\ UNCHANGED <<feedVars, subscription, started, faults>>
  BY DEF WritePlan
<1>2. /\ call[c] \in CallRecords /\ p \in Plans /\ new \in PlanRecords
      /\ commits \in Nat /\ n \in Nat
  BY DEF IInv, TypeOK, CallRecords
<1>3. Outdated(p) \in [Calls -> CallRecords] /\ Outdated(p)[c] = call[c]
  BY <1>1 DEF IInv, TypeOK, CallRecords, Outdated
<1>4. call'[c] = [call[c] EXCEPT !.commit = n] /\ pc'[c] = "publish"
  BY <1>1, <1>3 DEF IInv, TypeOK
<1>5. ASSUME NEW d \in Calls \ {c}
      PROVE  /\ pc'[d] = pc[d]
             /\ call'[d].op = call[d].op /\ call'[d].seller = call[d].seller
             /\ call'[d].new = call[d].new /\ call'[d].commit = call[d].commit
  <2>1. pc'[d] = pc[d] /\ call'[d] = Outdated(p)[d] /\ call[d] \in CallRecords
    BY <1>1, <1>3 DEF IInv, TypeOK
  <2> QED
    BY <2>1 DEF Outdated, CallRecords
<1>6. e = [op |-> "update", seller |-> call[c].seller, tier |-> new.tier, boost |-> new.boost, n |-> n]
  BY <1>1, <1>2, <1>4 DEF Event, CallRecords
<1>7. Pending' = Pending \cup {e}
  BY <1>1, <1>4, <1>5, PendingMoves DEF feedVars
<1>8. e \in Events
  BY <1>2, <1>6 DEF Events, CallRecords, PlanRecords
<1>9. e.op = "update" /\ e.tier = new.tier /\ e.n = n
  BY <1>6
<1> HIDE DEF e
<1>10. Ordered' /\ (Overtaken => Overtaken') /\ applied < n /\ \A a \in Pending : a.n < n
  BY <1>1, <1>7, <1>8, <1>9, Enqueued DEF Followed, feedVars
<1>11. \A a \in Pending : a.n \in Nat
  BY PendingTypes DEF Events
<1>12. ASSUME disturbed' = {}, NEW s \in Sellers, subscription'[s] # "none", AllTrack
       PROVE  Tracks(s)'
  <2>1. ~Blurred(p, new)
    BY <1>1, <1>12
  <2>2. new.tier = plans[p].tier /\ \A q \in Plans \ {p} : plans[q].exists => plans[q].tier # new.tier
    BY <2>1 DEF Blurred
  <2>3. subscription[s] \in Plans /\ plans[subscription[s]].exists /\ subscription' = subscription
    BY <1>1, <1>12 DEF IInv, TypeOK, RefersToPlan
  <2>4. Tier(s)' = Tier(s) /\ Tracks(s)
    <3>1. plans'[subscription[s]].tier = plans[subscription[s]].tier
      BY <2>2, <2>3, <1>1 DEF IInv, TypeOK
    <3> QED
      BY <3>1, <2>3, <1>12 DEF Tier, AllTrack
  <2>5. Subscribes(s)' = Subscribes(s)
    BY <1>7, <1>9 DEF Subscribes
  <2>6. LastTellsTier(s)' /\ RowHasTier(s)'
    BY <2>4, <2>5, <1>1 DEF Tracks, LastTellsTier, RowHasTier, feedVars
  <2>7. CASE subscription[s] = p
    <3>1. newest'[s] = n
      BY <2>7, <1>1
    <3>2. OnItsWay(s)'
      BY <3>1, <1>7, <1>9 DEF OnItsWay, Concerns
    <3>3. Arrived(s)'
      BY <3>1, <1>1, <1>2, <1>10 DEF Arrived, feedVars, IInv, TypeOK
    <3>4. \A a \in Pending' : a.n <= newest'[s]
      BY <3>1, <1>2, <1>7, <1>9, <1>10, <1>11
    <3>5. Subscribes(s)' \subseteq Pending'
      BY DEF Subscribes
    <3>6. NoneIsNewer(s)'
      BY <3>4, <3>5 DEF NoneIsNewer
    <3> QED
      BY <2>6, <3>2, <3>3, <3>6 DEF Tracks
  <2>8. CASE subscription[s] # p
    <3>1. newest'[s] = newest[s] /\ plans'[subscription[s]] = plans[subscription[s]]
      BY <2>3, <2>8, <1>1 DEF IInv, TypeOK
    <3>2. Tier(s) # e.tier
      BY <2>2, <2>3, <2>8, <1>9 DEF Tier
    <3>3. OnItsWay(s)' /\ Arrived(s)'
      BY <3>1, <2>3, <2>4, <1>1, <1>7 DEF Tracks, OnItsWay, Arrived, Concerns, Tells, feedVars
    <3>4. NoneIsNewer(s)'
      BY <3>1, <3>2, <2>4, <2>5, <1>7 DEF Tracks, NoneIsNewer
    <3> QED
      BY <2>6, <3>3, <3>4 DEF Tracks
  <2> QED
    BY <2>7, <2>8
<1>13. disturbed' = {} => disturbed = {}
  BY <1>1
<1>14. disturbed' = {} /\ AllTrack => AllTrack'
  BY <1>12 DEF AllTrack
<1> QED
  BY <1>10, <1>13, <1>14 DEF Followed

LEMMA PublishFollowed == ASSUME IInv, Followed, NEW c \in Calls, Publish(c) PROVE Followed'
<1>1. /\ pc[c] = "publish" /\ queue' = queue \cup {Event(c)}
      /\ call' = [call EXCEPT ![c] = NoCall] /\ pc' = [pc EXCEPT ![c] = "idle"]
      /\ UNCHANGED <<plans, subscription, planBoost, commits, applied, newest, told, disturbed,
                     started, redelivered, faults>>
  BY DEF Publish
<1>2. pc'[c] = "idle" /\ \A d \in Calls \ {c} : pc'[d] = pc[d] /\ call'[d] = call[d]
  BY <1>1 DEF IInv, TypeOK
<1>3. Pending' = Pending
  BY <1>1, <1>2, PendingMoves
<1> QED
  BY <1>1, <1>3, Unmoved DEF Followed

LEMMA FailFollowed == ASSUME IInv, Followed, NEW c \in Calls, Fail(c) PROVE Followed'
<1>1. /\ disturbed' = disturbed \cup (IF pc[c] = "publish" THEN {"lost"} ELSE {})
      /\ call' = [call EXCEPT ![c] = NoCall] /\ pc' = [pc EXCEPT ![c] = "idle"]
      /\ UNCHANGED <<feedVars, plans, subscription, commits, newest, started>>
  BY DEF Fail
<1>2. pc'[c] = "idle" /\ \A d \in Calls \ {c} : pc'[d] = pc[d] /\ call'[d] = call[d]
  BY <1>1 DEF IInv, TypeOK
<1>3. Pending' \subseteq Pending /\ (pc[c] # "publish" => Pending' = Pending)
  BY <1>1, <1>2, PendingMoves DEF feedVars
<1>4. CASE pc[c] = "publish"
  BY <1>1, <1>3, <1>4 DEF Followed, Ordered, feedVars
<1>5. CASE pc[c] # "publish"
  BY <1>1, <1>3, <1>5, Unmoved DEF Followed, feedVars
<1> QED
  BY <1>4, <1>5

\* An event delivered in turn leaves every seller's row telling its plan, or an event
\* about it behind.
LEMMA DeliverFollowed == ASSUME IInv, Followed, Deliver PROVE Followed'
<1>1. PICK e \in queue :
        /\ planBoost' = [s \in Sellers |->
             IF ~Reaches(e, s) THEN planBoost[s]
             ELSE IF e.op = "subscribe" THEN Row(planBoost[s], e)
             ELSE [planBoost[s] EXCEPT !.boost = Effective(e.boost)]]
        /\ disturbed' = disturbed \cup (IF e.n < applied THEN {"late"} ELSE {})
        /\ applied' = IF e.n < applied THEN applied ELSE e.n
        /\ queue' = queue \ {e} \/ queue' = queue
        /\ UNCHANGED <<plans, subscription, pc, call, commits, newest>>
  BY DEF Deliver
<1>2. e \in Pending /\ Pending' \subseteq Pending /\ Pending \ {e} \subseteq Pending'
  BY <1>1 DEF Pending, Announcing, Event
<1>3. /\ commits \in Nat /\ applied \in Nat /\ e \in Events /\ e.n \in Nat /\ e.n <= commits
      /\ \A a \in Pending : a \in Events /\ a.n \in Nat
  BY <1>2, PendingTypes DEF IInv, TypeOK, Events, Followed, Ordered
<1>4. Ordered'
  BY <1>1, <1>2, <1>3 DEF Followed, Ordered
<1>5. ASSUME disturbed' = {}, ~Overtaken' PROVE AllTrack'
  <2>1. disturbed = {} /\ applied <= e.n /\ applied' = e.n
    BY <1>1, <1>3, <1>5
  <2>2. \A a \in Pending : a # e => a.n > e.n
    <3> SUFFICES ASSUME NEW a \in Pending, a # e PROVE a.n > e.n
      OBVIOUS
    <3>1. ~(a.n < e.n)
      BY <1>2, <1>5, <2>1 DEF Overtaken
    <3>2. a.n # e.n
      BY <1>2 DEF Followed, Ordered
    <3> QED
      BY <3>1, <3>2, <1>3
  <2>3. ~Overtaken
    BY <1>3, <2>1, <2>2 DEF Overtaken
  <2> SUFFICES ASSUME NEW s \in Sellers, subscription[s] # "none" PROVE Tracks(s)'
    BY <1>1 DEF AllTrack
  <2> DEFINE S == Subscribes(s)
  <2>4. Tracks(s) /\ newest[s] \in Nat /\ planBoost[s] \in PlanRecords
    BY <2>1, <2>3 DEF Followed, AllTrack, IInv, TypeOK
  <2>5. ASSUME e.n = newest[s], Concerns(e, s)
        PROVE  e.tier = Tier(s) /\ e.boost = plans[subscription[s]].boost
    BY <2>1, <2>5 DEF IInv, Announced, TellsPlan, Tier
  <2>6. /\ S \subseteq Pending /\ S' \subseteq S /\ S \ {e} \subseteq S'
        /\ e \in S <=> e.op = "subscribe" /\ e.seller = s
        /\ newest' = newest /\ Tier(s)' = Tier(s) /\ plans' = plans /\ subscription' = subscription
    BY <1>1, <1>2 DEF Subscribes, Tier
  <2>7. Reaches(e, s) => planBoost'[s] = [tier |-> e.tier, boost |-> Effective(e.boost), exists |-> TRUE]
    <3>1. CASE e.op = "subscribe"
      BY <3>1, <1>1 DEF Row
    <3>2. CASE e.op # "subscribe"
      BY <3>2, <1>1, <2>4 DEF Reaches, PlanRecords
    <3> QED
      BY <3>1, <3>2
  <2>8. ~Reaches(e, s) => planBoost'[s] = planBoost[s]
    BY <1>1
  <2>9. e.op = "update" \/ e.op = "subscribe"
    BY <1>3 DEF Events
  <2>10. OnItsWay(s)'
    <3> SUFFICES ASSUME newest[s] > e.n PROVE \E a \in Pending' : a.n = newest[s] /\ Concerns(a, s)
      BY <2>1, <2>6 DEF OnItsWay, Concerns
    <3>1. newest[s] > applied
      BY <1>3, <2>1, <2>4
    <3>2. PICK a \in Pending : a.n = newest[s] /\ Concerns(a, s)
      BY <3>1, <2>4 DEF Tracks, OnItsWay
    <3>3. a # e
      BY <3>2, <1>3, <2>4
    <3> QED
      BY <3>2, <3>3, <1>2
  <2> HIDE DEF S
  <2>11. LastTellsTier(s)'
    <3> SUFFICES ASSUME NEW a \in S', \A b \in S' : b.n <= a.n PROVE a.tier = Tier(s)
      BY <2>6 DEF LastTellsTier, S
    <3>1. \A b \in S : b.n <= a.n
      BY <2>2, <2>6, <1>3
    <3> QED
      BY <3>1, <2>4, <2>6 DEF Tracks, LastTellsTier, S
  <2>12. NoneIsNewer(s)'
    <3>1. \A a \in S' : a.n <= newest[s]
      BY <2>4, <2>6 DEF Tracks, NoneIsNewer, S
    <3>2. \A a \in Pending' : a.op = "update" /\ a.tier = Tier(s) => a.n <= newest[s]
      BY <1>2, <2>4 DEF Tracks, NoneIsNewer
    <3> QED
      BY <3>1, <3>2, <2>6 DEF NoneIsNewer, S
  \* A row no subscription is on its way to has the tier of the seller's plan.
  <2>13. ASSUME e \notin S, \A a \in S' : a.n <= e.n
         PROVE  planBoost[s].exists /\ planBoost[s].tier = Tier(s)
    <3>1. S = {}
      BY <2>2, <2>6, <2>13, <1>3
    <3> QED
      BY <3>1, <2>4 DEF Tracks, RowHasTier, S
  <2>14. RowHasTier(s)'
    <3> SUFFICES ASSUME \A a \in S' : a.n <= e.n
                 PROVE  planBoost'[s].exists /\ planBoost'[s].tier = Tier(s)
      BY <2>1, <2>6 DEF RowHasTier, S
    <3>1. CASE e \in S
      <4>1. \A b \in S : b.n <= e.n
        BY <2>2, <2>6, <1>3, <3>1
      <4>2. e.tier = Tier(s)
        BY <4>1, <3>1, <2>4 DEF Tracks, LastTellsTier, S
      <4>3. Reaches(e, s)
        BY <3>1, <2>6 DEF Reaches
      <4> QED
        BY <4>2, <4>3, <2>7
    <3>2. CASE e \notin S
      <4>1. planBoost[s].exists /\ planBoost[s].tier = Tier(s)
        BY <3>2, <2>13
      <4>2. CASE Reaches(e, s)
        <5>1. e.op # "subscribe"
          BY <4>2, <3>2, <2>6 DEF Reaches
        <5>2. planBoost[s].tier = e.tier
          BY <4>2, <5>1 DEF Reaches
        <5> QED
          BY <4>1, <4>2, <5>2, <2>7
      <4> QED
        BY <4>1, <4>2, <2>8
    <3> QED
      BY <3>1, <3>2
  <2>15. Arrived(s)'
    <3> SUFFICES ASSUME newest[s] <= e.n PROVE Tells(s)'
      BY <2>1, <2>6 DEF Arrived
    <3>1. CASE newest[s] <= applied /\ ~Reaches(e, s)
      BY <3>1, <2>4, <2>6, <2>8 DEF Tracks, Arrived, Tells
    <3>2. ASSUME e.n = newest[s], Concerns(e, s), Reaches(e, s) PROVE Tells(s)'
      BY <3>2, <2>5, <2>6, <2>7 DEF Tells, Tier
    <3>3. CASE newest[s] <= applied /\ Reaches(e, s)
      <4>1. Concerns(e, s)
        BY <3>3 DEF Reaches, Concerns
      <4>2. Tells(s)
        BY <3>3, <2>4 DEF Tracks, Arrived
      <4>3. e.n <= newest[s]
        <5>1. CASE e.op = "subscribe"
          <6>1. e \in S
            BY <5>1, <3>3, <2>6 DEF Reaches
          <6> QED
            BY <6>1, <2>4 DEF Tracks, NoneIsNewer, S
        <5>2. CASE e.op = "update"
          <6>1. e.tier = Tier(s)
            BY <4>2, <5>2, <3>3, <2>4 DEF Reaches, Tells, Tier
          <6> QED
            BY <6>1, <5>2, <1>2, <2>4 DEF Tracks, NoneIsNewer
        <5> QED
          BY <5>1, <5>2, <2>9
      <4>4. e.n = newest[s]
        BY <4>3, <3>3, <2>1, <2>4, <1>3
      <4> QED
        BY <4>1, <4>4, <3>2, <3>3
    <3>4. CASE newest[s] > applied
      <4>1. PICK a \in Pending : a.n = newest[s] /\ Concerns(a, s)
        BY <3>4, <2>4 DEF Tracks, OnItsWay
      <4>2. a = e
        BY <4>1, <2>2, <2>4, <1>3
      <4>3. e.n = newest[s] /\ Concerns(e, s)
        BY <4>1, <4>2
      <4>4. Reaches(e, s)
        <5>1. CASE e.op = "subscribe"
          BY <5>1, <4>3 DEF Reaches, Concerns
        <5>2. CASE e.op = "update"
          <6>1. e \notin S /\ \A b \in S' : b.n <= e.n
            <7>1. e \notin S
              BY <5>2, <2>6
            <7>2. \A b \in S' : b.n <= e.n
              BY <2>4, <2>6, <4>3 DEF Tracks, NoneIsNewer, S
            <7> QED
              BY <7>1, <7>2
          <6>2. planBoost[s].exists /\ planBoost[s].tier = e.tier
            BY <6>1, <2>13, <2>5, <4>3
          <6> QED
            BY <5>2, <6>2 DEF Reaches
        <5> QED
          BY <5>1, <5>2, <2>9
      <4> QED
        BY <4>3, <4>4, <3>2
    <3>5. newest[s] <= applied \/ newest[s] > applied
      BY <2>4, <1>3
    <3> QED
      BY <3>1, <3>3, <3>4, <3>5
  <2> QED
    BY <2>10, <2>11, <2>12, <2>14, <2>15 DEF Tracks
<1> QED
  BY <1>4, <1>5 DEF Followed

LEMMA DriftInvInit == ASSUME Params, Init PROVE DriftInv
<1>1. IInv /\ Pending = {}
  BY InitInv DEF Init, Pending, Announcing
<1>2. Followed
  BY <1>1 DEF Init, Followed, Ordered, AllTrack
<1> QED
  BY <1>1, <1>2 DEF DriftInv

LEMMA DriftInvNext == ASSUME Params, DriftInv, [Next]_vars PROVE DriftInv'
<1>1. IInv /\ IInv' /\ Followed
  BY NextInv DEF DriftInv
<1>2. CASE UNCHANGED vars
  <2>1. UNCHANGED <<feedVars, plans, subscription, pc, call, commits, newest, disturbed>>
    BY <1>2 DEF vars, feedVars
  <2>2. Pending' = Pending
    BY <2>1 DEF Pending, Announcing, Event, feedVars
  <2> QED
    BY <1>1, <2>1, <2>2, Unmoved DEF DriftInv, Followed, feedVars
<1>3. ASSUME NEW c \in Calls, SubscribeSeller(c) \/ UpdatePlan(c) PROVE Followed'
  BY <1>1, <1>3, BeginFollowed DEF SubscribeSeller, UpdatePlan
<1>4. CASE Next
  BY <1>1, <1>3, <1>4, CreatePlanFollowed, WriteSubscriptionFollowed, WritePlanFollowed,
     PublishFollowed, FailFollowed, DeliverFollowed DEF DriftInv, Next
<1> QED
  BY <1>2, <1>4

\* What the invariant says of the rows.
LEMMA DriftTold == ASSUME DriftInv PROVE NewestCommitHeals /\ DriftNeedsACause
<1>1. NewestCommitHeals
  BY DEF DriftInv, IInv, RowsTell, NewestCommitHeals
<1>2. DriftNeedsACause
  <2> SUFFICES ASSUME Quiet, disturbed = {}, NEW s \in Sellers, subscription[s] # "none"
               PROVE  Tells(s)
    BY DEF DriftNeedsACause, Tells
  <2>1. Pending = {}
    BY DEF Quiet, Pending, Announcing
  <2>2. Tracks(s)
    BY <2>1 DEF DriftInv, Followed, Overtaken, AllTrack
  <2>3. newest[s] <= applied
    BY <2>1, <2>2 DEF Tracks, OnItsWay, DriftInv, IInv, TypeOK
  <2> QED
    BY <2>2, <2>3 DEF Tracks, Arrived
<1> QED
  BY <1>1, <1>2

\* However many plans, sellers and calls there are: as long as no event was lost, late
\* or told an overtaken plan, and tiers tell plans apart, every row is right once all
\* events are delivered.
THEOREM DriftAlwaysNeedsACause == ASSUME Params PROVE Spec => []DriftNeedsACause
<1>1. Init => DriftInv
  BY DriftInvInit
<1>2. DriftInv /\ [Next]_vars => DriftInv'
  BY DriftInvNext
<1>3. DriftInv => DriftNeedsACause
  BY DriftTold
<1> QED
  BY <1>1, <1>2, <1>3, PTL DEF Spec
===============================================================================
