---------------------------- MODULE ShipmentsProofs ----------------------------
(***************************************************************************)
(* Proofs about Shipments, for any number of handlers, seller calls, outbox *)
(* rows and relays: its type invariant, that a cancellation absorbs a late  *)
(* order.paid, that the outbox tells the story of the shipment, and that    *)
(* Shipments implements OutboxRelay, whose theorems it therefore inherits.  *)
(***************************************************************************)
EXTENDS Shipments, SequenceTheorems, TLAPS

\* The theorems of OutboxRelay, about the relay inside Shipments.
RelayProofs == INSTANCE OutboxRelayProofs

-------------------------------------------------------------------------------
(***************************************************************************)
(* Type correctness.                                                       *)
(***************************************************************************)

LEMMA TypeInit == Init => TypeOK
<1> SUFFICES ASSUME Init PROVE TypeOK
  OBVIOUS
<1>1. rowEvent \in Seq({"shipped", "delivered"}) /\ Len(rowEvent) <= NumRows
  BY RelayAssumption DEF Init
<1>2. /\ hpc \in [Handlers -> {"idle", "insert", "update", "exists", "tombstone"}]
      /\ \A h \in Handlers : hpc[h] # "idle" <=> lock = h
  BY HandlersAssumption DEF Init
<1>3. {paidEvent, cancelledEvent, tombstone, cancelHandled} \subseteq BOOLEAN
  BY DEF Init
<1>4. /\ order \in {"pending", "paid", "shipped", "delivered", "cancelled"}
      /\ shipment \in ShipmentStatus /\ handled \in 0..MaxHandled
      /\ loaded \in [Callers -> {"idle", "ready_to_ship", "shipped"}]
  BY MaxHandledAssumption DEF Init, ShipmentStatus
<1> QED
  BY <1>1, <1>2, <1>3, <1>4 DEF TypeOK

\* What only the relay, or only order-svc, changes does not concern TypeOK.
LEMMA TypeFrame ==
  ASSUME TypeOK, UNCHANGED <<shipmentVars, handlerVars, loaded>>,
         order' \in {"pending", "paid", "shipped", "delivered", "cancelled"},
         {paidEvent', cancelledEvent'} \subseteq BOOLEAN
  PROVE  TypeOK'
  BY DEF TypeOK, shipmentVars, handlerVars

\* A handler's transaction holds the lock from its first statement to its last.
LEMMA TypeHandler ==
  ASSUME TypeOK, NEW h \in Handlers,
         HandleOrderPaid(h) \/ HandleOrderCancelled(h) \/ Handle(h) \/ Rollback(h)
  PROVE  TypeOK'
<1> USE MaxHandledAssumption, HandlersAssumption
    DEF TypeOK, orderVars, shipmentVars, ShipmentStatus
<1>1. CASE HandleOrderPaid(h) \/ HandleOrderCancelled(h)
  BY <1>1 DEF HandleOrderPaid, HandleOrderCancelled, Begin, LockFree
<1>2. CASE InsertShipment(h)
  BY <1>2 DEF InsertShipment, Commit
<1>3. CASE CancelUpdate(h)
  BY <1>3 DEF CancelUpdate, Commit
<1>4. CASE CancelExists(h)
  BY <1>4 DEF CancelExists, Commit
<1>5. CASE CancelTombstone(h)
  BY <1>5 DEF CancelTombstone, Commit
<1>6. CASE Rollback(h)
  BY <1>6 DEF Rollback, Commit
<1> QED
  BY <1>1, <1>2, <1>3, <1>4, <1>5, <1>6 DEF Handle

LEMMA TypeCall ==
  ASSUME TypeOK, NEW c \in Callers, Load(c) \/ Advance(c) \/ AbandonCall(c)
  PROVE  TypeOK'
<1> USE DEF orderVars, shipmentVars, handlerVars
<1>1. CASE Load(c)
  BY <1>1 DEF Load, TypeOK
<1>2. CASE AbandonCall(c)
  BY <1>2 DEF AbandonCall, TypeOK
<1>3. CASE Advance(c)
  <2>1. loaded' \in [Callers -> {"idle", "ready_to_ship", "shipped"}]
        /\ UNCHANGED <<orderVars, handlerVars, tombstone>>
    BY <1>3 DEF Advance, TypeOK
  <2>2. CASE UNCHANGED <<shipment, rowEvent>>
    BY <2>1, <2>2 DEF TypeOK
  <2>3. CASE /\ Len(rowEvent) < NumRows
             /\ shipment' \in {"shipped", "delivered"}
             /\ rowEvent' = Append(rowEvent, shipment')
    <3>1. rowEvent' \in Seq({"shipped", "delivered"}) /\ Len(rowEvent') = Len(rowEvent) + 1
      BY <2>3 DEF TypeOK
    <3>2. Len(rowEvent') <= NumRows /\ shipment' \in ShipmentStatus
      BY <2>3, <3>1, RelayAssumption DEF TypeOK, ShipmentStatus
    <3> QED
      BY <2>1, <3>1, <3>2 DEF TypeOK
  <2> QED
    BY <1>3, <2>2, <2>3 DEF Advance
<1> QED
  BY <1>1, <1>2, <1>3

LEMMA TypeStep == TypeOK /\ [Next]_vars => TypeOK'
<1> SUFFICES ASSUME TypeOK, [Next]_vars PROVE TypeOK'
  OBVIOUS
<1>1. CASE OrderPaid \/ PublishPaid \/ CancelOrder
  BY <1>1, TypeFrame DEF OrderPaid, PublishPaid, CancelOrder, TypeOK
<1>2. ASSUME NEW e \in DOMAIN rowEvent, HandleShipmentEvent(e) PROVE TypeOK'
  <2>1. rowEvent[e] \in {"shipped", "delivered"}
    BY DEF TypeOK
  <2> QED
    BY <1>2, <2>1, TypeFrame DEF HandleShipmentEvent, TypeOK
<1>3. ASSUME NEW h \in Handlers,
             HandleOrderPaid(h) \/ HandleOrderCancelled(h) \/ Handle(h) \/ Rollback(h)
      PROVE  TypeOK'
  BY <1>3, TypeHandler
<1>4. ASSUME NEW c \in Callers, Load(c) \/ Advance(c) \/ AbandonCall(c) PROVE TypeOK'
  BY <1>4, TypeCall
<1>5. CASE RelayStep \/ UNCHANGED vars
  BY <1>5, TypeFrame DEF RelayStep, vars, orderVars, TypeOK
<1> QED
  BY <1>1, <1>2, <1>3, <1>4, <1>5 DEF Next

\* Every reachable state is well typed, and one handler at most is inside its
\* transaction: the holder of the advisory lock.
THEOREM TypeCorrect == Spec => []TypeOK
  BY TypeInit, TypeStep, PTL DEF Spec

-------------------------------------------------------------------------------
(***************************************************************************)
(* What each kind of step leaves alone.                                    *)
(***************************************************************************)

\* order-svc and the relay do not touch shipping-svc's own state.
Elsewhere ==
  \/ OrderPaid \/ PublishPaid \/ CancelOrder \/ RelayStep
  \/ \E e \in DOMAIN rowEvent : HandleShipmentEvent(e)

LEMMA ElsewhereFrame ==
  ASSUME Elsewhere \/ UNCHANGED vars
  PROVE  UNCHANGED <<shipmentVars, handlerVars, loaded>>
  BY DEF Elsewhere, OrderPaid, PublishPaid, CancelOrder, RelayStep, HandleShipmentEvent, vars

LEMMA CallFrame ==
  ASSUME NEW c \in Callers, Load(c) \/ Advance(c) \/ AbandonCall(c)
  PROVE  UNCHANGED <<tombstone, handlerVars>>
  BY DEF Load, Advance, AbandonCall, shipmentVars

\* Of all the seller's calls, only one that finds the status it had loaded
\* changes the shipment, and it writes the outbox row in the same transaction.
LEMMA CallMoves ==
  ASSUME TypeOK, NEW c \in Callers, Load(c) \/ Advance(c) \/ AbandonCall(c)
  PROVE  \/ UNCHANGED <<shipment, rowEvent>>
         \/ /\ shipment = "ready_to_ship" /\ shipment' = "shipped"
            /\ rowEvent' = Append(rowEvent, "shipped")
         \/ /\ shipment = "shipped" /\ shipment' = "delivered"
            /\ rowEvent' = Append(rowEvent, "delivered")
<1>1. CASE Load(c) \/ AbandonCall(c)
  BY <1>1 DEF Load, AbandonCall, shipmentVars
<1>2. CASE Advance(c)
  <2>1. loaded[c] \in {"ready_to_ship", "shipped"}
    BY <1>2 DEF Advance, TypeOK
  <2> QED
    BY <1>2, <2>1 DEF Advance, Guarded
<1> QED
  BY <1>1, <1>2

-------------------------------------------------------------------------------
(***************************************************************************)
(* A cancellation absorbs a late order.paid.                               *)
(***************************************************************************)

\* What CancelByOrderID has found out about the shipment stays true between its
\* statements, because InsertShipment needs the lock it holds and a seller's
\* call cannot create a shipment or make one wait again.
AbsorbInv ==
  /\ CancelAbsorbsPaid
  /\ \A h \in Handlers : hpc[h] = "exists" => shipment # "ready_to_ship"
  /\ \A h \in Handlers : hpc[h] = "tombstone" => shipment = "none"

LEMMA AbsorbHandler ==
  ASSUME TypeOK, AbsorbInv, NEW h \in Handlers,
         HandleOrderPaid(h) \/ HandleOrderCancelled(h) \/ Handle(h) \/ Rollback(h)
  PROVE  AbsorbInv'
<1> USE DEF AbsorbInv, CancelAbsorbsPaid
<1>1. CASE HandleOrderPaid(h) \/ HandleOrderCancelled(h)
  BY <1>1 DEF HandleOrderPaid, HandleOrderCancelled, Begin, shipmentVars, TypeOK
<1>2. ASSUME hpc[h] # "idle", NEW g \in Handlers, g # h PROVE hpc[g] = "idle"
  BY <1>2 DEF TypeOK
<1>3. CASE InsertShipment(h)
  <2>1. /\ hpc[h] = "insert" /\ UNCHANGED <<tombstone, cancelHandled>>
        /\ shipment' = IF Absent THEN "ready_to_ship" ELSE shipment
        /\ hpc' = [hpc EXCEPT ![h] = "idle"]
    BY <1>3 DEF InsertShipment, Commit
  <2>2. \A g \in Handlers : hpc'[g] = "idle"
    BY <1>2, <2>1 DEF TypeOK
  <2> QED
    BY <2>1, <2>2 DEF Absent
<1>4. CASE CancelUpdate(h)
  <2>1. hpc[h] = "update" /\ UNCHANGED tombstone
    BY <1>4 DEF CancelUpdate
  <2>2. CASE shipment = "ready_to_ship"
    <3>1. shipment' = "cancelled" /\ hpc' = [hpc EXCEPT ![h] = "idle"]
      BY <1>4, <2>2 DEF CancelUpdate, Commit
    <3>2. \A g \in Handlers : hpc'[g] = "idle"
      BY <1>2, <2>1, <3>1 DEF TypeOK
    <3> QED
      BY <2>1, <2>2, <3>1, <3>2
  <2>3. CASE shipment # "ready_to_ship"
    <3>1. hpc' = [hpc EXCEPT ![h] = "exists"] /\ UNCHANGED <<shipment, cancelHandled>>
      BY <1>4, <2>3 DEF CancelUpdate
    <3> QED
      BY <2>1, <2>3, <3>1 DEF TypeOK
  <2> QED
    BY <2>2, <2>3
<1>5. CASE CancelExists(h)
  BY <1>5 DEF CancelExists, Commit, TypeOK, shipmentVars
<1>6. CASE CancelTombstone(h)
  BY <1>6 DEF CancelTombstone, Commit, TypeOK
<1>7. CASE Rollback(h)
  BY <1>7 DEF Rollback, Commit, TypeOK, shipmentVars
<1> QED
  BY <1>1, <1>3, <1>4, <1>5, <1>6, <1>7 DEF Handle

LEMMA AbsorbStep == TypeOK /\ AbsorbInv /\ [Next]_vars => AbsorbInv'
<1> SUFFICES ASSUME TypeOK, AbsorbInv, [Next]_vars PROVE AbsorbInv'
  OBVIOUS
<1>1. CASE Elsewhere \/ UNCHANGED vars
  BY <1>1, ElsewhereFrame DEF shipmentVars, handlerVars, AbsorbInv, CancelAbsorbsPaid
<1>2. ASSUME NEW h \in Handlers,
             HandleOrderPaid(h) \/ HandleOrderCancelled(h) \/ Handle(h) \/ Rollback(h)
      PROVE  AbsorbInv'
  BY <1>2, AbsorbHandler
<1>3. ASSUME NEW c \in Callers, Load(c) \/ Advance(c) \/ AbandonCall(c) PROVE AbsorbInv'
  <2>1. /\ UNCHANGED <<tombstone, cancelHandled, hpc>>
        /\ \/ UNCHANGED shipment
           \/ shipment \in {"ready_to_ship", "shipped"} /\ shipment' \in {"shipped", "delivered"}
    BY <1>3, CallFrame, CallMoves DEF handlerVars
  <2> QED
    BY <2>1 DEF AbsorbInv, CancelAbsorbsPaid
<1> QED
  BY <1>1, <1>2, <1>3 DEF Next, Elsewhere

\* Once order.cancelled has been handled no shipment waits for its seller and
\* none will be created, however the two events' handlers interleave.
THEOREM CancellationAbsorbsPaid == Spec => []CancelAbsorbsPaid
<1>1. Init => AbsorbInv
  BY DEF Init, AbsorbInv, CancelAbsorbsPaid
<1>2. AbsorbInv => CancelAbsorbsPaid
  BY DEF AbsorbInv
<1> QED
  BY <1>1, <1>2, AbsorbStep, TypeInit, TypeStep, PTL DEF Spec

-------------------------------------------------------------------------------
(***************************************************************************)
(* The outbox tells the story of the shipment.                             *)
(***************************************************************************)

\* The story, told status by status.
LEMMA Story ==
  ASSUME TypeOK
  PROVE  EventsTellStatus <=>
           /\ shipment = "shipped" => rowEvent = <<"shipped">>
           /\ shipment = "delivered" => rowEvent = <<"shipped", "delivered">>
           /\ shipment \in {"none", "ready_to_ship", "cancelled"} => rowEvent = <<>>
  BY DEF EventsTellStatus, TypeOK, ShipmentStatus

\* The two appends that ever happen.
LEMMA Appends ==
  /\ Append(<<>>, "shipped") = <<"shipped">>
  /\ Append(<<"shipped">>, "delivered") = <<"shipped", "delivered">>
<1> DEFINE Event == {"shipped", "delivered"}
           One == <<"shipped">>
           Two == <<"shipped", "delivered">>
<1>1. /\ <<>> \in Seq(Event) /\ Len(<<>>) = 0
      /\ One \in Seq(Event) /\ Len(One) = 1 /\ One[1] = "shipped"
      /\ Two \in Seq(Event) /\ Len(Two) = 2 /\ Two[1] = "shipped" /\ Two[2] = "delivered"
  OBVIOUS
<1>2. /\ Append(<<>>, "shipped") \in Seq(Event)
      /\ Len(Append(<<>>, "shipped")) = 1 /\ Append(<<>>, "shipped")[1] = "shipped"
  BY <1>1
<1>3. Append(One, "delivered") \in Seq(Event) /\ Len(Append(One, "delivered")) = 2
  BY <1>1
<1>4. Append(One, "delivered")[1] = "shipped" /\ Append(One, "delivered")[2] = "delivered"
  BY <1>1
<1>5. \A i \in 1..2 : i = 1 \/ i = 2
  OBVIOUS
<1>6. \A i \in 1..1 : i = 1
  OBVIOUS
<1> HIDE DEF Event, One, Two
<1>7. Append(<<>>, "shipped") = One
  BY <1>1, <1>2, <1>6, SeqEqual
<1>8. Append(One, "delivered") = Two
  BY <1>1, <1>3, <1>4, <1>5, SeqEqual
<1> QED
  BY <1>7, <1>8 DEF One, Two

LEMMA StoryStep == TypeOK /\ EventsTellStatus /\ [Next]_vars => EventsTellStatus'
<1> SUFFICES ASSUME TypeOK, EventsTellStatus, [Next]_vars PROVE EventsTellStatus'
  OBVIOUS
<1>1. CASE Elsewhere \/ UNCHANGED vars
  BY <1>1, ElsewhereFrame DEF shipmentVars, EventsTellStatus
<1>2. ASSUME NEW h \in Handlers,
             HandleOrderPaid(h) \/ HandleOrderCancelled(h) \/ Handle(h) \/ Rollback(h)
      PROVE  EventsTellStatus'
  <2>1. /\ UNCHANGED rowEvent
        /\ \/ UNCHANGED shipment
           \/ shipment \in {"none", "ready_to_ship"} /\ shipment' \in {"ready_to_ship", "cancelled"}
    BY <1>2 DEF HandleOrderPaid, HandleOrderCancelled, Begin, Handle, Rollback, InsertShipment,
       CancelUpdate, CancelExists, CancelTombstone, Absent, shipmentVars
  <2> QED
    BY <2>1 DEF EventsTellStatus
<1>3. ASSUME NEW c \in Callers, Load(c) \/ Advance(c) \/ AbandonCall(c)
      PROVE  EventsTellStatus'
  BY <1>3, Appends, CallMoves DEF EventsTellStatus
<1> QED
  BY <1>1, <1>2, <1>3 DEF Next, Elsewhere

\* One shipped event, then one delivered event, and none for a shipment that was
\* cancelled, however many calls raced on what they had loaded.
THEOREM OutboxTellsStatus == Spec => []EventsTellStatus
<1>1. Init => EventsTellStatus
  BY DEF Init, EventsTellStatus
<1> QED
  BY <1>1, StoryStep, TypeInit, TypeStep, PTL DEF Spec

-------------------------------------------------------------------------------
(***************************************************************************)
(* order-svc is never ahead of shipping-svc.                               *)
(***************************************************************************)

\* What order-svc believes of the shipment has happened to the shipment: its
\* unconditional UPDATE may go back and forth, but only between true stories.
NeverAhead ==
  /\ order = "shipped" => shipment \in {"shipped", "delivered"}
  /\ order = "delivered" => shipment = "delivered"

LEMMA NeverAheadStep == TypeOK /\ EventsTellStatus /\ NeverAhead /\ [Next]_vars => NeverAhead'
<1> SUFFICES ASSUME TypeOK, EventsTellStatus, NeverAhead, [Next]_vars PROVE NeverAhead'
  OBVIOUS
<1>1. CASE OrderPaid \/ PublishPaid \/ CancelOrder \/ RelayStep \/ UNCHANGED vars
  BY <1>1 DEF OrderPaid, PublishPaid, CancelOrder, RelayStep, vars, orderVars, shipmentVars, NeverAhead
<1>2. ASSUME NEW e \in DOMAIN rowEvent, HandleShipmentEvent(e) PROVE NeverAhead'
  <2>1. /\ rowEvent[e] = "shipped" => shipment \in {"shipped", "delivered"}
        /\ rowEvent[e] = "delivered" => shipment = "delivered"
    BY <1>2, Story DEF TypeOK, ShipmentStatus
  <2> QED
    BY <1>2, <2>1 DEF HandleShipmentEvent, shipmentVars, NeverAhead
<1>3. ASSUME NEW h \in Handlers,
             HandleOrderPaid(h) \/ HandleOrderCancelled(h) \/ Handle(h) \/ Rollback(h)
      PROVE  NeverAhead'
  <2>1. /\ UNCHANGED order
        /\ UNCHANGED shipment \/ shipment \in {"none", "ready_to_ship"}
    BY <1>3 DEF HandleOrderPaid, HandleOrderCancelled, Begin, Handle, Rollback, InsertShipment,
       CancelUpdate, CancelExists, CancelTombstone, Absent, shipmentVars, orderVars
  <2> QED
    BY <2>1 DEF NeverAhead
<1>4. ASSUME NEW c \in Callers, Load(c) \/ Advance(c) \/ AbandonCall(c) PROVE NeverAhead'
  <2>1. UNCHANGED order
    BY <1>4 DEF Load, Advance, AbandonCall, orderVars
  <2> QED
    BY <1>4, <2>1, CallMoves DEF NeverAhead
<1> QED
  BY <1>1, <1>2, <1>3, <1>4 DEF Next

\* order-svc shows an order as shipped or delivered only when its shipment is
\* (at least) that far, although its handler writes whatever event arrives.
THEOREM OrderIsNeverAhead == Spec => []NeverAhead
<1>1. Init => EventsTellStatus /\ NeverAhead
  BY DEF Init, EventsTellStatus, NeverAhead
<1> QED
  BY <1>1, StoryStep, NeverAheadStep, TypeInit, TypeStep, PTL DEF Spec

-------------------------------------------------------------------------------
(***************************************************************************)
(* Shipments implements OutboxRelay.                                       *)
(***************************************************************************)

\* The only writer of the outbox is Advance, which appends one row; every other
\* step is a step of the relay or leaves it alone.
LEMMA RelayRefined == [Next]_vars => [Relay!Next]_(Relay!relayVars)
<1> SUFFICES ASSUME [Next]_vars PROVE Relay!Next \/ UNCHANGED Relay!relayVars
  OBVIOUS
<1> USE DEF Relay!relayVars, Relay!tableVars, Relay!cycleVars, relayVars
<1>1. CASE OrderPaid \/ PublishPaid \/ CancelOrder \/ UNCHANGED vars
  BY <1>1 DEF OrderPaid, PublishPaid, CancelOrder, vars
<1>2. ASSUME NEW e \in DOMAIN rowEvent, HandleShipmentEvent(e) PROVE UNCHANGED Relay!relayVars
  BY <1>2 DEF HandleShipmentEvent
<1>3. ASSUME NEW h \in Handlers,
             HandleOrderPaid(h) \/ HandleOrderCancelled(h) \/ Handle(h) \/ Rollback(h)
      PROVE  UNCHANGED Relay!relayVars
  BY <1>3 DEF HandleOrderPaid, HandleOrderCancelled, Begin, Handle, Rollback, InsertShipment,
     CancelUpdate, CancelExists, CancelTombstone
<1>4. ASSUME NEW c \in Callers, Load(c) \/ Advance(c) \/ AbandonCall(c)
      PROVE  Relay!Next \/ UNCHANGED Relay!relayVars
  <2>1. CASE Load(c) \/ AbandonCall(c)
    BY <2>1 DEF Load, AbandonCall
  <2>2. CASE Advance(c)
    <3>1. Relay!Append(Len(rowEvent) + 1) \/ UNCHANGED relayVars
      BY <2>2 DEF Advance
    <3>2. Relay!Append(Len(rowEvent) + 1) => Len(rowEvent) + 1 \in Relay!Rows
      BY DEF Relay!Append
    <3> QED
      BY <3>1, <3>2 DEF Relay!Next
  <2> QED
    BY <1>4, <2>1, <2>2
<1>5. CASE RelayStep
  BY <1>5 DEF RelayStep, Relay!Next
<1> QED
  BY <1>1, <1>2, <1>3, <1>4, <1>5 DEF Next

\* Every behaviour of the shipping service is a behaviour of its outbox.
THEOREM ImplementsRelay == Spec => Relay!Spec
<1>1. Init => Relay!Init
  BY DEF Init
<1> QED
  BY <1>1, RelayRefined, PTL DEF Spec, Relay!Spec

\* The relay that runs in Shipments is the relay the theorems of OutboxRelay
\* are about: two instances of one module, action by action.
LEMMA SameRelay == Relay!Spec <=> RelayProofs!Spec
<1>1. Relay!Init <=> RelayProofs!Init
  BY DEF Relay!Init, RelayProofs!Init, Relay!Rows, RelayProofs!Rows
<1>2. \A r \in Relays : Relay!Claim(r) <=> RelayProofs!Claim(r)
  <2>1. Relay!Rows = RelayProofs!Rows
    BY DEF Relay!Rows, RelayProofs!Rows
  <2>2. \A e : Relay!Claimable(e) <=> RelayProofs!Claimable(e)
    BY DEF Relay!Claimable, RelayProofs!Claimable
  <2>3. \A S \in SUBSET Relay!Rows : Relay!OldestClaimable(S) <=> RelayProofs!OldestClaimable(S)
    <3>1. \A S : Relay!Cardinality(S) = RelayProofs!Cardinality(S)
      BY DEF Relay!Cardinality, RelayProofs!Cardinality
    <3> QED
      BY <2>1, <2>2, <3>1 DEF Relay!OldestClaimable, RelayProofs!OldestClaimable
  <2> QED
    BY <2>1, <2>3 DEF Relay!Claim, RelayProofs!Claim
<1>3. \A r \in Relays, e \in Relay!Rows : Relay!PublishOk(r, e) <=> RelayProofs!PublishOk(r, e)
  BY DEF Relay!PublishOk, RelayProofs!PublishOk, Relay!Sent, RelayProofs!Sent,
         Relay!AfterPublish, RelayProofs!AfterPublish, Relay!tableVars,
         RelayProofs!tableVars
<1>4. \A r \in Relays, e \in Relay!Rows, left \in BOOLEAN : Relay!PublishFails(r, e, left) <=> RelayProofs!PublishFails(r, e, left)
  BY DEF Relay!PublishFails, RelayProofs!PublishFails, Relay!Fault, RelayProofs!Fault,
         Relay!Sent, RelayProofs!Sent, Relay!AfterPublish, RelayProofs!AfterPublish,
         Relay!tableVars, RelayProofs!tableVars
<1>5. \A r \in Relays : Relay!Mark(r) <=> RelayProofs!Mark(r)
  BY DEF Relay!Mark, RelayProofs!Mark, Relay!Marked, RelayProofs!Marked, Relay!Return,
         RelayProofs!Return, Relay!Rows, RelayProofs!Rows
<1>6. \A r \in Relays : /\ (Relay!MarkFails(r) <=> RelayProofs!MarkFails(r))
                          /\ (Relay!Crash(r) <=> RelayProofs!Crash(r))
  BY DEF Relay!MarkFails, RelayProofs!MarkFails, Relay!Crash, RelayProofs!Crash,
         Relay!Return, RelayProofs!Return, Relay!Fault, RelayProofs!Fault,
         Relay!tableVars, RelayProofs!tableVars
<1>7. \A r \in Relays, e \in Relay!Rows, written \in BOOLEAN : Relay!RecordFailure(r, e, written) <=> RelayProofs!RecordFailure(r, e, written)
  BY DEF Relay!RecordFailure, RelayProofs!RecordFailure, Relay!Fault, RelayProofs!Fault
<1>8. \A e \in Relay!Rows : /\ (Relay!ClaimAges(e) <=> RelayProofs!ClaimAges(e))
                             /\ (Relay!Append(e) <=> RelayProofs!Append(e))
  BY DEF Relay!ClaimAges, RelayProofs!ClaimAges, Relay!Append, RelayProofs!Append,
         Relay!Rows, RelayProofs!Rows, Relay!cycleVars, RelayProofs!cycleVars
<1>9. Relay!Rows = RelayProofs!Rows
  BY DEF Relay!Rows, RelayProofs!Rows
<1>10. \A r \in Relays : Relay!Cycle(r) <=> RelayProofs!Cycle(r)
  BY <1>2, <1>3, <1>4, <1>5, <1>6, <1>7, <1>9
     DEF Relay!Cycle, RelayProofs!Cycle, Relay!Publishing, RelayProofs!Publishing,
         Relay!Recording, RelayProofs!Recording
<1>11. Relay!Next <=> RelayProofs!Next
  BY <1>6, <1>8, <1>9, <1>10
     DEF Relay!Next, RelayProofs!Next, Relay!RelayNext, RelayProofs!RelayNext
<1>12. UNCHANGED Relay!relayVars <=> UNCHANGED RelayProofs!relayVars
  BY DEF Relay!relayVars, RelayProofs!relayVars, Relay!tableVars, RelayProofs!tableVars,
         Relay!cycleVars, RelayProofs!cycleVars
<1>13. [Relay!Next]_(Relay!relayVars) <=> [RelayProofs!Next]_(RelayProofs!relayVars)
  BY <1>11, <1>12
<1> QED
  BY <1>1, <1>13, PTL DEF Relay!Spec, RelayProofs!Spec

\* So the relay keeps its promises inside the service: no shipment event is
\* written off unsent, none is sent twice without an excuse, and the outbox
\* refines EventDelivery.
THEOREM InheritedFromRelay ==
  Spec => /\ [](Relay!PublishedIsSent)
          /\ [](Relay!DuplicateIsExcused)
          /\ Relay!ImplementsDelivery
<1>1. RelayProofs!PublishedIsSent <=> Relay!PublishedIsSent
  BY DEF Relay!PublishedIsSent, RelayProofs!PublishedIsSent
<1>2. RelayProofs!DuplicateIsExcused <=> Relay!DuplicateIsExcused
  BY DEF Relay!DuplicateIsExcused, RelayProofs!DuplicateIsExcused, Relay!Rows, RelayProofs!Rows
<1>3. RelayProofs!ED!Init <=> Relay!ED!Init
  BY DEF RelayProofs!ED!Init, Relay!ED!Init, Relay!Rows, RelayProofs!Rows
<1>4. [RelayProofs!ED!Next]_(RelayProofs!ED!vars) <=> [Relay!ED!Next]_(Relay!ED!vars)
  BY DEF RelayProofs!ED!Next, Relay!ED!Next, RelayProofs!ED!vars, Relay!ED!vars,
         RelayProofs!ED!Record, Relay!ED!Record, RelayProofs!ED!Deliver, Relay!ED!Deliver,
         RelayProofs!ED!Close, Relay!ED!Close, Relay!Rows, RelayProofs!Rows
<1>5. RelayProofs!Spec => []RelayProofs!PublishedIsSent
  BY RelayProofs!NothingClosedUnsent, RelayAssumption
<1>6. RelayProofs!Spec => []RelayProofs!DuplicateIsExcused
  BY RelayProofs!DuplicatesAreExcused, RelayAssumption
<1>7. RelayProofs!Spec => RelayProofs!ImplementsDelivery
  BY RelayProofs!Implements, RelayAssumption
<1>8. RelayProofs!ImplementsDelivery => Relay!ImplementsDelivery
  BY <1>3, <1>4, PTL DEF RelayProofs!ImplementsDelivery, Relay!ImplementsDelivery,
     RelayProofs!ED!Spec, Relay!ED!Spec
<1> QED
  BY <1>1, <1>2, <1>5, <1>6, <1>7, <1>8, SameRelay, ImplementsRelay, PTL
================================================================================
