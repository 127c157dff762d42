------------------------------- MODULE Shipments -------------------------------
(***************************************************************************)
(* The shipment of one order, across two services. shipping-svc creates it *)
(* on order.paid, cancels it on order.cancelled, lets the seller register  *)
(* and deliver it, and tells order-svc through the outbox (OutboxRelay).   *)
(* Pub/Sub delivers both services' events at least once and in any order,  *)
(* and several handlers run at once.                                       *)
(***************************************************************************)
EXTENDS Naturals, Sequences

CONSTANTS
  NumRows, Relays, BatchSize, MaxFaults,  \* of OutboxRelay
  Handlers,   \* order events shipping-svc can be handling at once
  Callers,    \* seller API calls that can run at once
  MaxHandled  \* bound: order events handled, redeliveries included

ASSUME MaxHandledAssumption == MaxHandled \in Nat

\* What OutboxRelay assumes of its own parameters.
ASSUME RelayAssumption ==
  NumRows \in Nat /\ BatchSize \in Nat \ {0} /\ MaxFaults \in Nat

VARIABLES
  \* order-svc: orders.status, and the events it has published
  order, paidEvent, cancelledEvent,
  \* shipping-svc: shipments.status ("none": no row), cancelled_order_tombstones,
  \* the outbox rows' event types, the holder of the advisory lock
  shipment, tombstone, rowEvent, lock,
  \* order event handlers and seller calls: where they are; a call keeps the
  \* status it loaded
  hpc, loaded,
  \* history: order.cancelled has been handled; events handled so far
  cancelHandled, handled,
  \* the outbox and its relay
  outbox, publishedAt, processingAt, sent, rpc, batch, ok, bad, excused, relayFaults

Relay == INSTANCE OutboxRelay

orderVars    == <<order, paidEvent, cancelledEvent>>
shipmentVars == <<shipment, tombstone, rowEvent>>
handlerVars  == <<lock, hpc, cancelHandled, handled>>
relayVars    == <<outbox, publishedAt, processingAt, sent, rpc, batch, ok, bad, excused, relayFaults>>
vars == <<orderVars, shipmentVars, handlerVars, loaded, relayVars>>

ShipmentStatus == {"none", "ready_to_ship", "shipped", "delivered", "cancelled"}
NoOne == "nobody"

ASSUME HandlersAssumption == NoOne \notin Handlers

\* The types of the variables; the advisory lock is held by the one handler
\* that is inside its transaction.
TypeOK ==
  /\ order \in {"pending", "paid", "shipped", "delivered", "cancelled"}
  /\ {paidEvent, cancelledEvent, tombstone, cancelHandled} \subseteq BOOLEAN
  /\ shipment \in ShipmentStatus
  /\ rowEvent \in Seq({"shipped", "delivered"})
  /\ Len(rowEvent) <= NumRows
  /\ hpc \in [Handlers -> {"idle", "insert", "update", "exists", "tombstone"}]
  /\ loaded \in [Callers -> {"idle", "ready_to_ship", "shipped"}]
  /\ \A h \in Handlers : hpc[h] # "idle" <=> lock = h
  /\ handled \in 0..MaxHandled

Init ==
  /\ order = "pending"
  /\ paidEvent = FALSE
  /\ cancelledEvent = FALSE
  /\ shipment = "none"
  /\ tombstone = FALSE
  /\ rowEvent = <<>>
  /\ lock = NoOne
  /\ hpc = [h \in Handlers |-> "idle"]
  /\ loaded = [c \in Callers |-> "idle"]
  /\ cancelHandled = FALSE
  /\ handled = 0
  /\ Relay!Init

-------------------------------------------------------------------------------
(***************************************************************************)
(* order-svc, reduced to what shipping-svc sees of it.                     *)
(***************************************************************************)

\* HandlePaymentSuccess: SetPaid ...
OrderPaid ==
  /\ order = "pending"
  /\ order' = "paid"
  /\ UNCHANGED <<paidEvent, cancelledEvent, shipmentVars, handlerVars, loaded, relayVars>>

\* ... and later order.paid; the order may have been cancelled meanwhile, even
\* before SetPaid (see OrderSettlement).
PublishPaid ==
  /\ order # "pending"
  /\ ~paidEvent
  /\ paidEvent' = TRUE
  /\ UNCHANGED <<order, cancelledEvent, shipmentVars, handlerVars, loaded, relayVars>>

\* ApproveTx cancels an order that order-svc still believes unshipped.
CancelOrder ==
  /\ order \in {"pending", "paid"}
  /\ order' = "cancelled"
  /\ cancelledEvent' = TRUE
  /\ UNCHANGED <<paidEvent, shipmentVars, handlerVars, loaded, relayVars>>

\* ShippingSubscriber: any event that has left, any number of times;
\* OrderRepository.UpdateStatus has no condition on the old status.
HandleShipmentEvent(e) ==
  /\ sent[e] > 0
  /\ order' = rowEvent[e]
  /\ UNCHANGED <<paidEvent, cancelledEvent, shipmentVars, handlerVars, loaded, relayVars>>

-------------------------------------------------------------------------------
(***************************************************************************)
(* shipping-svc's handlers of order events: one transaction each, whose    *)
(* statements see what others have committed.                              *)
(***************************************************************************)

\* Mutant of LockFree: pg_advisory_xact_lock is not taken.
LockIgnored == TRUE

LockFree == lock = NoOne

Begin(h, where) ==
  /\ hpc[h] = "idle"
  /\ LockFree
  /\ handled < MaxHandled
  /\ lock' = h
  /\ hpc' = [hpc EXCEPT ![h] = where]
  /\ handled' = handled + 1
  /\ UNCHANGED <<cancelHandled, orderVars, shipmentVars, loaded, relayVars>>

Commit(h) ==
  /\ lock' = NoOne
  /\ hpc' = [hpc EXCEPT ![h] = "idle"]
  /\ UNCHANGED handled

\* The event is not acknowledged and comes again.
Rollback(h) ==
  /\ hpc[h] # "idle"
  /\ Commit(h)
  /\ UNCHANGED <<cancelHandled, orderVars, shipmentVars, loaded, relayVars>>

HandleOrderPaid(h) == paidEvent /\ Begin(h, "insert")

HandleOrderCancelled(h) == cancelledEvent /\ Begin(h, "update")

\* WHERE NOT EXISTS tombstone ... ON CONFLICT (order_id) DO NOTHING
Absent == shipment = "none" /\ ~tombstone

\* Create
InsertShipment(h) ==
  /\ hpc[h] = "insert"
  /\ shipment' = IF Absent THEN "ready_to_ship" ELSE shipment
  /\ Commit(h)
  /\ UNCHANGED <<tombstone, rowEvent, cancelHandled, orderVars, loaded, relayVars>>

\* CancelByOrderID, its UPDATE: status 'pending' is never written
CancelUpdate(h) ==
  /\ hpc[h] = "update"
  /\ IF shipment = "ready_to_ship"
     THEN /\ shipment' = "cancelled"
          /\ cancelHandled' = TRUE
          /\ Commit(h)
     ELSE /\ hpc' = [hpc EXCEPT ![h] = "exists"]
          /\ UNCHANGED <<shipment, cancelHandled, lock, handled>>
  /\ UNCHANGED <<tombstone, rowEvent, orderVars, loaded, relayVars>>

CancelExists(h) ==
  /\ hpc[h] = "exists"
  /\ IF shipment # "none"
     THEN /\ cancelHandled' = TRUE
          /\ Commit(h)
     ELSE /\ hpc' = [hpc EXCEPT ![h] = "tombstone"]
          /\ UNCHANGED <<cancelHandled, lock, handled>>
  /\ UNCHANGED <<shipmentVars, orderVars, loaded, relayVars>>

CancelTombstone(h) ==
  /\ hpc[h] = "tombstone"
  /\ tombstone' = TRUE
  /\ cancelHandled' = TRUE
  /\ Commit(h)
  /\ UNCHANGED <<shipment, rowEvent, orderVars, loaded, relayVars>>

-------------------------------------------------------------------------------
(***************************************************************************)
(* The seller's calls: load the shipment, then one transaction.            *)
(***************************************************************************)

\* RegisterShipment (CanRegister) and MarkDelivered (CanDeliver) up to the
\* transaction
Load(c) ==
  /\ loaded[c] = "idle"
  /\ shipment \in {"ready_to_ship", "shipped"}
  /\ loaded' = [loaded EXCEPT ![c] = shipment]
  /\ UNCHANGED <<orderVars, shipmentVars, handlerVars, relayVars>>

\* Mutant of Guarded: UPDATE ... WHERE id, without the expected status.
GuardedByNothing(c) == TRUE

\* WHERE id = $7 AND status = $8
Guarded(c) == shipment = loaded[c]

\* UpdateStatus, AppendEvent and AppendOutboxEvent in one transaction
Advance(c) ==
  /\ loaded[c] # "idle"
  /\ loaded' = [loaded EXCEPT ![c] = "idle"]
  /\ \/ /\ Guarded(c)
        /\ Len(rowEvent) < NumRows
        /\ shipment' = IF loaded[c] = "ready_to_ship" THEN "shipped" ELSE "delivered"
        /\ rowEvent' = Append(rowEvent, shipment')
        /\ Relay!Append(Len(rowEvent) + 1)
     \/ /\ ~Guarded(c)
        /\ UNCHANGED <<shipment, rowEvent, relayVars>>
  /\ UNCHANGED <<tombstone, orderVars, handlerVars>>

\* The call dies between its read and its transaction, or the transaction fails.
AbandonCall(c) ==
  /\ loaded[c] # "idle"
  /\ loaded' = [loaded EXCEPT ![c] = "idle"]
  /\ UNCHANGED <<orderVars, shipmentVars, handlerVars, relayVars>>

-------------------------------------------------------------------------------
Handle(h) ==
  \/ InsertShipment(h) \/ CancelUpdate(h) \/ CancelExists(h) \/ CancelTombstone(h)

RelayStep ==
  /\ Relay!RelayNext
  /\ UNCHANGED <<orderVars, shipmentVars, handlerVars, loaded>>

Next ==
  \/ OrderPaid \/ PublishPaid \/ CancelOrder
  \/ \E e \in DOMAIN rowEvent : HandleShipmentEvent(e)
  \/ \E h \in Handlers : \/ HandleOrderPaid(h) \/ HandleOrderCancelled(h)
                         \/ Handle(h) \/ Rollback(h)
  \/ \E c \in Callers : Load(c) \/ Advance(c) \/ AbandonCall(c)
  \/ RelayStep

Spec == Init /\ [][Next]_vars

\* Pub/Sub redelivers an event until it is handled, the relay's 5-second ticker
\* and the database clock go on, and only finitely many calls fail. The seller
\* owes nothing.
FairSpec ==
  /\ Spec
  /\ WF_vars(RelayStep /\ \E r \in Relays : Relay!Cycle(r))
  /\ \A e \in 1..NumRows : WF_vars(RelayStep /\ Relay!ClaimAges(e))
  /\ \A e \in 1..NumRows : WF_vars(e \in DOMAIN rowEvent /\ HandleShipmentEvent(e))

-------------------------------------------------------------------------------
(***************************************************************************)
(* Properties.                                                             *)
(***************************************************************************)

\* Once shipping-svc has handled order.cancelled the goods cannot leave any
\* more: no shipment waits for its seller, and if there is none yet a late
\* order.paid will not create it; and there is never a tombstone ("cancel
\* arrived before paid") beside a shipment. Create and CancelByOrderID run
\* their statements side by side and only the advisory lock keeps them apart.
CancelAbsorbsPaid ==
  /\ cancelHandled => /\ shipment # "ready_to_ship"
                      /\ shipment = "none" => tombstone
  /\ tombstone => shipment = "none"

\* The outbox tells the story of the shipment: one shipped event, then one
\* delivered event, none for a shipment that was cancelled, however many calls
\* raced on what they had loaded.
EventsTellStatus ==
  rowEvent = CASE shipment = "shipped"   -> <<"shipped">>
               [] shipment = "delivered" -> <<"shipped", "delivered">>
               [] OTHER                  -> <<>>

\* order-svc learns of a shipment: however the relay and the handlers fail,
\* an order that was shipped is one day shipped or delivered in order-svc too.
ShipmentReachesOrder ==
  shipment = "shipped" ~> order \in {"shipped", "delivered"}

\* At-least-once delivery: whatever crashes, every committed outbox row is sent
\* and closed in the end.
RowsArePublished == Relay!EveryRowIsPublished
================================================================================
