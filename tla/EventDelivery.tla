----------------------------- MODULE EventDelivery -----------------------------
(***************************************************************************)
(* What a transactional outbox promises, whatever the relay does: a row is *)
(* closed only when its event has left for Pub/Sub, a row that is not      *)
(* recorded is never delivered, and nothing is ever taken back. Rows may   *)
(* be delivered in any order and closed several at a time.                 *)
(***************************************************************************)
CONSTANT Rows

VARIABLES
  recorded,   \* rows the business transaction has committed
  delivered,  \* rows whose event is with Pub/Sub
  closed      \* rows that are never sent again

vars == <<recorded, delivered, closed>>

Init ==
  /\ recorded = {}
  /\ delivered = {}
  /\ closed = {}

Record(e) ==
  /\ e \notin recorded
  /\ recorded' = recorded \cup {e}
  /\ UNCHANGED <<delivered, closed>>

Deliver(e) ==
  /\ e \in recorded
  /\ delivered' = delivered \cup {e}
  /\ UNCHANGED <<recorded, closed>>

Close(S) ==
  /\ S \subseteq delivered
  /\ closed' = closed \cup S
  /\ UNCHANGED <<recorded, delivered>>

Next ==
  \/ \E e \in Rows : Record(e) \/ Deliver(e)
  \/ \E S \in SUBSET Rows : Close(S)

Spec == Init /\ [][Next]_vars

\* At-least-once delivery.
EveryRowCloses == \A e \in Rows : (e \in recorded) ~> (e \in closed)
================================================================================
