---------------------------- MODULE StockLedger ----------------------------
(***************************************************************************)
(* inventory-svc: the stock of one SKU.  An operation changes the row in one *)
(* transaction, records the movement in a second and then, for a             *)
(* reservation, reads the row again to see whether to warn of low stock;     *)
(* each of the three may fail or never happen.                               *)
(***************************************************************************)
EXTENDS Integers

CONSTANTS
  Levels,      \* stock levels a seller may set
  Thresholds,  \* low-stock thresholds a seller may set
  Quantities,  \* quantities of one call
  Calls,       \* calls in progress
  MaxCalls,    \* bound: calls started
  MaxFaults    \* bound: transactions or publishes that fail, replicas that die

VARIABLES
  available, reserved, threshold, \* the inventory row
  owed,    \* the reservations that took the stock to the threshold and have yet to warn of
           \* it, while it stays low
  pc, call, started, faults

vars == <<available, reserved, threshold, owed, pc, call, started, faults>>

TypeOK ==
  /\ available \in Nat /\ reserved \in Nat /\ threshold \in Thresholds
  /\ owed \subseteq Calls
  /\ pc \in [Calls -> {"idle", "record", "check", "warn"}]
  /\ call \in [Calls -> {"none", "reserved", "released", "sold", "adjusted"}]
  /\ started \in 0..MaxCalls /\ faults \in 0..MaxFaults

Init ==
  /\ available \in Levels /\ reserved = 0 /\ threshold \in Thresholds
  /\ owed = {}
  /\ pc = [c \in Calls |-> "idle"] /\ call = [c \in Calls |-> "none"]
  /\ started = 0 /\ faults = 0

-----------------------------------------------------------------------------
\* The first transaction, under the row's lock.
Start(c, op, a, r, t) ==
  /\ pc[c] = "idle" /\ started < MaxCalls
  /\ started' = started + 1
  /\ available' = a /\ reserved' = r /\ threshold' = t
  /\ pc' = [pc EXCEPT ![c] = "record"]
  /\ call' = [call EXCEPT ![c] = op]
  /\ owed' = IF a > t THEN {} ELSE IF op = "reserved" THEN owed \cup {c} ELSE owed
  /\ UNCHANGED faults

ReserveStock(c) == \E n \in Quantities :
  available >= n /\ Start(c, "reserved", available - n, reserved + n, threshold)
ReleaseStock(c) == \E n \in Quantities :
  reserved >= n /\ Start(c, "released", available + n, reserved - n, threshold)
ConfirmSold(c) == \E n \in Quantities :
  reserved >= n /\ Start(c, "sold", available, reserved - n, threshold)

\* UpdateStock sets the available units and the threshold and leaves the reserved units.
UpdateStock(c) == \E n \in Levels, t \in Thresholds : Start(c, "adjusted", n, reserved, t)

\* The call returns, or a reservation goes on to look at the stock.
AfterRecord(c) ==
  IF call[c] = "reserved"
  THEN pc' = [pc EXCEPT ![c] = "check"] /\ UNCHANGED call
  ELSE pc' = [pc EXCEPT ![c] = "idle"] /\ call' = [call EXCEPT ![c] = "none"]

\* The second transaction; its failure is only logged.
RecordMovement(c) ==
  /\ pc[c] = "record"
  /\ AfterRecord(c)
  /\ UNCHANGED <<available, reserved, threshold, owed, started, faults>>

\* Mutant of IsLow: strictly below the threshold.
IsBelow == available < threshold

IsLow == available <= threshold

\* The third reads the row anew, as the other calls have left it by now.
CheckLowStock(c) ==
  /\ pc[c] = "check"
  /\ IF IsLow
     THEN pc' = [pc EXCEPT ![c] = "warn"] /\ UNCHANGED call
     ELSE pc' = [pc EXCEPT ![c] = "idle"] /\ call' = [call EXCEPT ![c] = "none"]
  /\ UNCHANGED <<available, reserved, threshold, owed, started, faults>>

PublishLowStock(c) ==
  /\ pc[c] = "warn"
  /\ owed' = owed \ {c}
  /\ pc' = [pc EXCEPT ![c] = "idle"] /\ call' = [call EXCEPT ![c] = "none"]
  /\ UNCHANGED <<available, reserved, threshold, started, faults>>

\* The read or the publish fails, or the replica dies.
Abandon(c) ==
  /\ pc[c] # "idle" /\ faults < MaxFaults
  /\ faults' = faults + 1
  /\ owed' = owed \ {c}
  /\ pc' = [pc EXCEPT ![c] = "idle"] /\ call' = [call EXCEPT ![c] = "none"]
  /\ UNCHANGED <<available, reserved, threshold, started>>

Next == \E c \in Calls :
  \/ ReserveStock(c) \/ ReleaseStock(c) \/ ConfirmSold(c) \/ UpdateStock(c)
  \/ RecordMovement(c) \/ CheckLowStock(c) \/ PublishLowStock(c) \/ Abandon(c)

Spec == Init /\ [][Next]_vars

-----------------------------------------------------------------------------
\* A reservation that takes the stock to the threshold does not return without a
\* warning of low stock, whatever else reserves, releases and restocks meanwhile,
\* unless the stock rises above the threshold again, a seller lowers the threshold
\* below the stock, or a later step of this very reservation is lost.
LowStockIsAnnounced == \A c \in owed : pc[c] # "idle"
=============================================================================
