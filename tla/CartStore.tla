----------------------------- MODULE CartStore -----------------------------
(***************************************************************************)
(* cart-svc: one buyer's cart, a JSON value under one Redis key.  Every      *)
(* operation reads the whole cart, changes it and writes the whole cart      *)
(* back, with no lock and no version; Checkout reads it, has order-svc       *)
(* create the orders and then deletes the key.                               *)
(***************************************************************************)
EXTENDS Integers, FiniteSetsExt

CONSTANTS
  Skus,
  MaxQuantity, \* bound: units of one SKU asked for in one call
  Calls,       \* calls in progress
  MaxCalls,    \* bound: calls started
  MaxFaults    \* bound: failed or lost answers and lapsed keys

VARIABLES
  cart,    \* SKU -> units in Redis; no units, no item; no item, maybe no key
  pc,      \* call -> "idle", "write", "order" or "clear"
  call,    \* call -> its arguments and the cart it read
  put,     \* SKU -> units the buyer's answered calls added, less those taken out
  ordered, \* SKU -> units in the orders that order-svc created
  excused, \* a cart was written over that its writer had not read, an answer or a
           \* deletion was lost, or the key lapsed
  started, faults

vars == <<cart, pc, call, put, ordered, excused, started, faults>>

Carts == [Skus -> Nat]
EmptyCart == [s \in Skus |-> 0]
AnySku == CHOOSE s \in Skus : TRUE
NoCall == [op |-> "none", sku |-> AnySku, n |-> 0, read |-> EmptyCart, overlapped |-> FALSE]

TypeOK ==
  /\ cart \in Carts /\ ordered \in Carts
  /\ put \in [Skus -> Int]
  /\ pc \in [Calls -> {"idle", "write", "order", "clear"}]
  /\ \A c \in Calls : call[c].op \in {"none", "add", "update", "remove", "checkout"}
  /\ excused \in BOOLEAN
  /\ started \in 0..MaxCalls /\ faults \in 0..MaxFaults

Init ==
  /\ cart = EmptyCart /\ put = EmptyCart /\ ordered = EmptyCart
  /\ pc = [c \in Calls |-> "idle"]
  /\ call = [c \in Calls |-> NoCall]
  /\ excused = FALSE
  /\ started = 0 /\ faults = 0

-----------------------------------------------------------------------------
\* A call begins with Get and goes on unless what it read ends it.
Begin(c, op, s, n, p) ==
  /\ pc[c] = "idle" /\ started < MaxCalls
  /\ started' = started + 1
  /\ call' = [call EXCEPT ![c] = [op |-> op, sku |-> s, n |-> n, read |-> cart, overlapped |-> FALSE]]
  /\ pc' = [pc EXCEPT ![c] = p]
  /\ UNCHANGED <<cart, put, ordered, excused, faults>>

\* A new SKU is looked up in the catalog first; an unknown one ends the call.
AddItem(c) == \E s \in Skus, n \in 1..MaxQuantity : Begin(c, "add", s, n, "write")
UpdateItemQuantity(c) == \E s \in Skus, n \in 1..MaxQuantity :
  cart[s] > 0 /\ Begin(c, "update", s, n, "write")
RemoveItem(c) == \E s \in Skus : Begin(c, "remove", s, 0, "write")
Checkout(c) == cart # EmptyCart /\ Begin(c, "checkout", AnySku, 0, "order")

\* Mutant of Saved: AddItem sets the quantity of an item that is there.
SavedOverwrites(c) == [call[c].read EXCEPT ![call[c].sku] = call[c].n]

\* The cart a call writes, made from the one it read.
Saved(c) ==
  LET q == call[c] IN [q.read EXCEPT ![q.sku] = IF q.op = "add" THEN @ + q.n ELSE q.n]

\* Writing the key: every other call in progress now holds an old cart.
Outdated(writers) == [d \in Calls |->
  IF d \in writers \/ pc[d] = "idle" THEN NoCall ELSE [call[d] EXCEPT !.overlapped = TRUE]]
WriteCart(c, new) ==
  /\ cart' = new
  /\ call' = Outdated({c})
  /\ excused' = (excused \/ call[c].overlapped)
Return(c) == pc' = [pc EXCEPT ![c] = "idle"]
Fault == faults < MaxFaults /\ faults' = faults + 1

\* What the buyer of an answered call asked for, given the cart it found.
Asked(q) == IF q.op = "add" THEN q.n ELSE q.n - q.read[q.sku]

Save(c) ==
  /\ pc[c] = "write"
  /\ WriteCart(c, Saved(c))
  /\ put' = [put EXCEPT ![call[c].sku] = @ + Asked(call[c])]
  /\ Return(c)
  /\ UNCHANGED <<ordered, started, faults>>

\* ClearCart reads nothing: it deletes the key.
ClearCart(c) ==
  /\ pc[c] = "idle" /\ started < MaxCalls
  /\ started' = started + 1
  /\ WriteCart(c, EmptyCart)
  /\ put' = [s \in Skus |-> put[s] - cart[s]]
  /\ UNCHANGED <<pc, ordered, faults>>

\* order-svc commits the orders of the lines it was sent, or refuses them.
CreateCheckout(c) ==
  /\ pc[c] = "order"
  /\ ordered' = [s \in Skus |-> ordered[s] + call[c].read[s]]
  /\ pc' = [pc EXCEPT ![c] = "clear"]
  /\ UNCHANGED <<cart, call, put, excused, started, faults>>

\* The checkout, the catalog or Redis fails: the cart stays as it is.  When only
\* the answer was lost, the orders are there all the same.
GiveUp(c) ==
  /\ pc[c] \in {"write", "order"}
  /\ Fault
  /\ \/ UNCHANGED <<ordered, excused>>
     \/ /\ pc[c] = "order"
        /\ ordered' = [s \in Skus |-> ordered[s] + call[c].read[s]]
        /\ excused' = TRUE
  /\ call' = [call EXCEPT ![c] = NoCall]
  /\ Return(c)
  /\ UNCHANGED <<cart, put, started>>

\* The key is deleted, whatever it holds by now.
DeleteCart(c) ==
  /\ pc[c] = "clear"
  /\ WriteCart(c, EmptyCart)
  /\ Return(c)
  /\ UNCHANGED <<put, ordered, started, faults>>

\* The deletion fails, or the replica dies before it: a warning, and the cart
\* of the order is still there.
DeleteFails(c) ==
  /\ pc[c] = "clear"
  /\ Fault
  /\ call' = [call EXCEPT ![c] = NoCall]
  /\ excused' = TRUE
  /\ Return(c)
  /\ UNCHANGED <<cart, put, ordered, started>>

\* Redis writes or deletes the key but its answer is lost: an error to the buyer, or
\* a warning after a checkout.
Unanswered(c, new) ==
  /\ Fault
  /\ cart' = new
  /\ call' = Outdated({c})
  /\ excused' = TRUE
  /\ Return(c)
  /\ UNCHANGED <<put, ordered>>
SaveUnanswered(c) == pc[c] = "write" /\ Unanswered(c, Saved(c)) /\ UNCHANGED started
DeleteUnanswered(c) == pc[c] = "clear" /\ Unanswered(c, EmptyCart) /\ UNCHANGED started
ClearUnanswered(c) ==
  /\ pc[c] = "idle" /\ started < MaxCalls
  /\ started' = started + 1
  /\ Unanswered(c, EmptyCart)

\* The key's time to live runs out.
Lapse ==
  /\ cart # EmptyCart
  /\ Fault
  /\ cart' = EmptyCart
  /\ call' = Outdated({})
  /\ excused' = TRUE
  /\ UNCHANGED <<pc, put, ordered, started>>

Next ==
  \/ \E c \in Calls :
       \/ AddItem(c) \/ UpdateItemQuantity(c) \/ RemoveItem(c) \/ ClearCart(c) \/ Checkout(c)
       \/ Save(c) \/ CreateCheckout(c) \/ GiveUp(c) \/ DeleteCart(c) \/ DeleteFails(c)
       \/ SaveUnanswered(c) \/ DeleteUnanswered(c) \/ ClearUnanswered(c)
  \/ Lapse

Spec == Init /\ [][Next]_vars

-----------------------------------------------------------------------------
\* Units that were ordered by checkouts which have yet to delete the cart.
Leaving(s) == MapThenSumSet(LAMBDA c : call[c].read[s], {c \in Calls : pc[c] = "clear"})

\* Nothing is lost from a cart, ordered twice or ordered without having been put
\* there, unless a call wrote over another's cart, an answer or deletion failed or
\* the key lapsed: each unit put is in the cart or in exactly one order.
UnitsAreConserved ==
  ~excused => \A s \in Skus : cart[s] + ordered[s] - Leaving(s) = put[s]
=============================================================================
