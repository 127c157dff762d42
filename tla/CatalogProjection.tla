------------------------- MODULE CatalogProjection -------------------------
(***************************************************************************)
(* catalog-svc's writes of one product and its SKUs, the outbox rows they    *)
(* append, and the copy that search-svc and recommend-svc keep of the        *)
(* product.  Events carry the product's whole state and the subscribers      *)
(* upsert it, with no version, in the order Pub/Sub happens to deliver.      *)
(***************************************************************************)
EXTENDS Naturals, Sequences, FiniteSetsExt

CONSTANTS
  Skus,
  Prices,          \* what a SKU may cost
  Calls,           \* calls in progress
  MaxCalls,        \* bound: calls started
  MaxRedeliveries, \* bound: events delivered again
  MaxFaults        \* bound: calls that fail half way

VARIABLES
  product, \* the products row, or Absent
  price,   \* SKU -> price, 0 when there is no such SKU
  pc, call,
  sent,    \* outbox rows appended so far, the newest one last
  queue,   \* numbers of the rows still to be delivered
  index,   \* the subscriber's row, or Absent
  last,    \* number of the event the subscriber applied last
  stale,   \* the newest event does not tell the catalog's present state for sure
  started, redelivered, faults

vars == <<product, price, pc, call, sent, queue, index, last, stale, started, redelivered, faults>>

Statuses == {"draft", "active", "archived"}
Absent == [status |-> "absent", name |-> 0]
NoEvent == [type |-> "none", status |-> "absent", name |-> 0, price |-> 0]
NoRow == [status |-> "absent", name |-> 0, price |-> 0]
NoCall == [op |-> "none", skus |-> [s \in Skus |-> 0], sku |-> CHOOSE s \in Skus : TRUE,
           value |-> 0, status |-> "draft",
           existing |-> Absent, event |-> NoEvent, overlapped |-> FALSE]

TypeOK ==
  /\ product.status \in Statuses \cup {"absent"} /\ product.name \in Nat
  /\ price \in [Skus -> Prices \cup {0}]
  /\ pc \in [Calls -> {"idle", "sku", "build", "commit"}]
  /\ \A c \in Calls : call[c].op \in {"none", "create", "update", "status", "newsku", "sku"}
  /\ queue \subseteq DOMAIN sent /\ last \in DOMAIN sent \cup {0}
  /\ index.status \in Statuses \cup {"absent"} /\ index.price \in Prices \cup {0}
  /\ stale \in BOOLEAN
  /\ started \in 0..MaxCalls /\ redelivered \in 0..MaxRedeliveries /\ faults \in 0..MaxFaults

Init ==
  /\ product = Absent /\ price = [s \in Skus |-> 0]
  /\ pc = [c \in Calls |-> "idle"] /\ call = [c \in Calls |-> NoCall]
  /\ sent = << >> /\ queue = {} /\ index = NoRow /\ last = 0 /\ stale = FALSE
  /\ started = 0 /\ redelivered = 0 /\ faults = 0

-----------------------------------------------------------------------------
\* A call begins by reading the product or SKU it is about, outside its
\* transaction; the product it read is what a status change will announce.
Begin(c, request, p) ==
  /\ pc[c] = "idle" /\ started < MaxCalls
  /\ started' = started + 1
  /\ call' = [call EXCEPT ![c] = [request EXCEPT !.existing = product]]
  /\ pc' = [pc EXCEPT ![c] = p]
  /\ UNCHANGED <<product, price, sent, queue, index, last, stale, redelivered, faults>>

Exists == product # Absent
CreateProduct(c) ==
  /\ ~Exists /\ \A d \in Calls : call[d].op # "create"   \* the slug is unique
  /\ \E skus \in [Skus -> Prices \cup {0}] :               \* none, one or several
       Begin(c, [NoCall EXCEPT !.op = "create", !.skus = skus], "build")
UpdateProduct(c) == Exists /\ Begin(c, [NoCall EXCEPT !.op = "update"], "build")
UpdateProductStatus(c) == Exists /\ \E st \in Statuses :
  Begin(c, [NoCall EXCEPT !.op = "status", !.status = st], "build")
CreateSKU(c) == Exists /\ \E s \in Skus, v \in Prices :
  /\ price[s] = 0 /\ \A d \in Calls : call[d].op = "newsku" => call[d].sku # s
  /\ Begin(c, [NoCall EXCEPT !.op = "newsku", !.sku = s, !.value = v], "build")
UpdateSKU(c) == \E s \in Skus, v \in Prices :
  price[s] > 0 /\ Begin(c, [NoCall EXCEPT !.op = "sku", !.sku = s, !.value = v], "sku")

\* Another call's commit: what those in progress have read may now be old.
Outdated(calls, c) == [d \in Calls |->
  IF d # c /\ pc[d] # "idle" THEN [calls[d] EXCEPT !.overlapped = TRUE] ELSE calls[d]]

\* skus.Update and skus.UpdateStatus open a transaction of their own: the SKU is
\* committed before the transaction around them has appended the event.
WriteSku(c) ==
  /\ pc[c] = "sku"
  /\ price' = [price EXCEPT ![call[c].sku] = call[c].value]
  /\ call' = Outdated(call, c)
  /\ pc' = [pc EXCEPT ![c] = "build"]
  /\ UNCHANGED <<product, sent, queue, index, last, stale, started, redelivered, faults>>

\* What the call's transaction leaves in the tables.
ProductAfter(c) ==
  CASE call[c].op = "create" -> [status |-> "draft", name |-> 1]
    [] call[c].op = "update" -> [product EXCEPT !.name = 3 - @]
    [] call[c].op = "status" -> [product EXCEPT !.status = call[c].status]
    [] OTHER                 -> product
PriceAfter(c) ==
  CASE call[c].op = "create" -> call[c].skus
    [] call[c].op = "newsku" -> [price EXCEPT ![call[c].sku] = call[c].value]
    [] OTHER                 -> price
Cheapest(prices) == LET sold == {prices[s] : s \in Skus} \ {0} IN IF sold = {} THEN 0 ELSE Min(sold)

\* Mutant of AnnouncedPrice: CheapestPrice is queried before the new SKU is there.
PriceBefore(c) == Cheapest(price)

\* CheapestPrice, read inside the transaction.
AnnouncedPrice(c) == Cheapest(PriceAfter(c))

\* The event's payload, built inside the transaction: UpdateProduct announces the
\* status it read before, UpdateProductStatus the name it read before, a SKU call
\* the product as it is committed now; the price is the cheapest SKU's.
Payload(c) ==
  LET old == call[c].existing IN
  [type   |-> IF call[c].op = "status" /\ call[c].status = "archived" THEN "deleted" ELSE "upserted",
   status |-> IF call[c].op = "update" THEN old.status ELSE ProductAfter(c).status,
   name   |-> IF call[c].op = "status" THEN old.name ELSE ProductAfter(c).name,
   price  |-> AnnouncedPrice(c)]

\* The row of the product is locked by the statement that changes it.
LocksProduct(c) == call[c].op \in {"create", "update", "status"}
Build(c) ==
  /\ pc[c] = "build"
  /\ LocksProduct(c) => \A d \in Calls : ~(pc[d] = "commit" /\ LocksProduct(d))
  /\ call' = [call EXCEPT ![c].event = Payload(c)]
  /\ pc' = [pc EXCEPT ![c] = "commit"]
  /\ UNCHANGED <<product, price, sent, queue, index, last, stale, started, redelivered, faults>>

\* The change and its outbox row commit together.
Commit(c) ==
  /\ pc[c] = "commit"
  /\ product' = ProductAfter(c)
  /\ price' = PriceAfter(c)
  /\ sent' = Append(sent, call[c].event)
  /\ queue' = queue \cup {Len(sent) + 1}
  /\ stale' = call[c].overlapped
  /\ call' = [Outdated(call, c) EXCEPT ![c] = NoCall]
  /\ pc' = [pc EXCEPT ![c] = "idle"]
  /\ UNCHANGED <<index, last, started, redelivered, faults>>

\* The call fails or its replica dies: the transaction is rolled back, a SKU that
\* was committed on the side stays changed and nobody is told.
Fail(c) ==
  /\ pc[c] # "idle" /\ faults < MaxFaults
  /\ faults' = faults + 1
  /\ stale' = (stale \/ (call[c].op = "sku" /\ pc[c] # "sku"))
  /\ call' = [call EXCEPT ![c] = NoCall]
  /\ pc' = [pc EXCEPT ![c] = "idle"]
  /\ UNCHANGED <<product, price, sent, queue, index, last, started, redelivered>>

\* The subscriber: an upsert of everything the event tells, or a DELETE.  The
\* delivery may have to be repeated.
Deliver ==
  \E n \in queue :
    LET e == sent[n] IN
    /\ index' = IF e.type = "deleted" THEN NoRow ELSE [status |-> e.status, name |-> e.name, price |-> e.price]
    /\ last' = n
    /\ \/ queue' = queue \ {n} /\ UNCHANGED redelivered
       \/ redelivered < MaxRedeliveries /\ redelivered' = redelivered + 1 /\ UNCHANGED queue
    /\ UNCHANGED <<product, price, pc, call, sent, stale, started, faults>>

Next ==
  \/ \E c \in Calls :
       \/ CreateProduct(c) \/ UpdateProduct(c) \/ UpdateProductStatus(c) \/ CreateSKU(c) \/ UpdateSKU(c)
       \/ WriteSku(c) \/ Build(c) \/ Commit(c) \/ Fail(c)
  \/ Deliver

Spec == Init /\ [][Next]_vars

-----------------------------------------------------------------------------
\* The copy heals itself: once the newest event is the last one applied and no call
\* is under way, the subscriber's row is the catalog's product with its cheapest
\* price, or the product is archived and gone; whatever overlapped, failed or came
\* out of order before.  Excused is a newest event whose call overlapped another's
\* commit, and a SKU change whose event was lost.
NewestEventHealsIndex ==
  queue = {} /\ last = Len(sent) /\ ~stale /\ (\A c \in Calls : pc[c] = "idle") =>
    \/ index = [status |-> product.status, name |-> product.name, price |-> Cheapest(price)]
    \/ index = NoRow /\ product.status \in {"archived", "absent"}
============================================================================
