------------------------------ MODULE OutboxRelay ------------------------------
(***************************************************************************)
(* shipping-svc's transactional outbox: the table                          *)
(* shipping_svc.outbox_events and the replicas of OutboxRelay that poll it *)
(* in claim, publish, mark cycles with no lock held in between. A replica  *)
(* can die anywhere, a publish can fail with or without the message having *)
(* left, and a claim older than five minutes is taken over by another      *)
(* replica although its first holder may still be running.                 *)
(***************************************************************************)
EXTENDS Naturals, FiniteSets

CONSTANTS
  NumRows,    \* outbox rows that can be inserted, numbered by created_at
  Relays,     \* replicas of the relay
  BatchSize,  \* LIMIT of claimBatch (50 in the code)
  MaxFaults   \* crashes and failed or unanswered calls

ASSUME NumRowsAssumption   == NumRows \in Nat
ASSUME BatchSizeAssumption == BatchSize \in Nat \ {0}
ASSUME RelayFaultsAssumption == MaxFaults \in Nat

Rows == 1..NumRows

VARIABLES
  outbox,        \* rows inserted
  publishedAt,   \* rows with published_at set
  processingAt,  \* processing_at: NULL, within five minutes, or older
  sent,          \* times the event reached Pub/Sub (2 means "two or more")
  rpc,           \* replica: where in Run it is
  batch,         \* replica: claimed rows not yet published
  ok, bad,       \* replica: rows whose Publish answered nil, or an error
  excused,       \* history: rows that lost a claim to its age, or whose Publish
                 \* failed although the message had left
  relayFaults

tableVars == <<outbox, publishedAt, processingAt>>
cycleVars == <<rpc, batch, ok, bad>>
relayVars == <<tableVars, sent, cycleVars, excused, relayFaults>>

\* The types of the variables, and which of a replica's locals are in use at
\* each point of Run: markPublished is never called with no row to mark.
TypeOK ==
  /\ outbox \subseteq Rows
  /\ publishedAt \subseteq outbox
  /\ processingAt \in [Rows -> {"null", "fresh", "stale"}]
  /\ sent \in [Rows -> 0..2]
  /\ rpc \in [Relays -> {"idle", "publish", "mark", "record"}]
  /\ batch \in [Relays -> SUBSET Rows]
  /\ ok \in [Relays -> SUBSET Rows]
  /\ bad \in [Relays -> SUBSET Rows]
  /\ excused \subseteq Rows
  /\ relayFaults \in 0..MaxFaults
  /\ \A r \in Relays :
       /\ batch[r] \cup ok[r] \cup bad[r] \subseteq outbox
       /\ rpc[r] = "publish" <=> batch[r] # {}
       /\ rpc[r] = "mark" => ok[r] # {}
       /\ rpc[r] = "record" => bad[r] # {} /\ ok[r] = {}
       /\ rpc[r] = "idle" => ok[r] = {} /\ bad[r] = {}

Init ==
  /\ outbox = {}
  /\ publishedAt = {}
  /\ processingAt = [e \in Rows |-> "null"]
  /\ sent = [e \in Rows |-> 0]
  /\ rpc = [r \in Relays |-> "idle"]
  /\ batch = [r \in Relays |-> {}]
  /\ ok = [r \in Relays |-> {}]
  /\ bad = [r \in Relays |-> {}]
  /\ excused = {}
  /\ relayFaults = 0

Fault == relayFaults < MaxFaults /\ relayFaults' = relayFaults + 1

\* AppendOutboxEvent, inside the caller's transaction. created_at is the time
\* the transaction began, so rows need not become visible in its order.
Append(e) ==
  /\ e \in Rows \ outbox
  /\ outbox' = outbox \cup {e}
  /\ UNCHANGED <<publishedAt, processingAt, sent, cycleVars, excused, relayFaults>>

-------------------------------------------------------------------------------
(***************************************************************************)
(* One cycle of Run.                                                       *)
(***************************************************************************)

\* Mutants of Claimable: claims are not looked at; claims never age.
ClaimableAlways(e) == e \in outbox \ publishedAt
ClaimableOnce(e)   == e \in outbox \ publishedAt /\ processingAt[e] = "null"

Claimable(e) ==
  /\ e \in outbox \ publishedAt
  /\ processingAt[e] \in {"null", "stale"}

\* ORDER BY created_at LIMIT: no claimable row outside S is older than one in S.
OldestClaimable(S) ==
  /\ \A e \in S : Claimable(e)
  /\ Cardinality(S) <= BatchSize
  /\ \A e \in Rows \ S : Claimable(e) =>
       Cardinality(S) = BatchSize /\ \A f \in S : f < e

Claim(r) ==
  /\ rpc[r] = "idle"
  /\ \E S \in SUBSET Rows :
       /\ S # {}
       /\ OldestClaimable(S)
       /\ batch' = [batch EXCEPT ![r] = S]
       /\ processingAt' = [e \in Rows |-> IF e \in S THEN "fresh" ELSE processingAt[e]]
  /\ rpc' = [rpc EXCEPT ![r] = "publish"]
  /\ UNCHANGED <<outbox, publishedAt, sent, ok, bad, excused, relayFaults>>

Sent(e) == sent' = [sent EXCEPT ![e] = IF @ < 2 THEN @ + 1 ELSE 2]

\* After the last row Run marks, or goes straight to the failures when every
\* publish failed.
AfterPublish(r, okRows) ==
  rpc' = [rpc EXCEPT ![r] = IF batch'[r] # {} THEN "publish"
                            ELSE IF okRows # {} THEN "mark" ELSE "record"]

\* UPDATE ... RETURNING promises no order, so any claimed row may be next.
PublishOk(r, e) ==
  /\ rpc[r] = "publish"
  /\ e \in batch[r]
  /\ Sent(e)
  /\ batch' = [batch EXCEPT ![r] = @ \ {e}]
  /\ ok' = [ok EXCEPT ![r] = @ \cup {e}]
  /\ AfterPublish(r, ok'[r])
  /\ UNCHANGED <<tableVars, bad, excused, relayFaults>>

\* Publish answers an error; left says whether the message had gone out.
PublishFails(r, e, left) ==
  /\ rpc[r] = "publish"
  /\ e \in batch[r]
  /\ Fault
  /\ IF left THEN Sent(e) /\ excused' = excused \cup {e}
             ELSE UNCHANGED <<sent, excused>>
  /\ batch' = [batch EXCEPT ![r] = @ \ {e}]
  /\ bad' = [bad EXCEPT ![r] = @ \cup {e}]
  /\ AfterPublish(r, ok[r])
  /\ UNCHANGED <<tableVars, ok>>

\* Run returns, or the process dies and starts again: its locals are gone.
Return(r) ==
  /\ rpc' = [rpc EXCEPT ![r] = "idle"]
  /\ batch' = [batch EXCEPT ![r] = {}]
  /\ ok' = [ok EXCEPT ![r] = {}]
  /\ bad' = [bad EXCEPT ![r] = {}]

\* Mutant of Marked: the whole batch is marked.
MarkedAll(r) == ok[r] \cup bad[r]

Marked(r) == ok[r]

\* markPublished is unconditional: it does not look at who holds the claim.
\* (When its answer is lost, Run returns early: that is Mark, then Crash.)
Mark(r) ==
  /\ rpc[r] = "mark"
  /\ publishedAt' = publishedAt \cup Marked(r)
  /\ processingAt' = [e \in Rows |-> IF e \in Marked(r) THEN "null" ELSE processingAt[e]]
  /\ IF bad[r] = {} THEN Return(r)
     ELSE /\ rpc' = [rpc EXCEPT ![r] = "record"]
          /\ ok' = [ok EXCEPT ![r] = {}]
          /\ UNCHANGED <<batch, bad>>
  /\ UNCHANGED <<outbox, sent, excused, relayFaults>>

\* A failed markPublished returns at once: the failures are not recorded
\* either, and every row of the batch keeps its claim.
MarkFails(r) ==
  /\ rpc[r] = "mark"
  /\ Fault
  /\ Return(r)
  /\ UNCHANGED <<tableVars, sent, excused>>

\* recordFailure, one row at a time; an error of it is only logged.
RecordFailure(r, e, written) ==
  /\ rpc[r] = "record"
  /\ e \in bad[r]
  /\ IF written THEN processingAt' = [processingAt EXCEPT ![e] = "null"]
                     /\ UNCHANGED relayFaults
                ELSE Fault /\ UNCHANGED processingAt
  /\ bad' = [bad EXCEPT ![r] = @ \ {e}]
  /\ rpc' = [rpc EXCEPT ![r] = IF bad'[r] = {} THEN "idle" ELSE "record"]
  /\ UNCHANGED <<outbox, publishedAt, sent, batch, ok, excused>>

Crash(r) ==
  /\ rpc[r] # "idle"
  /\ Fault
  /\ Return(r)
  /\ UNCHANGED <<tableVars, sent, excused>>

\* Five minutes pass on the database clock.
ClaimAges(e) ==
  /\ processingAt[e] = "fresh"
  /\ processingAt' = [processingAt EXCEPT ![e] = "stale"]
  /\ excused' = excused \cup {e}
  /\ UNCHANGED <<outbox, publishedAt, sent, cycleVars, relayFaults>>

Publishing(r) ==
  \E e \in Rows : PublishOk(r, e) \/ \E left \in BOOLEAN : PublishFails(r, e, left)

Recording(r) ==
  \E e \in Rows, written \in BOOLEAN : RecordFailure(r, e, written)

Cycle(r) == Claim(r) \/ Publishing(r) \/ Mark(r) \/ MarkFails(r) \/ Recording(r)

RelayNext ==
  \/ \E r \in Relays : Cycle(r) \/ Crash(r)
  \/ \E e \in Rows : ClaimAges(e)

Next == RelayNext \/ \E e \in Rows : Append(e)

Spec == Init /\ [][Next]_relayVars

-------------------------------------------------------------------------------
(***************************************************************************)
(* Properties.                                                             *)
(***************************************************************************)

\* A row is never written off without its event having reached Pub/Sub,
\* although markPublished is unconditional and claims change hands while a
\* slow replica is still publishing.
PublishedIsSent == \A e \in publishedAt : sent[e] > 0

\* Replicas do not send a row twice among themselves: a second message needs
\* a claim that outlived its five minutes (a crash, a failed markPublished, a
\* replica slower than that), or a Publish that failed after sending.
DuplicateIsExcused == \A e \in Rows : sent[e] > 1 => e \in excused

(***************************************************************************)
(* The relay implements the promise of an outbox.                          *)
(***************************************************************************)
ED == INSTANCE EventDelivery WITH
        recorded <- outbox, delivered <- {e \in Rows : sent[e] > 0}, closed <- publishedAt

\* Every step of the relay is a step of EventDelivery, or changes nothing there.
ImplementsDelivery == ED!Spec

\* At-least-once delivery: whatever crashes, every committed row is sent and
\* closed in the end.
EveryRowIsPublished == ED!EveryRowCloses
================================================================================
