--------------------------- MODULE OutboxRelayProofs ---------------------------
(***************************************************************************)
(* Proofs about OutboxRelay, for any number of rows, replicas and faults   *)
(* and any batch size: its type invariant, that no row is closed unsent,   *)
(* and that every step of it is a step of EventDelivery.                   *)
(***************************************************************************)
EXTENDS OutboxRelay, TLAPS

\* What a replica believes published has left: markPublished, which trusts the
\* replica's memory and nothing else, therefore only closes rows that are sent.
BelievedIsSent == \A r \in Relays : \A e \in ok[r] : sent[e] > 0

\* Inductive: PublishedIsSent alone is not, since Mark closes ok[r].
IInv == TypeOK /\ PublishedIsSent /\ BelievedIsSent

LEMMA InitIInv == Init => IInv
  BY RelayFaultsAssumption DEF Init, IInv, TypeOK, PublishedIsSent, BelievedIsSent, Rows

-------------------------------------------------------------------------------
(***************************************************************************)
(* Type correctness: one step per action of the relay.                     *)
(***************************************************************************)

LEMMA TypeStep == TypeOK /\ [Next]_relayVars => TypeOK'
<1> SUFFICES ASSUME TypeOK, [Next]_relayVars PROVE TypeOK'
  OBVIOUS
<1> USE DEF TypeOK
<1>1. ASSUME NEW e \in Rows, Append(e) PROVE TypeOK'
  BY <1>1 DEF Append, cycleVars
<1>2. ASSUME NEW r \in Relays, Claim(r) PROVE TypeOK'
  BY <1>2 DEF Claim, OldestClaimable, Claimable
<1>3. ASSUME NEW r \in Relays, NEW e \in Rows, PublishOk(r, e) PROVE TypeOK'
  BY <1>3 DEF PublishOk, AfterPublish, Sent, tableVars
<1>4. ASSUME NEW r \in Relays, NEW e \in Rows, NEW left \in BOOLEAN, PublishFails(r, e, left)
      PROVE  TypeOK'
  BY <1>4, RelayFaultsAssumption DEF PublishFails, AfterPublish, Sent, tableVars, Fault
<1>5. ASSUME NEW r \in Relays, Mark(r) PROVE TypeOK'
  BY <1>5 DEF Mark, Marked, Return
<1>6. ASSUME NEW r \in Relays, MarkFails(r) \/ Crash(r) PROVE TypeOK'
  BY <1>6, RelayFaultsAssumption DEF MarkFails, Crash, Return, Fault, tableVars
<1>7. ASSUME NEW r \in Relays, NEW e \in Rows, NEW written \in BOOLEAN,
             RecordFailure(r, e, written)
      PROVE  TypeOK'
  BY <1>7, RelayFaultsAssumption DEF RecordFailure, Fault
<1>8. ASSUME NEW e \in Rows, ClaimAges(e) PROVE TypeOK'
  BY <1>8 DEF ClaimAges, cycleVars
<1>9. CASE UNCHANGED relayVars
  BY <1>9 DEF relayVars, tableVars, cycleVars
<1> QED
  BY <1>1, <1>2, <1>3, <1>4, <1>5, <1>6, <1>7, <1>8, <1>9
     DEF Next, RelayNext, Cycle, Publishing, Recording

\* Every reachable state of the outbox is well typed, and a replica holds only
\* the locals that the point it has reached in Run leaves it.
THEOREM TypeCorrect == Spec => []TypeOK
<1>1. Init => TypeOK
  BY InitIInv DEF IInv
<1> QED
  BY <1>1, TypeStep, PTL DEF Spec

-------------------------------------------------------------------------------
(***************************************************************************)
(* No row is closed unsent.                                                *)
(***************************************************************************)

\* Nothing is ever unsent.
LEMMA SentGrows ==
  ASSUME TypeOK, [Next]_relayVars
  PROVE  \A e \in Rows : sent[e] > 0 => sent'[e] > 0
<1> USE DEF TypeOK
<1>1. ASSUME NEW e \in Rows, Sent(e) PROVE \A f \in Rows : sent[f] > 0 => sent'[f] > 0
  BY <1>1 DEF Sent
<1>2. CASE UNCHANGED sent
  BY <1>2
<1>3. (\E e \in Rows : Sent(e)) \/ UNCHANGED sent
  BY DEF Next, RelayNext, Cycle, Publishing, Recording, Append, Claim, PublishOk,
         PublishFails, Mark, MarkFails, RecordFailure, Crash, ClaimAges, relayVars
<1> QED
  BY <1>1, <1>2, <1>3

\* A row enters ok[r] only in the step that sends it.
LEMMA BelievedStep == IInv /\ [Next]_relayVars => BelievedIsSent'
<1> SUFFICES ASSUME IInv, [Next]_relayVars,
                    NEW r \in Relays, NEW e \in ok'[r]
             PROVE  sent'[e] > 0
  BY DEF BelievedIsSent
<1> USE DEF IInv, TypeOK, BelievedIsSent
<1>1. CASE e \in ok[r]
  BY <1>1, SentGrows
<1>2. CASE e \notin ok[r]
  <2>1. PublishOk(r, e)
    BY <1>2 DEF Next, RelayNext, Cycle, Publishing, Recording, Append, Claim, PublishOk,
           PublishFails, Mark, MarkFails, RecordFailure, Crash, ClaimAges, relayVars,
           cycleVars, Return
  <2> QED
    BY <2>1 DEF PublishOk, Sent
<1> QED
  BY <1>1, <1>2

\* Only Mark closes rows, and it closes ok[r].
LEMMA ClosedByMark ==
  ASSUME [Next]_relayVars
  PROVE  (\E r \in Relays : Mark(r)) \/ UNCHANGED publishedAt
  BY DEF Next, RelayNext, Cycle, Publishing, Recording, Append, Claim, PublishOk,
         PublishFails, MarkFails, RecordFailure, Crash, ClaimAges, relayVars, tableVars

LEMMA PublishedStep == IInv /\ [Next]_relayVars => PublishedIsSent'
<1> SUFFICES ASSUME IInv, [Next]_relayVars,
                    NEW e \in publishedAt'
             PROVE  sent'[e] > 0
  BY DEF PublishedIsSent
<1> USE DEF IInv, TypeOK, BelievedIsSent, PublishedIsSent
<1>1. ASSUME NEW r \in Relays, Mark(r) PROVE sent'[e] > 0
  BY <1>1 DEF Mark, Marked
<1>2. CASE UNCHANGED publishedAt
  BY <1>2, SentGrows
<1> QED
  BY <1>1, <1>2, ClosedByMark

LEMMA IInvStep == IInv /\ [Next]_relayVars => IInv'
  BY TypeStep, BelievedStep, PublishedStep DEF IInv

\* A row is never written off without its event having reached Pub/Sub.
THEOREM NothingClosedUnsent == Spec => []PublishedIsSent
<1>1. IInv => PublishedIsSent
  BY DEF IInv
<1> QED
  BY <1>1, InitIInv, IInvStep, PTL DEF Spec

-------------------------------------------------------------------------------
(***************************************************************************)
(* Every duplicate has an excuse.                                          *)
(***************************************************************************)

Held(r, e) == e \in batch[r] \cup ok[r] \cup bad[r]

\* As long as nothing has gone wrong with a row, it has at most one holder and
\* its holder has a fresh claim; once it is sent, it is closed or its claim
\* keeps every replica from taking it up again.
OneHolder(e) ==
  /\ processingAt[e] # "stale"
  /\ \A r \in Relays : Held(r, e) => processingAt[e] = "fresh"
  /\ \A r, s \in Relays : Held(r, e) /\ Held(s, e) => r = s
  /\ \A r \in Relays : e \in bad[r] => e \notin batch[r]

SentOnce(e) ==
  /\ sent[e] < 2
  /\ sent[e] > 0 => /\ e \in publishedAt \/ processingAt[e] = "fresh"
                    /\ \A r \in Relays : e \notin batch[r] \cup bad[r]

ExcuseInv == \A e \in Rows \ excused : OneHolder(e) /\ SentOnce(e)

\* ExcuseInv is kept by every step; a row that a step excuses has nothing to keep.
LEMMA ExcuseStep == IInv /\ ExcuseInv /\ [Next]_relayVars => ExcuseInv'
<1> SUFFICES ASSUME IInv, ExcuseInv, [Next]_relayVars,
                    NEW e \in Rows, e \notin excused'
             PROVE  OneHolder(e)' /\ SentOnce(e)'
  BY DEF ExcuseInv
<1> USE DEF IInv, TypeOK, OneHolder, SentOnce, Held
<1>0. e \notin excused
  BY DEF Next, RelayNext, Cycle, Publishing, Recording, Append, Claim, PublishOk,
         PublishFails, Mark, MarkFails, RecordFailure, Crash, ClaimAges, relayVars
<1>e. OneHolder(e) /\ SentOnce(e)
  BY <1>0 DEF ExcuseInv
<1>1. ASSUME NEW f \in Rows, Append(f) PROVE OneHolder(e)' /\ SentOnce(e)'
  BY <1>1, <1>e DEF Append, cycleVars
<1>2. ASSUME NEW r \in Relays, Claim(r) PROVE OneHolder(e)' /\ SentOnce(e)'
  <2>1. PICK S \in SUBSET Rows :
          /\ OldestClaimable(S)
          /\ batch' = [batch EXCEPT ![r] = S]
          /\ processingAt' = [f \in Rows |-> IF f \in S THEN "fresh" ELSE processingAt[f]]
    BY <1>2 DEF Claim
  <2>2. rpc[r] = "idle" /\ UNCHANGED <<publishedAt, sent, ok, bad>>
    BY <1>2 DEF Claim
  <2>3. CASE e \in S
    <3>1. processingAt[e] = "null" /\ e \notin publishedAt
      BY <2>1, <2>3, <1>e DEF OldestClaimable, Claimable
    <3>2. sent[e] = 0 /\ \A s \in Relays : ~Held(s, e)
      BY <3>1, <1>e
    <3> QED
      BY <2>1, <2>2, <2>3, <3>2, <1>e
  <2>4. CASE e \notin S
    <3>1. processingAt'[e] = processingAt[e] /\ e \notin batch'[r]
      BY <2>1, <2>4
    <3>2. \A s \in Relays \ {r} : batch'[s] = batch[s]
      BY <2>1
    <3> QED
      BY <2>2, <3>1, <3>2, <1>e
  <2> QED
    BY <2>3, <2>4
<1>3. ASSUME NEW r \in Relays, NEW f \in Rows, PublishOk(r, f)
      PROVE  OneHolder(e)' /\ SentOnce(e)'
  BY <1>3, <1>e DEF PublishOk, Sent, tableVars
<1>4. ASSUME NEW r \in Relays, NEW f \in Rows, NEW left \in BOOLEAN, PublishFails(r, f, left)
      PROVE  OneHolder(e)' /\ SentOnce(e)'
  BY <1>4, <1>e DEF PublishFails, Sent, tableVars
<1>5. ASSUME NEW r \in Relays, Mark(r) PROVE OneHolder(e)' /\ SentOnce(e)'
  BY <1>5, <1>e DEF Mark, Marked, Return, BelievedIsSent
<1>6. ASSUME NEW r \in Relays, MarkFails(r) \/ Crash(r) PROVE OneHolder(e)' /\ SentOnce(e)'
  BY <1>6, <1>e DEF MarkFails, Crash, Return, tableVars
<1>7. ASSUME NEW r \in Relays, NEW f \in Rows, NEW written \in BOOLEAN,
             RecordFailure(r, f, written)
      PROVE  OneHolder(e)' /\ SentOnce(e)'
  BY <1>7, <1>e DEF RecordFailure
<1>8. ASSUME NEW f \in Rows, ClaimAges(f) PROVE OneHolder(e)' /\ SentOnce(e)'
  BY <1>8, <1>e DEF ClaimAges, cycleVars
<1>9. CASE UNCHANGED relayVars
  BY <1>9, <1>e DEF relayVars, tableVars, cycleVars
<1> QED
  BY <1>1, <1>2, <1>3, <1>4, <1>5, <1>6, <1>7, <1>8, <1>9
     DEF Next, RelayNext, Cycle, Publishing, Recording

\* Replicas send a row twice only after a claim aged or an answer was lost.
THEOREM DuplicatesAreExcused == Spec => []DuplicateIsExcused
<1>1. Init => ExcuseInv
  BY DEF Init, ExcuseInv, OneHolder, SentOnce, Held
<1>2. IInv /\ ExcuseInv => DuplicateIsExcused
  BY DEF IInv, TypeOK, ExcuseInv, SentOnce, DuplicateIsExcused
<1> QED
  BY <1>1, <1>2, InitIInv, IInvStep, ExcuseStep, PTL DEF Spec

-------------------------------------------------------------------------------
(***************************************************************************)
(* The relay implements EventDelivery.                                     *)
(***************************************************************************)

LEMMA DeliveryInit == Init => ED!Init
  BY DEF Init, ED!Init

LEMMA DeliveryStep == IInv /\ [Next]_relayVars => [ED!Next]_(ED!vars)
<1> SUFFICES ASSUME IInv, [Next]_relayVars PROVE ED!Next \/ UNCHANGED ED!vars
  OBVIOUS
<1> USE DEF IInv, TypeOK
<1>1. ASSUME NEW e \in Rows, Append(e) PROVE ED!Record(e)
  BY <1>1 DEF Append, ED!Record
<1>2. ASSUME NEW r \in Relays, NEW e \in batch[r], Sent(e), UNCHANGED <<outbox, publishedAt>>
      PROVE  ED!Deliver(e)
  BY <1>2 DEF Sent, ED!Deliver
<1>3. ASSUME NEW r \in Relays, Mark(r) PROVE ED!Close(ok[r])
  BY <1>3 DEF Mark, Marked, ED!Close, BelievedIsSent
<1>4. CASE UNCHANGED <<outbox, publishedAt, sent>>
  BY <1>4 DEF ED!vars
<1>5. \/ \E e \in Rows : Append(e)
      \/ \E r \in Relays : \E e \in batch[r] : Sent(e) /\ UNCHANGED <<outbox, publishedAt>>
      \/ \E r \in Relays : Mark(r)
      \/ UNCHANGED <<outbox, publishedAt, sent>>
  BY DEF Next, RelayNext, Cycle, Publishing, Recording, Claim, PublishOk,
         PublishFails, MarkFails, RecordFailure, Crash, ClaimAges, relayVars, tableVars
<1>6. ASSUME NEW r \in Relays PROVE batch[r] \subseteq Rows /\ ok[r] \in SUBSET Rows
  OBVIOUS
<1> QED
  BY <1>1, <1>2, <1>3, <1>4, <1>5, <1>6 DEF ED!Next

\* The detailed relay implements the abstract outbox.
THEOREM Implements == Spec => ImplementsDelivery
<1>1. IInv /\ [Next]_relayVars => [ED!Next]_(ED!vars)
  BY DeliveryStep
<1> QED
  BY <1>1, DeliveryInit, InitIInv, IInvStep, PTL DEF Spec, ImplementsDelivery, ED!Spec
================================================================================
