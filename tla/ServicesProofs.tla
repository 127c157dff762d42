----------------------------- MODULE ServicesProofs -----------------------------
(***************************************************************************)
(* For every number of replicas, calls and faults: what the services with a *)
(* state of their own promise.  Each service has its inductive invariant,    *)
(* three facts about it (it holds at first, every step keeps it, it implies  *)
(* the property) and two theorems: one about the service alone, and one      *)
(* about the module in which the services take turns.                        *)
(***************************************************************************)
EXTENDS MCServices, DiscountMathProofs, TLAPS

\* A step of the module in which the services take turns is a step of the one in
\* focus, or one of another service.
LEMMA FocusStep ==
  ASSUME [MCNext]_allVars
  PROVE  /\ focus' = focus
         /\ focus = "notification" => [Notification!Next]_(Notification!vars)
         /\ focus = "cache" => [Cache!Next]_(Cache!vars)
         /\ focus = "cart" => [Cart!Next]_(Cart!vars)
         /\ focus = "stock" => [Stock!Next]_(Stock!vars)
         /\ focus = "inquiry" => [Inquiry!Next]_(Inquiry!vars)
         /\ focus = "catalog" => [Catalog!Next]_(Catalog!vars)
         /\ focus = "reviews" => [Reviews!Next]_(Reviews!vars)
         /\ focus = "roles" => [Roles!Next]_(Roles!vars)
         /\ focus = "plans" => [Subs!Next]_(Subs!vars)
<1>1. CASE MCNext
  BY <1>1 DEF MCNext, Others
<1>2. CASE UNCHANGED allVars
  BY <1>2 DEF allVars, callVars, noteVars, cacheVars, cartVars, eventVars, catalogVars, stockVars,
       reviewVars, inquiryVars, Notification!vars, Cache!vars, Cart!vars, Stock!vars, Inquiry!vars,
       Catalog!vars, Reviews!vars, Roles!vars, roleVars, planVars, Subs!vars, Subs!feedVars
<1> QED
  BY <1>1, <1>2

LEMMA FocusInit ==
  ASSUME MCInit
  PROVE  /\ focus = "notification" => Notification!Init
         /\ focus = "cache" => Cache!Init
         /\ focus = "cart" => Cart!Init
         /\ focus = "stock" => Stock!Init
         /\ focus = "inquiry" => Inquiry!Init
         /\ focus = "catalog" => Catalog!Init
         /\ focus = "reviews" => Reviews!Init
         /\ focus = "roles" => Roles!Init
         /\ focus = "plans" => Subs!Init
  BY DEF MCInit

-----------------------------------------------------------------------------
(***************************************************************************)
(* notification-svc                                                         *)
(***************************************************************************)

\* Whoever has seen the event as sent, or is about to mark it so, can rely on a
\* notification that went out.
SentIsSent ==
  known =>
    /\ row = "sent" \/ acked => sends > 0
    /\ \A w \in Workers : wpc[w] = "mark" \/ (wpc[w] = "claim" /\ seen[w] = "sent") => sends > 0

\* The calls that may still send a notification, or give the event free for
\* another that will; and a row that the next claim wins.
Owing == {w \in Workers : wpc[w] \in {"send", "release"}}
Free == IF Notification!Wins THEN 1 ELSE 0

\* Every notification but the first, sent or still to come, has been excused; a
\* claim that nobody has in hand any more has used up its own.
SendsAreExcused ==
  /\ sends + Cardinality(Owing) + Free <= 1 + excuses
  /\ row = "processing" /\ Notification!InHand = {} => sends <= excuses

NotificationInv == Notification!TypeOK /\ SentIsSent /\ SendsAreExcused

LEMMA OwingIsFinite == IsFiniteSet(Owing) /\ Cardinality(Owing) \in Nat
  BY ServicesAssumption, FS_Subset, FS_CardinalityType DEF Owing

LEMMA NotificationInit == ASSUME Notification!Init PROVE NotificationInv
<1>1. Notification!TypeOK
  <2>1. 0 \in 0..MaxAgain /\ 0 \in 0..MaxSlow /\ 0 \in 0..MaxLosses
    BY ServicesAssumption
  <2> QED
    BY <2>1 DEF Notification!Init, Notification!TypeOK, Notification!RowStates
<1>2. SentIsSent
  BY DEF Notification!Init, SentIsSent
<1>3. Owing = {}
  BY DEF Notification!Init, Owing
<1>4. SendsAreExcused
  BY <1>3, FS_EmptySet DEF Notification!Init, SendsAreExcused, Free, Notification!Wins
<1> QED
  BY <1>1, <1>2, <1>4 DEF NotificationInv

\* What moving a call on does to the calls that owe something.
LEMMA GotoOwing ==
  ASSUME Notification!TypeOK, NEW w \in Workers,
         NEW p \in {"idle", "claim", "send", "mark", "release"}, Notification!Goto(w, p)
  PROVE  /\ wpc' \in [Workers -> {"idle", "claim", "send", "mark", "release"}]
         /\ wpc'[w] = p
         /\ \A v \in Workers : v # w => wpc'[v] = wpc[v]
         /\ Cardinality(Owing') \in Nat
         /\ Cardinality(Owing') =
              Cardinality(Owing)
              + (IF p \in {"send", "release"} THEN 1 ELSE 0)
              - (IF wpc[w] \in {"send", "release"} THEN 1 ELSE 0)
<1>1. /\ wpc' \in [Workers -> {"idle", "claim", "send", "mark", "release"}]
      /\ wpc'[w] = p
      /\ \A v \in Workers : v # w => wpc'[v] = wpc[v]
  BY DEF Notification!TypeOK, Notification!Goto
<1>2. Owing' = IF p \in {"send", "release"} THEN Owing \cup {w} ELSE Owing \ {w}
  BY <1>1 DEF Owing
<1>3. /\ w \in Owing <=> wpc[w] \in {"send", "release"}
      /\ IsFiniteSet(Owing) /\ Cardinality(Owing) \in Nat
  BY OwingIsFinite DEF Owing
<1>4. /\ Cardinality(Owing \cup {w}) = IF w \in Owing THEN Cardinality(Owing) ELSE Cardinality(Owing) + 1
      /\ Cardinality(Owing \ {w}) = IF w \in Owing THEN Cardinality(Owing) - 1 ELSE Cardinality(Owing)
      /\ Cardinality(Owing \cup {w}) \in Nat /\ Cardinality(Owing \ {w}) \in Nat
  BY <1>3, FS_AddElement, FS_RemoveElement, FS_CardinalityType
<1>5. CASE p \in {"send", "release"}
  BY <1>1, <1>2, <1>3, <1>4, <1>5
<1>6. CASE p \notin {"send", "release"}
  BY <1>1, <1>2, <1>3, <1>4, <1>6
<1> QED
  BY <1>5, <1>6

\* A call that moves on leaves what the type invariant and SentIsSent say of the
\* other calls.
LEMMA NotificationStep ==
  ASSUME NotificationInv, NEW w \in Workers,
         \/ Notification!Receive(w) \/ Notification!Claim(w) \/ Notification!ClaimError(w)
         \/ Notification!Send(w) \/ Notification!SendError(w)
         \/ Notification!Mark(w) \/ Notification!Release(w) \/ Notification!Crash(w)
  PROVE  Notification!TypeOK' /\ SentIsSent'
<1> USE DEF NotificationInv, Notification!TypeOK, Notification!RowStates, SentIsSent,
            Notification!Goto, Notification!Excuse, Notification!Fault
<1>1. CASE Notification!Receive(w)
  BY <1>1, ServicesAssumption DEF Notification!Receive
<1>2. CASE Notification!Claim(w)
  <2>1. Notification!TakenRow \in Notification!RowStates
    BY DEF Notification!TakenRow
  <2>2. CASE Notification!Verdict(w) = "acquired"
    <3>1. Notification!Proceed(w) /\ UNCHANGED acked
      BY <1>2, <2>2 DEF Notification!Claim
    <3> QED
      BY <1>2, <2>1, <3>1 DEF Notification!Claim, Notification!Proceed, Notification!TakenRow,
         Notification!Wins
  <2>3. CASE Notification!Verdict(w) = "already_sent"
    <3>1. seen[w] = "sent" /\ ~Notification!Wins
      BY <2>3 DEF Notification!Verdict
    <3> QED
      BY <1>2, <2>1, <2>3, <3>1 DEF Notification!Claim, Notification!TakenRow
  <2>4. CASE Notification!Verdict(w) = "active_processing"
    BY <1>2, <2>1, <2>4 DEF Notification!Claim, Notification!TakenRow, Notification!Wins
  <2> QED
    BY <1>2, <2>2, <2>3, <2>4 DEF Notification!Claim
<1>3. CASE Notification!ClaimError(w)
  BY <1>3, ServicesAssumption DEF Notification!ClaimError, Notification!Proceed, Notification!TakenRow,
       Notification!Wins
<1>4. CASE Notification!Send(w)
  BY <1>4 DEF Notification!Send
<1>5. CASE Notification!SendError(w)
  BY <1>5, ServicesAssumption DEF Notification!SendError
<1>6. CASE Notification!Mark(w)
  BY <1>6, ServicesAssumption DEF Notification!Mark
<1>7. CASE Notification!Release(w)
  BY <1>7, ServicesAssumption DEF Notification!Release
<1>8. CASE Notification!Crash(w)
  BY <1>8, ServicesAssumption DEF Notification!Crash
<1> QED
  BY <1>1, <1>2, <1>3, <1>4, <1>5, <1>6, <1>7, <1>8

LEMMA NotificationExcuses ==
  ASSUME NotificationInv, NEW w \in Workers,
         \/ Notification!Receive(w) \/ Notification!Claim(w) \/ Notification!ClaimError(w)
         \/ Notification!Send(w) \/ Notification!SendError(w)
         \/ Notification!Mark(w) \/ Notification!Release(w) \/ Notification!Crash(w)
  PROVE  SendsAreExcused'
<1>1. /\ Notification!TypeOK
      /\ sends \in Nat /\ excuses \in Nat /\ Cardinality(Owing) \in Nat
      /\ w \in Owing <=> wpc[w] \in {"send", "release"}
      /\ w \in Owing => Cardinality(Owing) > 0 /\ Notification!InHand # {}
      /\ SendsAreExcused
  <2>1. IsFiniteSet(Owing) /\ Cardinality(Owing) \in Nat
    BY OwingIsFinite
  <2>2. w \in Owing => Cardinality(Owing) # 0
    BY <2>1, FS_EmptySet
  <2>3. w \in Owing => Notification!InHand # {}
    BY DEF Owing, Notification!InHand
  <2>4. w \in Owing <=> wpc[w] \in {"send", "release"}
    BY DEF Owing
  <2>5. Notification!TypeOK /\ sends \in Nat /\ excuses \in Nat /\ SendsAreExcused
    BY DEF NotificationInv, Notification!TypeOK
  <2> QED
    BY <2>1, <2>2, <2>3, <2>4, <2>5
\* A call that leaves a claim in progress behind was the last one to have it in hand.
<1>2. ASSUME NEW p \in {"idle", "claim", "send", "mark", "release"}, Notification!Goto(w, p),
             Notification!InHand' = {}
      PROVE  p \in {"idle", "claim"} /\ Notification!InHand \subseteq {w}
  BY <1>1, <1>2, GotoOwing DEF Notification!InHand
<1>3. CASE Notification!Receive(w)
  <2>1. Notification!Goto(w, "claim") /\ row' = row /\ sends' = sends /\ excuses' = excuses
        /\ wpc[w] = "idle"
    BY <1>3 DEF Notification!Receive
  <2>2. Cardinality(Owing') = Cardinality(Owing) /\ Free' = Free
    BY <1>1, <2>1, GotoOwing DEF Free, Notification!Wins
  <2>3. Notification!InHand' = {} => Notification!InHand = {}
    BY <1>2, <2>1 DEF Notification!InHand
  <2> QED
    BY <1>1, <2>1, <2>2, <2>3 DEF SendsAreExcused
<1>4. CASE Notification!Claim(w)
  <2>1. CASE Notification!Verdict(w) = "acquired"
    <3>1. PICK p \in {"send", "release"} : Notification!Goto(w, p)
      BY <1>4, <2>1 DEF Notification!Claim, Notification!Proceed
    <3>2. /\ wpc[w] = "claim" /\ sends' = sends
          /\ excuses' = excuses + (IF Notification!Wins THEN 0 ELSE 1)
          /\ row' = Notification!TakenRow
      BY <1>4, <2>1 DEF Notification!Claim, Notification!Excuse
    <3>3. Cardinality(Owing') = Cardinality(Owing) + 1 /\ Notification!InHand' # {}
      BY <1>1, <1>2, <3>1, <3>2, GotoOwing
    <3>4. Free' = 0
      BY <3>2 DEF Free, Notification!Wins, Notification!TakenRow
    <3> QED
      BY <1>1, <3>2, <3>3, <3>4 DEF SendsAreExcused, Free
  <2>2. CASE Notification!Verdict(w) # "acquired"
    <3>1. ~Notification!Wins
      BY <2>2 DEF Notification!Verdict
    <3>2. Notification!Goto(w, "idle") /\ wpc[w] = "claim" /\ row' = row /\ UNCHANGED <<sends, excuses>>
      BY <1>4, <2>2, <3>1 DEF Notification!Claim, Notification!TakenRow
    <3>3. Cardinality(Owing') = Cardinality(Owing) /\ Free' = Free
      BY <1>1, <3>2, GotoOwing DEF Free, Notification!Wins
    <3>4. Notification!InHand' = {} => Notification!InHand = {}
      BY <1>2, <3>2 DEF Notification!InHand
    <3> QED
      BY <1>1, <3>2, <3>3, <3>4 DEF SendsAreExcused
  <2> QED
    BY <2>1, <2>2
<1>5. CASE Notification!ClaimError(w)
  <2>1. PICK p \in {"send", "release"} : Notification!Goto(w, p)
    BY <1>5 DEF Notification!ClaimError, Notification!Proceed
  <2>2. /\ wpc[w] = "claim" /\ sends' = sends /\ excuses' = excuses + 1
        /\ row' \in {row, Notification!TakenRow}
    BY <1>5 DEF Notification!ClaimError, Notification!Excuse
  <2>3. Cardinality(Owing') = Cardinality(Owing) + 1 /\ Notification!InHand' # {}
    BY <1>1, <1>2, <2>1, <2>2, GotoOwing
  <2>4. Free' \in {0, Free} /\ Free \in {0, 1}
    BY <2>2 DEF Free, Notification!Wins, Notification!TakenRow
  <2> QED
    BY <1>1, <2>2, <2>3, <2>4 DEF SendsAreExcused
<1>6. CASE Notification!Send(w)
  <2>1. /\ Notification!Goto(w, "mark") /\ wpc[w] = "send"
        /\ sends' = sends + 1 /\ excuses' = excuses /\ row' = row
    BY <1>6 DEF Notification!Send
  <2>2. /\ Cardinality(Owing') = Cardinality(Owing) - 1 /\ Free' = Free /\ Free \in {0, 1}
        /\ Notification!InHand' # {}
    BY <1>1, <1>2, <2>1, GotoOwing DEF Free, Notification!Wins
  <2> QED
    BY <1>1, <2>1, <2>2 DEF SendsAreExcused
<1>7. CASE Notification!SendError(w)
  <2>1. PICK out \in {0, 1} : sends' = sends + out /\ excuses' = excuses + out
    BY <1>1, <1>7 DEF Notification!SendError, Notification!Excuse
  <2>2. Notification!Goto(w, "release") /\ wpc[w] = "send" /\ row' = row
    BY <1>7 DEF Notification!SendError
  <2>3. /\ Cardinality(Owing') = Cardinality(Owing) /\ Free' = Free /\ Free \in {0, 1}
        /\ Notification!InHand' # {}
    BY <1>1, <1>2, <2>2, GotoOwing DEF Free, Notification!Wins
  <2> QED
    BY <1>1, <2>1, <2>2, <2>3 DEF SendsAreExcused
<1>8. CASE Notification!Mark(w)
  <2>1. /\ Notification!Goto(w, "idle") /\ wpc[w] = "mark" /\ sends' = sends
        /\ \/ row' # "processing" /\ (Notification!Wins' => Notification!Wins) /\ excuses' = excuses
           \/ row' = row /\ excuses' = excuses + 1
    BY <1>8 DEF Notification!Mark, Notification!Excuse, Notification!Wins
  <2>2. Cardinality(Owing') = Cardinality(Owing)
    BY <1>1, <2>1, GotoOwing
  <2>3. Free' \in {0, Free} /\ Free \in {0, 1}
    BY <2>1 DEF Free, Notification!Wins
  <2> QED
    BY <1>1, <2>1, <2>2, <2>3 DEF SendsAreExcused
<1>9. CASE Notification!Release(w)
  <2>1. /\ Notification!Goto(w, "idle") /\ wpc[w] = "release" /\ UNCHANGED <<sends, excuses>>
        /\ row' # "processing" \/ row' = row
    BY <1>9 DEF Notification!Release
  <2>2. Cardinality(Owing') = Cardinality(Owing) - 1 /\ Cardinality(Owing) > 0
    BY <1>1, <2>1, GotoOwing
  <2>3. row' = row => Free' = Free
    BY DEF Free, Notification!Wins
  <2>4. Free \in {0, 1} /\ Free' \in {0, 1}
    BY DEF Free
  <2> QED
    BY <1>1, <2>1, <2>2, <2>3, <2>4 DEF SendsAreExcused
<1>10. CASE Notification!Crash(w)
  <2>1. /\ Notification!Goto(w, "idle") /\ sends' = sends /\ row' = row
        /\ excuses' = excuses + (IF wpc[w] = "mark" THEN 1 ELSE 0)
    BY <1>10 DEF Notification!Crash, Notification!Excuse
  <2>2. Cardinality(Owing') = Cardinality(Owing) - (IF wpc[w] \in {"send", "release"} THEN 1 ELSE 0)
        /\ Free' = Free /\ Free \in {0, 1}
    BY <1>1, <2>1, GotoOwing DEF Free, Notification!Wins
  <2>3. Notification!InHand' = {} /\ wpc[w] \notin {"send", "mark", "release"} => Notification!InHand = {}
    BY <1>2, <2>1 DEF Notification!InHand
  <2>4. Cardinality(Owing') \in Nat
    BY <1>1, <2>1, GotoOwing
  <2> QED
    BY <1>1, <2>1, <2>2, <2>3, <2>4 DEF SendsAreExcused
<1> QED
  BY <1>3, <1>4, <1>5, <1>6, <1>7, <1>8, <1>9, <1>10

LEMMA NotificationNext ==
  ASSUME NotificationInv, [Notification!Next]_(Notification!vars)
  PROVE  NotificationInv'
<1>1. ASSUME NEW w \in Workers,
             \/ Notification!Receive(w) \/ Notification!Claim(w) \/ Notification!ClaimError(w)
             \/ Notification!Send(w) \/ Notification!SendError(w)
             \/ Notification!Mark(w) \/ Notification!Release(w) \/ Notification!Crash(w)
      PROVE  NotificationInv'
  BY <1>1, NotificationStep, NotificationExcuses DEF NotificationInv
<1>2. CASE Notification!Expire
  <2>1. Notification!TypeOK'
    BY <1>2, ServicesAssumption DEF Notification!Expire, Notification!Excuse, NotificationInv,
         Notification!TypeOK, Notification!RowStates
  <2>2. SentIsSent'
    BY <1>2 DEF Notification!Expire, NotificationInv, SentIsSent
  <2>3. /\ sends \in Nat /\ excuses \in Nat /\ Owing' = Owing /\ Cardinality(Owing) \in Nat
        /\ row = "processing" /\ row' = "expired" /\ sends' = sends
    BY <1>2, OwingIsFinite DEF Notification!Expire, NotificationInv, Notification!TypeOK, Owing
  <2>4. Free = 0 /\ Free' = 1
    BY <2>3 DEF Free, Notification!Wins
  <2>5. CASE Notification!InHand # {}
    <3>1. excuses' = excuses + 1
      BY <1>2, <2>5 DEF Notification!Expire, Notification!Excuse
    <3> QED
      BY <2>1, <2>2, <2>3, <2>4, <3>1 DEF NotificationInv, SendsAreExcused
  <2>6. CASE Notification!InHand = {}
    <3>1. excuses' = excuses
      BY <1>2, <2>6 DEF Notification!Expire
    <3>2. Owing = {}
      BY <2>6 DEF Owing, Notification!InHand
    <3> QED
      BY <2>1, <2>2, <2>3, <2>4, <2>6, <3>1, <3>2, FS_EmptySet DEF NotificationInv, SendsAreExcused
  <2> QED
    BY <2>5, <2>6
<1>3. CASE UNCHANGED Notification!vars
  BY <1>3 DEF Notification!vars, NotificationInv, Notification!TypeOK, SentIsSent, SendsAreExcused,
       Owing, Free, Notification!Wins, Notification!InHand
<1> QED
  BY <1>1, <1>2, <1>3 DEF Notification!Next, Notification!Step

LEMMA NotificationPromises ==
  ASSUME NotificationInv
  PROVE  Notification!NotifiedBeforeAck /\ Notification!ExtraSendIsExcused
<1>1. /\ sends \in Nat /\ excuses \in Nat /\ Cardinality(Owing) \in Nat /\ Free \in {0, 1}
      /\ sends + Cardinality(Owing) + Free <= 1 + excuses
  BY OwingIsFinite DEF NotificationInv, Notification!TypeOK, SendsAreExcused, Free
<1>2. Notification!ExtraSendIsExcused
  BY <1>1 DEF Notification!ExtraSendIsExcused
<1> QED
  BY <1>2 DEF NotificationInv, SentIsSent, Notification!NotifiedBeforeAck

\* notification-svc: whatever the number of replicas that get the event, of its
\* redeliveries, of aged claims and of failed calls, handleEvent acknowledges no
\* event of a known type that was not sent, and it sends a second notification
\* only for one of the causes counted in excuses.
THEOREM NotificationIsSafe ==
  Notification!Spec => [](Notification!NotifiedBeforeAck /\ Notification!ExtraSendIsExcused)
<1>1. Notification!Init => NotificationInv
  BY NotificationInit
<1>2. NotificationInv /\ [Notification!Next]_(Notification!vars) => NotificationInv'
  BY NotificationNext
<1>3. NotificationInv => Notification!NotifiedBeforeAck /\ Notification!ExtraSendIsExcused
  BY NotificationPromises
<1> QED
  BY <1>1, <1>2, <1>3, PTL DEF Notification!Spec

\* The same where the services take turns: no acknowledged shipping event is lost.
THEOREM NoNotificationIsLost == MCSpec => []NotifiedBeforeAck
<1> DEFINE I == focus = "notification" => NotificationInv
<1>1. MCInit => I
  BY FocusInit, NotificationInit
<1>2. I /\ [MCNext]_allVars => I'
  BY FocusStep, NotificationNext
<1>3. I => NotifiedBeforeAck
  BY NotificationPromises DEF NotifiedBeforeAck
<1> QED
  BY <1>1, <1>2, <1>3, PTL DEF MCSpec

\* The same where the services take turns: a second notification has its cause.
THEOREM ExtraNotificationsAreExcused == MCSpec => []ExtraSendIsExcused
<1> DEFINE I == focus = "notification" => NotificationInv
<1>1. MCInit => I
  BY FocusInit, NotificationInit
<1>2. I /\ [MCNext]_allVars => I'
  BY FocusStep, NotificationNext
<1>3. I => ExtraSendIsExcused
  BY NotificationPromises DEF ExtraSendIsExcused
<1> QED
  BY <1>1, <1>2, <1>3, PTL DEF MCSpec

-----------------------------------------------------------------------------
(***************************************************************************)
(* auth-svc                                                                 *)
(***************************************************************************)

LEMMA RolesParams == Founder \in Users /\ MaxRoleCalls \in Nat
  BY ServicesAssumption

\* A transfer hands the top role over; a call that has got past ReadTarget does
\* not touch its own actor.
TransferPromotes == \A c \in Calls : call[c].op = "transfer" => call[c].new = "top"
OthersOnly ==
  \A c \in Calls : at[c] \in {"count", "write"} /\ call[c].op \in {"update", "remove"} =>
    Roles!Target(c) # call[c].actor

RolesInv == Roles!TypeOK /\ TransferPromotes /\ OthersOnly

\* At first nobody calls.
LEMMA RolesInit == ASSUME Roles!Init PROVE RolesInv
<1>1. Roles!NoCall \in Roles!Operation
  BY RolesParams DEF Roles!NoCall, Roles!Operation, Roles!Ops, Roles!Roles
<1>2. Roles!TypeOK
  BY <1>1, RolesParams DEF Roles!Init, Roles!TypeOK, Roles!Roles
<1>3. TransferPromotes /\ OthersOnly
  BY DEF Roles!Init, TransferPromotes, OthersOnly, Roles!NoCall
<1> QED
  BY <1>2, <1>3 DEF RolesInv

\* A call that moves on with its arguments as they are, or returns, keeps every
\* part of the invariant that is about calls, if it minds its target.
LEMMA GotoKeepsRoles ==
  ASSUME RolesInv, NEW c \in Calls, NEW p \in {"idle", "check", "target", "count", "write"},
         Roles!Goto(c, p),
         p \in {"count", "write"} /\ call[c].op \in {"update", "remove"} => Roles!Target(c) # call[c].actor
  PROVE  /\ at' \in [Calls -> {"idle", "check", "target", "count", "write"}]
         /\ call' \in [Calls -> Roles!Operation]
         /\ TransferPromotes'
         /\ OthersOnly'
<1>1. Roles!NoCall \in Roles!Operation /\ Roles!NoCall.op = "add"
  BY RolesParams DEF Roles!NoCall, Roles!Operation, Roles!Ops, Roles!Roles
<1>2. /\ at' \in [Calls -> {"idle", "check", "target", "count", "write"}]
      /\ call' \in [Calls -> Roles!Operation]
  BY <1>1 DEF RolesInv, Roles!TypeOK, Roles!Goto
<1>3. \A d \in Calls : call'[d] = call[d] \/ call'[d] = Roles!NoCall
  BY DEF RolesInv, Roles!TypeOK, Roles!Goto
<1>4. TransferPromotes'
  BY <1>1, <1>3 DEF RolesInv, TransferPromotes
<1>5. ASSUME NEW d \in Calls, at'[d] \in {"count", "write"}, call'[d].op \in {"update", "remove"}
      PROVE  call'[d].target # call'[d].actor
  <2>1. call'[d] = call[d]
    BY <1>1, <1>3, <1>5
  <2>2. CASE d = c
    <3>1. at'[d] = p
      BY <2>2 DEF RolesInv, Roles!TypeOK, Roles!Goto
    <3> QED
      BY <2>1, <2>2, <3>1, <1>5 DEF Roles!Target
  <2>3. CASE d # c
    <3>1. at'[d] = at[d]
      BY <2>3 DEF RolesInv, Roles!TypeOK, Roles!Goto
    <3> QED
      BY <2>1, <3>1, <1>5 DEF RolesInv, OthersOnly, Roles!Target
  <2> QED
    BY <2>2, <2>3
<1>6. OthersOnly'
  BY <1>5 DEF OthersOnly, Roles!Target
<1> QED
  BY <1>2, <1>4, <1>6

\* A call that starts keeps them too: it has not read its target yet, or adds.
LEMMA StartKeepsRoles ==
  ASSUME RolesInv, NEW c \in Calls, NEW p \in {"check", "write"}, NEW r \in Roles!Operation,
         Roles!Start(c, p, r), r.op = "transfer" => r.new = "top", p = "write" => r.op = "boot"
  PROVE  /\ at' \in [Calls -> {"idle", "check", "target", "count", "write"}]
         /\ call' \in [Calls -> Roles!Operation]
         /\ started' \in 0..MaxRoleCalls
         /\ TransferPromotes'
         /\ OthersOnly'
<1>1. started' \in 0..MaxRoleCalls
  BY RolesParams DEF RolesInv, Roles!TypeOK, Roles!Start
<1>2. /\ at' \in [Calls -> {"idle", "check", "target", "count", "write"}]
      /\ call' \in [Calls -> Roles!Operation]
  BY DEF RolesInv, Roles!TypeOK, Roles!Start
<1>3. \A d \in Calls : IF d = c THEN call'[d] = r /\ at'[d] = p ELSE call'[d] = call[d] /\ at'[d] = at[d]
  BY DEF RolesInv, Roles!TypeOK, Roles!Start
<1>4. TransferPromotes'
  BY <1>3 DEF RolesInv, TransferPromotes
<1>5. OthersOnly'
  BY <1>3 DEF RolesInv, OthersOnly, Roles!Target
<1> QED
  BY <1>1, <1>2, <1>4, <1>5

\* Every action keeps the invariant.
LEMMA RolesNext == ASSUME RolesInv, [Roles!Next]_(Roles!vars) PROVE RolesInv'
<1> USE RolesParams
<1>1. ASSUME NEW c \in Calls, Roles!Request(c)
      PROVE  RolesInv'
  <2>1. PICK op \in Roles!Ops \ {"boot"}, a \in Users, t \in Users, n \in Roles!Assignable :
          Roles!Start(c, "check", [op |-> op, actor |-> a, row |-> 0, target |-> t, id |-> id[t],
                             new |-> Roles!Granted(op, n)])
    BY <1>1 DEF Roles!Request
  <2> DEFINE r == [op |-> op, actor |-> a, row |-> 0, target |-> t, id |-> id[t],
                   new |-> Roles!Granted(op, n)]
  <2>2. r \in Roles!Operation /\ (r.op = "transfer" => r.new = "top")
    BY DEF Roles!Granted, RolesInv, Roles!TypeOK, Roles!Operation, Roles!Ops, Roles!Roles, Roles!Assignable
  <2>3. Roles!Start(c, "check", r)
    BY <2>1
  <2>4. /\ at' \in [Calls -> {"idle", "check", "target", "count", "write"}]
        /\ call' \in [Calls -> Roles!Operation]
        /\ started' \in 0..MaxRoleCalls
        /\ TransferPromotes'
        /\ OthersOnly'
    <3> HIDE DEF r
    <3> QED
      BY <2>2, <2>3, StartKeepsRoles
  <2> QED
    BY <1>1, <2>4 DEF RolesInv, Roles!TypeOK, Roles!Request
<1>2. ASSUME NEW c \in Calls, Roles!Check(c)
      PROVE  RolesInv'
  <2>1. CASE role[call[c].actor] # "top"
    <3>1. Roles!Goto(c, "idle")
      BY <1>2, <2>1 DEF Roles!Check
    <3> QED
      BY <1>2, <3>1, GotoKeepsRoles DEF RolesInv, Roles!TypeOK, Roles!Check
  <2>2. CASE role[call[c].actor] = "top"
    <3> DEFINE q == IF call[c].op = "add" THEN "write" ELSE "target"
    <3>1. /\ at' = [at EXCEPT ![c] = q]
          /\ call' = [call EXCEPT ![c].row = id[call[c].actor]]
      BY <1>2, <2>2 DEF Roles!Check
    <3>2. call[c] \in Roles!Operation /\ id[call[c].actor] \in Nat
      BY DEF RolesInv, Roles!TypeOK, Roles!Operation
    <3>3. /\ at' \in [Calls -> {"idle", "check", "target", "count", "write"}]
          /\ call' \in [Calls -> Roles!Operation]
      BY <3>1, <3>2 DEF RolesInv, Roles!TypeOK, Roles!Operation
    <3>4. \A d \in Calls : /\ call'[d].op = call[d].op /\ call'[d].new = call[d].new
                           /\ call'[d].target = call[d].target /\ call'[d].actor = call[d].actor
      BY <3>1, <3>2 DEF RolesInv, Roles!TypeOK, Roles!Operation
    <3>5. \A d \in Calls : d # c => at'[d] = at[d]
      BY <3>1 DEF RolesInv, Roles!TypeOK
    <3>6. at'[c] = "write" => call[c].op = "add"
      BY <3>1 DEF RolesInv, Roles!TypeOK
    <3>7. at'[c] # "count"
      BY <3>1 DEF RolesInv, Roles!TypeOK
    <3>8. TransferPromotes' /\ OthersOnly'
      BY <3>4, <3>5, <3>6, <3>7 DEF RolesInv, TransferPromotes, OthersOnly, Roles!Target
    <3> QED
      BY <1>2, <3>3, <3>8 DEF RolesInv, Roles!TypeOK, Roles!Check
  <2> QED
    BY <2>1, <2>2
<1>3. ASSUME NEW c \in Calls, Roles!ReadTarget(c)
      PROVE  RolesInv'
  <2> DEFINE p == IF Roles!Settled(c) THEN "idle" ELSE IF Roles!MustCount(c) THEN "count" ELSE "write"
  <2>1. p \in {"idle", "check", "target", "count", "write"}
    OBVIOUS
  <2>2. p \in {"count", "write"} => Roles!Target(c) # call[c].actor
    BY DEF Roles!Settled, Roles!Refused
  <2>3. Roles!Goto(c, p)
    BY <1>3 DEF Roles!ReadTarget
  <2>4. /\ at' \in [Calls -> {"idle", "check", "target", "count", "write"}]
        /\ call' \in [Calls -> Roles!Operation]
        /\ TransferPromotes'
        /\ OthersOnly'
    <3> HIDE DEF p
    <3> QED
      BY <2>1, <2>2, <2>3, GotoKeepsRoles
  <2> QED
    BY <1>3, <2>4 DEF RolesInv, Roles!TypeOK, Roles!ReadTarget
<1>4. ASSUME NEW c \in Calls, Roles!Count(c)
      PROVE  RolesInv'
  <2>1. Roles!Goto(c, "idle") \/ Roles!Goto(c, "write")
    BY <1>4 DEF Roles!Count
  <2>2. call[c].op \in {"update", "remove"} => Roles!Target(c) # call[c].actor
    BY <1>4 DEF RolesInv, OthersOnly, Roles!Count
  <2> QED
    BY <1>4, <2>1, <2>2, GotoKeepsRoles DEF RolesInv, Roles!TypeOK, Roles!Count
<1>5. ASSUME NEW c \in Calls, Roles!Write(c)
      PROVE  RolesInv'
  <2>1. Roles!Goto(c, "idle")
    BY <1>5 DEF Roles!Write
  <2>2. call[c].new \in Roles!Roles
    BY DEF RolesInv, Roles!TypeOK, Roles!Operation
  <2>3. role' \in [Users -> Roles!Roles] /\ id' \in [Users -> Nat]
    BY <1>5, <2>2 DEF RolesInv, Roles!TypeOK, Roles!Write, Roles!Written, Roles!Roles
  <2> QED
    BY <1>5, <2>1, <2>3, GotoKeepsRoles DEF RolesInv, Roles!TypeOK, Roles!Write
<1>6. ASSUME NEW c \in Calls, Roles!Bootstrap(c)
      PROVE  RolesInv'
  <2> DEFINE r == [op |-> "boot", actor |-> Founder, row |-> 0, target |-> Founder,
                   id |-> id[Founder], new |-> "top"]
  <2>1. r \in Roles!Operation /\ r.op = "boot"
    BY DEF RolesInv, Roles!TypeOK, Roles!Operation, Roles!Ops, Roles!Roles
  <2>2. Roles!Start(c, "write", r)
    BY <1>6 DEF Roles!Bootstrap
  <2>3. /\ at' \in [Calls -> {"idle", "check", "target", "count", "write"}]
        /\ call' \in [Calls -> Roles!Operation]
        /\ started' \in 0..MaxRoleCalls
        /\ TransferPromotes'
        /\ OthersOnly'
    <3> HIDE DEF r
    <3> QED
      BY <2>1, <2>2, StartKeepsRoles
  <2> QED
    BY <1>6, <2>3 DEF RolesInv, Roles!TypeOK, Roles!Bootstrap
<1>7. CASE UNCHANGED Roles!vars
  BY <1>7 DEF RolesInv, Roles!TypeOK, TransferPromotes, OthersOnly, Roles!Target, Roles!vars
<1> QED
  BY <1>1, <1>2, <1>3, <1>4, <1>5, <1>6, <1>7 DEF Roles!Next

\* Only a write changes a role; one whose actor still holds the top role leaves a
\* holder behind: the successor, the actor, or whoever held it.
LEMMA WriteLeavesATop ==
  ASSUME RolesInv, NEW c \in Calls, Roles!Write(c), Roles!Tops # {}, role[call[c].actor] = "top"
  PROVE  Roles!Tops' # {}
<1>1. PICK u \in Users : role[u] = "top"
  BY DEF Roles!Tops
<1>2. call[c] \in Roles!Operation
  BY DEF RolesInv, Roles!TypeOK
<1>3. CASE ~Roles!Writable(c)
  BY <1>1, <1>3 DEF Roles!Write, Roles!Tops
<1>4. CASE Roles!Writable(c) /\ call[c].op \in {"add", "boot"}
  <2>1. u # Roles!Target(c)
    BY <1>1, <1>4 DEF Roles!Writable
  <2>2. role'[u] = "top"
    BY <1>1, <1>4, <2>1 DEF Roles!Write, Roles!Written, Roles!Demoted
  <2> QED
    BY <2>2 DEF Roles!Tops
<1>5. CASE Roles!Writable(c) /\ call[c].op = "transfer"
  <2>1. call[c].new = "top" /\ Roles!Target(c) \in Users
    BY <1>2, <1>5 DEF RolesInv, TransferPromotes, Roles!Target, Roles!Operation
  <2>2. role'[Roles!Target(c)] = "top"
    BY <1>5, <2>1 DEF Roles!Write, Roles!Written
  <2> QED
    BY <2>1, <2>2 DEF Roles!Tops
<1>6. CASE Roles!Writable(c) /\ call[c].op \in {"update", "remove"}
  <2>1. call[c].actor # Roles!Target(c) /\ call[c].actor \in Users
    BY <1>2, <1>6 DEF RolesInv, OthersOnly, Roles!Write, Roles!Operation
  <2>2. role'[call[c].actor] = "top"
    BY <1>6, <2>1 DEF Roles!Write, Roles!Written, Roles!Demoted
  <2> QED
    BY <2>1, <2>2 DEF Roles!Tops
<1> QED
  BY <1>2, <1>3, <1>4, <1>5, <1>6 DEF Roles!Operation, Roles!Ops

\* What the top role's end takes, for one step.
LEMMA LastTopStep == ASSUME RolesInv, [Roles!Next]_(Roles!vars) PROVE Roles!LastTopFalls
<1> SUFFICES ASSUME Roles!Tops # {}, Roles!Tops' = {}
             PROVE  \E c \in Calls : at[c] = "write" /\ at'[c] = "idle" /\ role[call[c].actor] # "top"
  BY DEF Roles!LastTopFalls
<1>1. role' # role
  BY DEF Roles!Tops
<1>2. PICK c \in Calls : Roles!Write(c)
  BY <1>1 DEF Roles!Next, Roles!Request, Roles!Check, Roles!ReadTarget, Roles!Count, Roles!Bootstrap, Roles!vars
<1>3. at[c] = "write" /\ at'[c] = "idle"
  BY <1>2 DEF Roles!Write, Roles!Goto, RolesInv, Roles!TypeOK
<1> QED
  BY <1>2, <1>3, WriteLeavesATop

\* auth-svc: every reachable state of a team is well typed, and a call past its checks
\* names somebody but its actor, or is a transfer that promotes its target.
THEOREM RolesAreTyped == Roles!Spec => []RolesInv
<1>1. Roles!Init => RolesInv
  BY RolesInit
<1>2. RolesInv /\ [Roles!Next]_(Roles!vars) => RolesInv'
  BY RolesNext
<1> QED
  BY <1>1, <1>2, PTL DEF Roles!Spec

\* auth-svc: for any team and any number of overlapping calls, ErrLastOwner and
\* ErrLastSuperAdmin (rbac.go:186-194, :247-255) fail only when the actor itself lost
\* the top role between its check and its write.
THEOREM LastTopFallsOnlyByRace == Roles!Spec => Roles!LastTopFallsToADemotedActor
<1>1. RolesInv /\ [Roles!Next]_(Roles!vars) => [Roles!LastTopFalls]_(Roles!vars)
  BY LastTopStep
<1> QED
  BY <1>1, RolesAreTyped, PTL DEF Roles!Spec, Roles!LastTopFallsToADemotedActor

\* The same where the services take turns.
THEOREM LastTopFallsInTurn == MCSpec => LastTopFallsToADemotedActor
<1> DEFINE I == focus = "roles" => RolesInv
           Falls == focus = "roles" => Roles!LastTopFalls
<1>1. MCInit => I
  BY FocusInit, RolesInit
<1>2. I /\ [MCNext]_allVars => I'
  BY FocusStep, RolesNext
<1>3. I /\ [MCNext]_allVars => [Falls]_allVars
  BY FocusStep, LastTopStep
<1> QED
  BY <1>1, <1>2, <1>3, PTL DEF MCSpec, LastTopFallsToADemotedActor

-----------------------------------------------------------------------------
(***************************************************************************)
(* gateway                                                                  *)
(***************************************************************************)

\* An answer under way that is older than the last eviction was there before it.
AnswersSpan ==
  \A g \in Gateways, r \in Requests :
    at[<<g, r>>] = "answered" /\ answer[<<g, r>>].v < evicted[g] => answer[<<g, r>>].spans

\* No gateway evicts after a change that is still to come.
ChangesAreMade == \A g \in Gateways : change[g] <= version /\ evicted[g] <= version

CacheInv == Cache!TypeOK /\ AnswersSpan /\ ChangesAreMade /\ Cache!EvictionCovers

LEMMA CacheInit == ASSUME Cache!Init PROVE CacheInv
<1>1. Cache!TypeOK
  BY ServicesAssumption DEF Cache!Init, Cache!TypeOK, Cache!Entries
<1> QED
  BY <1>1, ServicesAssumption
     DEF Cache!Init, CacheInv, AnswersSpan, ChangesAreMade, Cache!EvictionCovers

LEMMA CacheNext == ASSUME CacheInv, [Cache!Next]_(Cache!vars) PROVE CacheInv'
<1> USE ServicesAssumption DEF CacheInv, Cache!TypeOK, Cache!Entries, Cache!Empty
<1>1. ASSUME NEW g \in Gateways, NEW r \in Requests, Cache!Miss(g, r) PROVE CacheInv'
  BY <1>1 DEF Cache!Miss, AnswersSpan, ChangesAreMade, Cache!EvictionCovers
<1>2. ASSUME NEW g \in Gateways, NEW r \in Requests, Cache!Lookup(g, r) PROVE CacheInv'
  BY <1>2 DEF Cache!Lookup, AnswersSpan, ChangesAreMade, Cache!EvictionCovers
<1>3. ASSUME NEW g \in Gateways, NEW r \in Requests, Cache!Store(g, r) PROVE CacheInv'
  <2>1. /\ at[<<g, r>>] = "answered" /\ answer[<<g, r>>] \in Cache!Entries
        /\ entry' = [entry EXCEPT ![g] = answer[<<g, r>>]]
        /\ at' = [at EXCEPT ![<<g, r>>] = "idle"]
        /\ answer' = [answer EXCEPT ![<<g, r>>] = [v |-> 0, spans |-> FALSE]]
        /\ UNCHANGED <<kind, version, change, evicted>>
    BY <1>3 DEF Cache!Store
  <2>2. Cache!TypeOK'
    BY <2>1
  <2>3. AnswersSpan' /\ ChangesAreMade'
    BY <2>1 DEF AnswersSpan, ChangesAreMade
  <2>4. Cache!EvictionCovers'
    BY <2>1 DEF AnswersSpan, Cache!EvictionCovers
  <2> QED
    BY <2>2, <2>3, <2>4
<1>4. ASSUME NEW g \in Gateways, NEW r \in Requests, Cache!LookupFails(g, r) PROVE CacheInv'
  BY <1>4 DEF Cache!LookupFails, AnswersSpan, ChangesAreMade, Cache!EvictionCovers
<1>5. ASSUME NEW g \in Gateways, Cache!Change(g) PROVE CacheInv'
  BY <1>5 DEF Cache!Change, Cache!Changeable, AnswersSpan, ChangesAreMade, Cache!EvictionCovers
<1>6. ASSUME NEW g \in Gateways, Cache!Evict(g) PROVE CacheInv'
  <2>1. /\ change[g] > 0 /\ entry' = [entry EXCEPT ![g] = Cache!Empty]
        /\ evicted' = [evicted EXCEPT ![g] = change[g]] /\ change' = [change EXCEPT ![g] = 0]
        /\ UNCHANGED <<kind, version, at>>
    BY <1>6 DEF Cache!Evict, Cache!AfterEvict
  <2>2. \A q \in Gateways \X Requests :
          answer'[q] = IF q[1] = g /\ at[q] = "answered" THEN [answer[q] EXCEPT !.spans = TRUE] ELSE answer[q]
    BY <1>6 DEF Cache!Evict
  <2>3. Cache!TypeOK'
    <3>1. answer' \in [Gateways \X Requests -> Cache!Entries]
      BY <1>6 DEF Cache!Evict
    <3>2. entry' \in [Gateways -> Cache!Entries \cup {Cache!Empty}]
      <4> HIDE DEF Cache!Entries, Cache!Empty
      <4> QED
        BY <2>1
    <3>3. change' \in [Gateways -> 0..MaxChanges] /\ evicted' \in [Gateways -> 0..MaxChanges]
      BY <2>1
    <3> HIDE DEF Cache!Entries, Cache!Empty
    <3> QED
      BY <2>1, <3>1, <3>2, <3>3
  <2>4. AnswersSpan'
    <3> SUFFICES ASSUME NEW h \in Gateways, NEW r \in Requests,
                        at'[<<h, r>>] = "answered", answer'[<<h, r>>].v < evicted'[h]
                 PROVE  answer'[<<h, r>>].spans
      BY DEF AnswersSpan
    <3>1. <<h, r>> \in Gateways \X Requests /\ <<h, r>>[1] = h /\ answer[<<h, r>>] \in Cache!Entries
      OBVIOUS
    <3>2. CASE h = g
      <4>1. answer'[<<h, r>>] = [answer[<<h, r>>] EXCEPT !.spans = TRUE]
        BY <2>1, <2>2, <3>1, <3>2
      <4> QED
        BY <3>1, <4>1
    <3>3. CASE h # g
      <4>1. answer'[<<h, r>>] = answer[<<h, r>>] /\ evicted'[h] = evicted[h]
        BY <2>1, <2>2, <3>1, <3>3
      <4> QED
        BY <2>1, <4>1 DEF AnswersSpan
    <3> QED
      BY <3>2, <3>3
  <2>5. ChangesAreMade'
    BY <2>1 DEF ChangesAreMade
  <2>6. Cache!EvictionCovers'
    BY <2>1 DEF Cache!EvictionCovers
  <2> QED
    BY <2>3, <2>4, <2>5, <2>6
<1>7. ASSUME NEW g \in Gateways, Cache!Expire(g) PROVE CacheInv'
  BY <1>7 DEF Cache!Expire, AnswersSpan, ChangesAreMade, Cache!EvictionCovers
<1>8. CASE Cache!QuietChange
  BY <1>8 DEF Cache!QuietChange, Cache!Changeable, AnswersSpan, ChangesAreMade, Cache!EvictionCovers
<1>9. CASE UNCHANGED Cache!vars
  BY <1>9 DEF Cache!vars, AnswersSpan, ChangesAreMade, Cache!EvictionCovers
<1> QED
  BY <1>1, <1>2, <1>3, <1>4, <1>5, <1>6, <1>7, <1>8, <1>9 DEF Cache!Next, Cache!Load

\* gateway: however many replicas, requests and changes there are, what a replica
\* serves after the eviction of its own change (apitoken.Loader, authz.Loader) is
\* not older than that change, unless auth-svc had answered before the eviction.
THEOREM EvictionsCover == Cache!Spec => []Cache!EvictionCovers
<1>1. Cache!Init => CacheInv
  BY CacheInit
<1>2. CacheInv /\ [Cache!Next]_(Cache!vars) => CacheInv'
  BY CacheNext
<1>3. CacheInv => Cache!EvictionCovers
  BY DEF CacheInv
<1> QED
  BY <1>1, <1>2, <1>3, PTL DEF Cache!Spec

\* The same where the services take turns.
THEOREM EvictionsCoverInTurn == MCSpec => []EvictionCovers
<1> DEFINE I == focus = "cache" => CacheInv
<1>1. MCInit => I
  BY FocusInit, CacheInit
<1>2. I /\ [MCNext]_allVars => I'
  BY FocusStep, CacheNext
<1>3. I => EvictionCovers
  BY DEF EvictionCovers, CacheInv
<1> QED
  BY <1>1, <1>2, <1>3, PTL DEF MCSpec

-----------------------------------------------------------------------------
(***************************************************************************)
(* inventory-svc                                                            *)
(***************************************************************************)

\* A reservation that owes a warning is still going to find the stock low.
WillWarn(c) == (at[c] \in {"record", "check"} /\ call[c] = "reserved") \/ at[c] = "warn"
OwedWarningComes ==
  /\ owed \subseteq Calls /\ \A c \in owed : WillWarn(c)
  /\ owed # {} => available <= threshold

StockInv ==
  /\ at \in [Calls -> {"idle", "record", "check", "warn"}]
  /\ call \in [Calls -> {"none", "reserved", "released", "sold", "adjusted"}]
  /\ available \in Int /\ threshold \in Int
  /\ OwedWarningComes

LEMMA StockParams == Levels \subseteq Nat /\ Thresholds \subseteq Int /\ Quantities \subseteq Nat
  BY ServicesAssumption

LEMMA StockInit == ASSUME Stock!Init PROVE StockInv
  BY StockParams DEF Stock!Init, StockInv, OwedWarningComes

\* A call's step leaves the others where they are.
LEMMA StockNext == ASSUME StockInv, [Stock!Next]_(Stock!vars) PROVE StockInv'
<1> USE DEF StockInv, OwedWarningComes, WillWarn
<1>1. ASSUME NEW c \in Calls, NEW op \in {"reserved", "released", "sold", "adjusted"}, NEW a \in Int, NEW r,
             NEW t \in Int, Stock!Start(c, op, a, r, t)
      PROVE  StockInv'
  BY <1>1 DEF Stock!Start
<1>2. ASSUME NEW c \in Calls, Stock!RecordMovement(c) PROVE StockInv'
  BY <1>2 DEF Stock!RecordMovement, Stock!AfterRecord
<1>3. ASSUME NEW c \in Calls, Stock!CheckLowStock(c) PROVE StockInv'
  BY <1>3 DEF Stock!CheckLowStock, Stock!IsLow
<1>4. ASSUME NEW c \in Calls, Stock!PublishLowStock(c) PROVE StockInv'
  BY <1>4 DEF Stock!PublishLowStock
<1>5. ASSUME NEW c \in Calls, Stock!Abandon(c) PROVE StockInv'
  BY <1>5 DEF Stock!Abandon
<1>6. CASE UNCHANGED Stock!vars
  BY <1>6 DEF Stock!vars
<1>7. CASE Stock!Next
  <2>1. ASSUME NEW c \in Calls, Stock!ReserveStock(c) PROVE StockInv'
    <3>1. PICK n \in Quantities : Stock!Start(c, "reserved", available - n, reserved + n, threshold)
      BY <2>1 DEF Stock!ReserveStock
    <3> QED
      BY <1>1, <3>1, StockParams
  <2>2. ASSUME NEW c \in Calls, Stock!ReleaseStock(c) PROVE StockInv'
    <3>1. PICK n \in Quantities : Stock!Start(c, "released", available + n, reserved - n, threshold)
      BY <2>2 DEF Stock!ReleaseStock
    <3> QED
      BY <1>1, <3>1, StockParams
  <2>3. ASSUME NEW c \in Calls, Stock!ConfirmSold(c) PROVE StockInv'
    BY <1>1, <2>3 DEF Stock!ConfirmSold
  <2>4. ASSUME NEW c \in Calls, Stock!UpdateStock(c) PROVE StockInv'
    <3>1. PICK n \in Levels, t \in Thresholds : Stock!Start(c, "adjusted", n, reserved, t)
      BY <2>4 DEF Stock!UpdateStock
    <3> QED
      BY <1>1, <3>1, StockParams
  <2> QED
    BY <1>2, <1>3, <1>4, <1>5, <1>7, <2>1, <2>2, <2>3, <2>4 DEF Stock!Next
<1> QED
  BY <1>6, <1>7

LEMMA StockPromises == ASSUME StockInv PROVE Stock!LowStockIsAnnounced
  BY DEF StockInv, OwedWarningComes, WillWarn, Stock!LowStockIsAnnounced

\* inventory-svc: whatever else runs between the three transactions of ReserveStock,
\* a reservation that takes the stock to the threshold returns with a warning, unless
\* the stock rises above the threshold, the threshold is lowered below the stock, or
\* a later step of the same reservation is lost.
THEOREM LowStockIsAlwaysAnnounced == Stock!Spec => []Stock!LowStockIsAnnounced
<1>1. Stock!Init => StockInv
  BY StockInit
<1>2. StockInv /\ [Stock!Next]_(Stock!vars) => StockInv'
  BY StockNext
<1>3. StockInv => Stock!LowStockIsAnnounced
  BY StockPromises
<1> QED
  BY <1>1, <1>2, <1>3, PTL DEF Stock!Spec

\* The same where the services take turns.
THEOREM LowStockIsAnnouncedInTurn == MCSpec => []LowStockIsAnnounced
<1> DEFINE I == focus = "stock" => StockInv
<1>1. MCInit => I
  BY FocusInit, StockInit
<1>2. I /\ [MCNext]_allVars => I'
  BY FocusStep, StockNext
<1>3. I => LowStockIsAnnounced
  BY StockPromises DEF LowStockIsAnnounced
<1> QED
  BY <1>1, <1>2, <1>3, PTL DEF MCSpec

-----------------------------------------------------------------------------
(***************************************************************************)
(* inquiry-svc                                                              *)
(***************************************************************************)

Sides == {"buyer", "seller"}
ThreadStates == {"none", "open", "closed"}
ThreadMessages ==
  [by : Sides, op : {"none", "create", "post", "close", "read"}, saw : ThreadStates, met : ThreadStates,
   read : BOOLEAN]
InquiryCalls == [op : {"none", "create", "post", "close", "read"}, by : Sides, saw : ThreadStates]

InquiryTypes ==
  /\ thread \in ThreadStates
  /\ messages \in Seq(ThreadMessages)
  /\ at \in [Calls -> {"idle", "write"}]
  /\ call \in [Calls -> InquiryCalls]

\* A thread that a call has read is still there when the call writes; a message is
\* only posted by a call that read the thread as open.
CallsReadThread ==
  \A c \in Calls :
    /\ at[c] = "write" /\ call[c].op = "post" => call[c].saw = "open"
    /\ at[c] = "write" /\ call[c].op \in {"post", "close"} => thread # "none"

InquiryInv == InquiryTypes /\ CallsReadThread /\ Inquiry!ClosedThreadIsQuiet

LEMMA InquiryInit == ASSUME Inquiry!Init PROVE InquiryInv
  BY DEF Inquiry!Init, InquiryInv, InquiryTypes, CallsReadThread, Inquiry!ClosedThreadIsQuiet,
     Inquiry!NoCall, InquiryCalls, Sides, ThreadStates, ThreadMessages

\* A call that returns leaves the others as they are.
LEMMA InquiryReturn ==
  ASSUME InquiryTypes, CallsReadThread, NEW c \in Calls, Inquiry!Return(c),
         thread' \in ThreadStates, thread # "none" => thread' # "none"
  PROVE  /\ at' \in [Calls -> {"idle", "write"}]
         /\ call' \in [Calls -> InquiryCalls]
         /\ CallsReadThread'
<1>1. Inquiry!NoCall \in InquiryCalls
  BY DEF Inquiry!NoCall, InquiryCalls, Sides, ThreadStates
<1> QED
  BY <1>1 DEF InquiryTypes, CallsReadThread, Inquiry!Return

\* A message that is sent is one more, with what its call saw and the thread met.
LEMMA InquiryAppend ==
  ASSUME InquiryInv, NEW c \in Calls, Inquiry!AppendMessage(c), thread' \in ThreadStates \ {"none"},
         thread = "closed" => call[c].saw = "open" \/ call[c].op = "create"
  PROVE  messages' \in Seq(ThreadMessages) /\ Inquiry!ClosedThreadIsQuiet'
<1> DEFINE m == Inquiry!Message(c)
<1>1. call[c] \in InquiryCalls /\ thread \in ThreadStates /\ messages \in Seq(ThreadMessages)
  BY DEF InquiryInv, InquiryTypes
<1>2. /\ m \in ThreadMessages
      /\ m.met = thread /\ m.saw = call[c].saw /\ m.op = call[c].op
  BY <1>1 DEF Inquiry!Message, ThreadMessages, InquiryCalls
<1> HIDE DEF m
<1>3. messages' = Append(messages, m)
  BY DEF Inquiry!AppendMessage, m
<1>4. /\ messages' \in Seq(ThreadMessages) /\ Len(messages') = Len(messages) + 1
      /\ DOMAIN messages = 1..Len(messages) /\ DOMAIN messages' = 1..(Len(messages) + 1)
      /\ Len(messages) \in Nat
      /\ \A k \in DOMAIN messages : messages'[k] = messages[k]
      /\ messages'[Len(messages) + 1] = m
  BY <1>1, <1>2, <1>3
<1>5. messages' # << >>
  BY <1>4
<1>6. \A k \in DOMAIN messages' :
        messages'[k].met = "closed" => messages'[k].saw = "open" \/ messages'[k].op = "create"
  BY <1>2, <1>4 DEF InquiryInv, Inquiry!ClosedThreadIsQuiet
<1> QED
  BY <1>4, <1>5, <1>6 DEF Inquiry!ClosedThreadIsQuiet, ThreadStates

LEMMA InquiryNext == ASSUME InquiryInv, [Inquiry!Next]_(Inquiry!vars) PROVE InquiryInv'
<1>1. ASSUME NEW c \in Calls, NEW op \in {"create", "post", "close", "read"}, NEW by \in Sides,
             Inquiry!Load(c, op, by), op = "post" => thread = "open", op = "close" => thread # "none"
      PROVE  InquiryInv'
  <2>1. InquiryTypes'
    BY <1>1 DEF Inquiry!Load, InquiryInv, InquiryTypes, InquiryCalls
  <2>2. CallsReadThread'
    BY <1>1 DEF Inquiry!Load, InquiryInv, InquiryTypes, CallsReadThread
  <2> QED
    BY <1>1, <2>1, <2>2 DEF Inquiry!Load, InquiryInv, Inquiry!ClosedThreadIsQuiet
<1>2. ASSUME NEW c \in Calls, Inquiry!WriteCreation(c) PROVE InquiryInv'
  <2>1. thread' \in ThreadStates /\ (thread # "none" => thread' # "none")
    BY <1>2 DEF Inquiry!WriteCreation, InquiryInv, InquiryTypes, ThreadStates
  <2>2. CASE Inquiry!LostRace(c)
    <3>1. UNCHANGED <<thread, messages>> /\ Inquiry!Return(c)
      BY <1>2, <2>2 DEF Inquiry!WriteCreation
    <3> QED
      BY <2>1, <3>1, InquiryReturn DEF InquiryInv, InquiryTypes, Inquiry!ClosedThreadIsQuiet
  <2>3. CASE ~Inquiry!LostRace(c)
    <3>1. /\ Inquiry!AppendMessage(c) /\ Inquiry!Return(c) /\ call[c].op = "create"
          /\ thread' = IF thread = "none" THEN "open" ELSE thread
      BY <1>2, <2>3 DEF Inquiry!WriteCreation
    <3>2. thread' \in ThreadStates \ {"none"}
      BY <2>1, <3>1
    <3> QED
      BY <2>1, <3>1, <3>2, InquiryReturn, InquiryAppend DEF InquiryInv, InquiryTypes
  <2> QED
    BY <2>2, <2>3
<1>3. ASSUME NEW c \in Calls, Inquiry!WritePost(c) PROVE InquiryInv'
  <2>1. /\ Inquiry!AppendMessage(c) /\ Inquiry!Return(c) /\ thread' = thread
        /\ thread \in ThreadStates \ {"none"} /\ call[c].saw = "open"
    BY <1>3 DEF Inquiry!WritePost, InquiryInv, InquiryTypes, CallsReadThread
  <2> QED
    BY <2>1, InquiryReturn, InquiryAppend DEF InquiryInv, InquiryTypes
<1>4. ASSUME NEW c \in Calls, Inquiry!Close(c) PROVE InquiryInv'
  <2>1. /\ messages' = messages /\ Inquiry!Return(c) /\ thread' = "closed" /\ thread # "none"
    BY <1>4 DEF Inquiry!Close, InquiryInv, InquiryTypes, CallsReadThread
  <2> QED
    BY <2>1, InquiryReturn DEF InquiryInv, InquiryTypes, ThreadStates, Inquiry!ClosedThreadIsQuiet
<1>5. ASSUME NEW c \in Calls, Inquiry!StampRead(c) PROVE InquiryInv'
  <2>1. /\ Inquiry!Return(c) /\ thread' = thread
        /\ messages' = [k \in DOMAIN messages |->
             IF messages[k].by # call[c].by THEN [messages[k] EXCEPT !.read = TRUE] ELSE messages[k]]
    BY <1>5 DEF Inquiry!StampRead
  <2>2. /\ messages \in Seq(ThreadMessages) /\ DOMAIN messages = 1..Len(messages) /\ Len(messages) \in Nat
        /\ \A k \in DOMAIN messages : messages[k] \in ThreadMessages
    BY DEF InquiryInv, InquiryTypes
  <2>3. \A k \in DOMAIN messages :
          /\ messages'[k] \in ThreadMessages
          /\ messages'[k].met = messages[k].met /\ messages'[k].saw = messages[k].saw
          /\ messages'[k].op = messages[k].op
    BY <2>1, <2>2 DEF ThreadMessages
  <2>4. messages' \in [1..Len(messages) -> ThreadMessages]
    BY <2>1, <2>2, <2>3
  <2>5. /\ messages' \in Seq(ThreadMessages) /\ Len(messages') = Len(messages)
        /\ messages' = << >> <=> messages = << >>
    BY <2>2, <2>4
  <2>6. Inquiry!ClosedThreadIsQuiet'
    BY <2>1, <2>3, <2>4, <2>5 DEF InquiryInv, Inquiry!ClosedThreadIsQuiet
  <2> QED
    BY <2>1, <2>5, <2>6, InquiryReturn DEF InquiryInv, InquiryTypes
<1>6. ASSUME NEW c \in Calls, Inquiry!Fail(c) PROVE InquiryInv'
  BY <1>6, InquiryReturn DEF Inquiry!Fail, InquiryInv, InquiryTypes, Inquiry!ClosedThreadIsQuiet
<1>7. CASE UNCHANGED Inquiry!vars
  BY <1>7 DEF Inquiry!vars, InquiryInv, InquiryTypes, CallsReadThread, Inquiry!ClosedThreadIsQuiet
<1>8. CASE Inquiry!Next
  BY <1>1, <1>2, <1>3, <1>4, <1>5, <1>6, <1>8
     DEF Inquiry!Next, Inquiry!CreateInquiry, Inquiry!PostMessage, Inquiry!Postable,
         Inquiry!CloseInquiry, Inquiry!MarkRead, Inquiry!Parties, Sides
<1> QED
  BY <1>7, <1>8

\* inquiry-svc: however many calls overlap, no race of creations leaves a thread
\* without its first message, and a closed thread only gains what was read as open
\* or comes through CreateInquiry.
THEOREM ClosedThreadsAreQuiet == Inquiry!Spec => []Inquiry!ClosedThreadIsQuiet
<1>1. Inquiry!Init => InquiryInv
  BY InquiryInit
<1>2. InquiryInv /\ [Inquiry!Next]_(Inquiry!vars) => InquiryInv'
  BY InquiryNext
<1>3. InquiryInv => Inquiry!ClosedThreadIsQuiet
  BY DEF InquiryInv
<1> QED
  BY <1>1, <1>2, <1>3, PTL DEF Inquiry!Spec

\* The same where the services take turns.
THEOREM ClosedThreadsAreQuietInTurn == MCSpec => []ClosedThreadIsQuiet
<1> DEFINE I == focus = "inquiry" => InquiryInv
<1>1. MCInit => I
  BY FocusInit, InquiryInit
<1>2. I /\ [MCNext]_allVars => I'
  BY FocusStep, InquiryNext
<1>3. I => ClosedThreadIsQuiet
  BY DEF ClosedThreadIsQuiet, InquiryInv
<1> QED
  BY <1>1, <1>2, <1>3, PTL DEF MCSpec

-----------------------------------------------------------------------------
(***************************************************************************)
(* catalog-svc and the copies of its products                               *)
(***************************************************************************)

ProductStates == Catalog!Statuses \cup {"absent"}
Products == [status : ProductStates, name : Int]
PriceLists == [Skus -> SkuPrices \cup {0}]
Writes == {"create", "update", "status", "newsku", "sku"}
ProductEvents ==
  [type : {"upserted", "deleted"}, status : ProductStates, name : Int,
   price : {Catalog!Cheapest(p) : p \in PriceLists}]
CatalogCalls ==
  [op : Writes \cup {"none"}, skus : PriceLists, sku : Skus \cup {Catalog!NoCall.sku},
   value : SkuPrices \cup {0}, status : Catalog!Statuses, existing : Products, event : ProductEvents \cup {Catalog!NoEvent},
   overlapped : BOOLEAN]

CatalogTypes ==
  /\ product \in Products /\ price \in PriceLists
  /\ at \in [Calls -> {"idle", "sku", "build", "commit"}]
  /\ call \in [Calls -> CatalogCalls]
  /\ sent \in Seq(ProductEvents)
  /\ stale \in BOOLEAN

\* A call under way knows what it writes; an event is only committed once it is
\* built; and what a call has read is what is there until another one commits.
CallsAreFresh ==
  \A c \in Calls :
    /\ at[c] # "idle" => call[c].op \in Writes
    /\ at[c] = "sku" => call[c].op = "sku"
    /\ at[c] = "commit" => call[c].event \in ProductEvents
    /\ at[c] # "idle" /\ ~call[c].overlapped =>
         /\ call[c].existing = product
         /\ at[c] = "commit" => call[c].event = Catalog!Payload(c)

\* A price that was committed on the side and has yet to be announced.
Unannounced == \E c \in Calls : call[c].op = "sku" /\ at[c] \in {"build", "commit"}

Tells(e) ==
  /\ e.status = product.status /\ e.name = product.name /\ e.price = Catalog!Cheapest(price)
  /\ e.type = "deleted" => product.status = "archived"

\* The newest event tells the present state of the catalog.
NewestTells ==
  /\ sent = << >> => product = Catalog!Absent
  /\ sent # << >> /\ ~stale /\ ~Unannounced => Tells(sent[Len(sent)])

Image(e) ==
  IF e.type = "deleted" THEN Catalog!NoRow ELSE [status |-> e.status, name |-> e.name, price |-> e.price]

\* The subscriber's row is what the event applied last makes of it.
IndexIsImage ==
  /\ queue \subseteq DOMAIN sent
  /\ last = 0 => index = Catalog!NoRow
  /\ last # 0 => last \in DOMAIN sent /\ index = Image(sent[last])

CatalogInv == CatalogTypes /\ CallsAreFresh /\ NewestTells /\ IndexIsImage

LEMMA NoCatalogCall ==
  Catalog!NoCall \in CatalogCalls /\ Catalog!NoCall.op = "none" /\ Catalog!Absent \in Products
  BY DEF Catalog!NoCall, Catalog!Absent, CatalogCalls, Products, ProductStates, Catalog!Statuses, Writes,
         PriceLists

LEMMA CatalogInit == ASSUME Catalog!Init PROVE CatalogInv
<1>1. CatalogTypes
  <2>1. price \in PriceLists /\ call \in [Calls -> CatalogCalls]
    BY NoCatalogCall DEF Catalog!Init, PriceLists
  <2>2. product \in Products /\ stale \in BOOLEAN
    BY NoCatalogCall DEF Catalog!Init
  <2>4. sent \in Seq(ProductEvents)
    BY DEF Catalog!Init
  <2>3. at \in [Calls -> {"idle", "sku", "build", "commit"}]
    BY DEF Catalog!Init
  <2> QED
    BY <2>1, <2>2, <2>3, <2>4 DEF CatalogTypes
<1>2. CallsAreFresh /\ NewestTells /\ IndexIsImage
  BY DEF Catalog!Init, CallsAreFresh, NewestTells, IndexIsImage
<1> QED
  BY <1>1, <1>2 DEF CatalogInv

\* What a transaction leaves and announces is well-formed.
LEMMA CatalogAfter ==
  ASSUME CatalogTypes, NEW c \in Calls, call[c].op \in Writes
  PROVE  /\ Catalog!ProductAfter(c) \in Products
         /\ Catalog!PriceAfter(c) \in PriceLists
         /\ Catalog!Payload(c) \in ProductEvents
<1>1. /\ call[c] \in CatalogCalls /\ product \in Products /\ price \in PriceLists
      /\ call[c].existing \in Products /\ call[c].status \in Catalog!Statuses
      /\ call[c].value \in SkuPrices \cup {0} /\ call[c].skus \in PriceLists
  BY DEF CatalogTypes, CatalogCalls
<1>2. Catalog!ProductAfter(c) \in Products
  BY <1>1 DEF Catalog!ProductAfter, Products, ProductStates, Catalog!Statuses, Writes
<1>3. Catalog!PriceAfter(c) \in PriceLists
  BY <1>1 DEF Catalog!PriceAfter, PriceLists
<1>4. Catalog!Payload(c) \in ProductEvents
  BY <1>1, <1>2, <1>3 DEF Catalog!Payload, Catalog!AnnouncedPrice, ProductEvents, Products
<1> QED
  BY <1>2, <1>3, <1>4

\* The event of a call that nobody overlapped tells what the call leaves.
LEMMA PayloadTells ==
  ASSUME CatalogTypes, NEW c \in Calls, call[c].op \in Writes, call[c].existing = product
  PROVE  /\ Catalog!Payload(c).status = Catalog!ProductAfter(c).status
         /\ Catalog!Payload(c).name = Catalog!ProductAfter(c).name
         /\ Catalog!Payload(c).price = Catalog!Cheapest(Catalog!PriceAfter(c))
         /\ Catalog!Payload(c).type = "deleted" => Catalog!ProductAfter(c).status = "archived"
<1>1. call[c] \in CatalogCalls /\ product \in Products
  BY DEF CatalogTypes
<1> QED
  BY <1>1 DEF Catalog!Payload, Catalog!AnnouncedPrice, Catalog!ProductAfter, Products, Writes

\* A payload only looks at the tables and at what its call was given and read.
LEMMA PayloadLocal ==
  ASSUME NEW c \in Calls, product' = product, price' = price,
         call'[c].op = call[c].op, call'[c].skus = call[c].skus,
         call'[c].sku = call[c].sku, call'[c].value = call[c].value,
         call'[c].status = call[c].status, call'[c].existing = call[c].existing
  PROVE  Catalog!Payload(c)' = Catalog!Payload(c)
  BY DEF Catalog!Payload, Catalog!AnnouncedPrice, Catalog!ProductAfter, Catalog!PriceAfter

\* What Outdated leaves of the calls.
LEMMA OutdatedCalls ==
  ASSUME CatalogTypes, NEW c \in Calls
  PROVE  /\ Catalog!Outdated(call, c) \in [Calls -> CatalogCalls]
         /\ Catalog!Outdated(call, c)[c] = call[c]
         /\ \A d \in Calls :
              /\ Catalog!Outdated(call, c)[d].op = call[d].op
              /\ Catalog!Outdated(call, c)[d].event = call[d].event
              /\ d # c /\ at[d] # "idle" => Catalog!Outdated(call, c)[d].overlapped
  BY DEF CatalogTypes, Catalog!Outdated, CatalogCalls

LEMMA CatalogBegin ==
  ASSUME CatalogInv, NEW c \in Calls, NEW request \in CatalogCalls, NEW p \in {"sku", "build"},
         request.op \in Writes, request.op = "sku" <=> p = "sku", Catalog!Begin(c, request, p)
  PROVE  CatalogInv'
<1> DEFINE new == [request EXCEPT !.existing = product]
<1>1. /\ new \in CatalogCalls /\ new.op = request.op /\ new.existing = product
  BY DEF CatalogInv, CatalogTypes, CatalogCalls
<1> HIDE DEF new
<1>2. /\ at[c] = "idle" /\ call' = [call EXCEPT ![c] = new] /\ at' = [at EXCEPT ![c] = p]
      /\ UNCHANGED <<product, price, sent, queue, index, last, stale>>
  BY DEF Catalog!Begin, new
<1>3. /\ call'[c] = new /\ at'[c] = p
      /\ \A d \in Calls : d # c => call'[d] = call[d] /\ at'[d] = at[d]
  BY <1>2 DEF CatalogInv, CatalogTypes
<1>4. CatalogTypes'
  BY <1>1, <1>2 DEF CatalogInv, CatalogTypes
<1>5. CallsAreFresh'
  <2> SUFFICES ASSUME NEW d \in Calls
               PROVE  /\ at'[d] # "idle" => call'[d].op \in Writes
                      /\ at'[d] = "sku" => call'[d].op = "sku"
                      /\ at'[d] = "commit" => call'[d].event \in ProductEvents
                      /\ at'[d] # "idle" /\ ~call'[d].overlapped =>
                           /\ call'[d].existing = product'
                           /\ at'[d] = "commit" => call'[d].event = Catalog!Payload(d)'
    BY DEF CallsAreFresh
  <2>1. CASE d = c
    BY <1>1, <1>2, <1>3, <2>1
  <2>2. CASE d # c
    BY <1>2, <1>3, <2>2, PayloadLocal DEF CatalogInv, CallsAreFresh
  <2> QED
    BY <2>1, <2>2
<1>6. Unannounced => Unannounced'
  BY <1>2, <1>3 DEF Unannounced
<1>7. NewestTells'
  BY <1>2, <1>6 DEF CatalogInv, NewestTells, Tells
<1>8. IndexIsImage'
  BY <1>2 DEF CatalogInv, IndexIsImage
<1> QED
  BY <1>4, <1>5, <1>7, <1>8 DEF CatalogInv

LEMMA CatalogWriteSku == ASSUME CatalogInv, NEW c \in Calls, Catalog!WriteSku(c) PROVE CatalogInv'
<1>1. /\ at[c] = "sku" /\ call' = Catalog!Outdated(call, c) /\ at' = [at EXCEPT ![c] = "build"]
      /\ price' = [price EXCEPT ![call[c].sku] = call[c].value]
      /\ UNCHANGED <<product, sent, queue, index, last, stale>>
  BY DEF Catalog!WriteSku
<1>2. CatalogTypes /\ CallsAreFresh /\ NewestTells /\ IndexIsImage
  BY DEF CatalogInv
<1>3. CatalogTypes'
  <2>1. call[c].value \in SkuPrices \cup {0}
    BY <1>2 DEF CatalogTypes, CatalogCalls
  <2>2. price' \in PriceLists
    BY <1>1, <1>2, <2>1 DEF CatalogTypes, PriceLists
  <2> QED
    BY <1>1, <1>2, <2>2, OutdatedCalls DEF CatalogTypes
<1>4. /\ at'[c] = "build" /\ call'[c] = call[c] /\ call[c].op = "sku"
      /\ \A d \in Calls :
           /\ call'[d].op = call[d].op /\ call'[d].event = call[d].event
           /\ d # c => at'[d] = at[d] /\ (at[d] # "idle" => call'[d].overlapped)
  BY <1>1, <1>2, OutdatedCalls DEF CatalogTypes, CallsAreFresh
<1>5. CallsAreFresh'
  <2> SUFFICES ASSUME NEW d \in Calls
               PROVE  /\ at'[d] # "idle" => call'[d].op \in Writes
                      /\ at'[d] = "sku" => call'[d].op = "sku"
                      /\ at'[d] = "commit" => call'[d].event \in ProductEvents
                      /\ at'[d] # "idle" /\ ~call'[d].overlapped =>
                           /\ call'[d].existing = product'
                           /\ at'[d] = "commit" => call'[d].event = Catalog!Payload(d)'
    BY DEF CallsAreFresh
  <2>1. CASE d = c
    BY <1>1, <1>2, <1>4, <2>1 DEF CallsAreFresh, Writes
  <2>2. CASE d # c
    BY <1>2, <1>4, <2>2 DEF CallsAreFresh
  <2> QED
    BY <2>1, <2>2
<1>6. Unannounced'
  BY <1>4 DEF Unannounced
<1> QED
  BY <1>1, <1>2, <1>3, <1>5, <1>6 DEF CatalogInv, NewestTells, IndexIsImage

LEMMA CatalogBuild == ASSUME CatalogInv, NEW c \in Calls, Catalog!Build(c) PROVE CatalogInv'
<1>1. /\ at[c] = "build" /\ at' = [at EXCEPT ![c] = "commit"]
      /\ call' = [call EXCEPT ![c].event = Catalog!Payload(c)]
      /\ UNCHANGED <<product, price, sent, queue, index, last, stale>>
  BY DEF Catalog!Build
<1>2. CatalogTypes /\ CallsAreFresh /\ NewestTells /\ IndexIsImage
  BY DEF CatalogInv
<1>3. call[c] \in CatalogCalls /\ call[c].op \in Writes /\ Catalog!Payload(c) \in ProductEvents
  BY <1>1, <1>2, CatalogAfter DEF CatalogTypes, CallsAreFresh
<1>4. /\ at'[c] = "commit" /\ call'[c] = [call[c] EXCEPT !.event = Catalog!Payload(c)]
      /\ \A d \in Calls : d # c => call'[d] = call[d] /\ at'[d] = at[d]
  BY <1>1, <1>2 DEF CatalogTypes
<1>5. /\ call'[c] \in CatalogCalls /\ call'[c].event = Catalog!Payload(c)
      /\ call'[c].op = call[c].op /\ call'[c].skus = call[c].skus
      /\ call'[c].sku = call[c].sku /\ call'[c].value = call[c].value
      /\ call'[c].status = call[c].status /\ call'[c].existing = call[c].existing
      /\ call'[c].overlapped = call[c].overlapped
  BY <1>3, <1>4 DEF CatalogCalls
<1>6. CatalogTypes'
  BY <1>1, <1>2, <1>5 DEF CatalogTypes
<1>7. \A d \in Calls : Catalog!Payload(d)' = Catalog!Payload(d)
  <2> TAKE d \in Calls
  <2>1. CASE d = c
    BY <1>1, <1>5, <2>1, PayloadLocal
  <2>2. CASE d # c
    BY <1>1, <1>4, <2>2, PayloadLocal
  <2> QED
    BY <2>1, <2>2
<1>8. CallsAreFresh'
  BY <1>1, <1>2, <1>3, <1>4, <1>5, <1>7 DEF CallsAreFresh
<1>9. Unannounced => Unannounced'
  BY <1>1, <1>4, <1>5 DEF Unannounced
<1> QED
  BY <1>1, <1>2, <1>6, <1>8, <1>9 DEF CatalogInv, NewestTells, Tells, IndexIsImage

LEMMA CatalogFail == ASSUME CatalogInv, NEW c \in Calls, Catalog!Fail(c) PROVE CatalogInv'
<1>1. /\ at[c] # "idle" /\ stale' = (stale \/ (call[c].op = "sku" /\ at[c] # "sku"))
      /\ call' = [call EXCEPT ![c] = Catalog!NoCall] /\ at' = [at EXCEPT ![c] = "idle"]
      /\ UNCHANGED <<product, price, sent, queue, index, last>>
  BY DEF Catalog!Fail
<1>2. CatalogTypes /\ CallsAreFresh /\ NewestTells /\ IndexIsImage
  BY DEF CatalogInv
<1>3. /\ at'[c] = "idle" /\ call'[c] = Catalog!NoCall
      /\ \A d \in Calls : d # c => call'[d] = call[d] /\ at'[d] = at[d]
  BY <1>1, <1>2 DEF CatalogTypes
<1>4. CatalogTypes'
  BY <1>1, <1>2, NoCatalogCall DEF CatalogTypes
<1>5. CallsAreFresh'
  BY <1>1, <1>2, <1>3, PayloadLocal DEF CallsAreFresh
<1>6. ~stale' /\ ~Unannounced' => ~stale /\ ~Unannounced
  BY <1>1, <1>3 DEF Unannounced
<1> QED
  BY <1>1, <1>2, <1>4, <1>5, <1>6 DEF CatalogInv, NewestTells, Tells, IndexIsImage

LEMMA CatalogCommit == ASSUME CatalogInv, NEW c \in Calls, Catalog!Commit(c) PROVE CatalogInv'
<1> DEFINE e == call[c].event
<1>1. /\ at[c] = "commit" /\ at' = [at EXCEPT ![c] = "idle"]
      /\ call' = [Catalog!Outdated(call, c) EXCEPT ![c] = Catalog!NoCall]
      /\ product' = Catalog!ProductAfter(c) /\ price' = Catalog!PriceAfter(c)
      /\ sent' = Append(sent, e) /\ queue' = queue \cup {Len(sent) + 1}
      /\ stale' = call[c].overlapped /\ UNCHANGED <<index, last>>
  BY DEF Catalog!Commit
<1>2. CatalogTypes /\ CallsAreFresh /\ NewestTells /\ IndexIsImage
  BY DEF CatalogInv
<1>3. call[c] \in CatalogCalls /\ call[c].op \in Writes /\ e \in ProductEvents
  BY <1>1, <1>2 DEF CatalogTypes, CallsAreFresh
<1>4. /\ at'[c] = "idle"
      /\ \A d \in Calls : d # c =>
           /\ at'[d] = at[d] /\ call'[d].op = call[d].op /\ call'[d].event = call[d].event
           /\ at[d] # "idle" => call'[d].overlapped
  BY <1>1, <1>2, OutdatedCalls DEF CatalogTypes
<1>5. /\ sent' \in Seq(ProductEvents) /\ Len(sent) \in Nat /\ Len(sent') = Len(sent) + 1
      /\ DOMAIN sent = 1..Len(sent) /\ DOMAIN sent' = 1..(Len(sent) + 1)
      /\ sent'[Len(sent) + 1] = e /\ \A k \in DOMAIN sent : sent'[k] = sent[k]
  <2> HIDE DEF e
  <2> QED
    BY <1>1, <1>2, <1>3 DEF CatalogTypes
<1>6. CatalogTypes'
  <2>1. product' \in Products /\ price' \in PriceLists /\ stale' \in BOOLEAN
    BY <1>1, <1>2, <1>3, CatalogAfter DEF CatalogCalls
  <2>2. call' \in [Calls -> CatalogCalls] /\ at' \in [Calls -> {"idle", "sku", "build", "commit"}]
    BY <1>1, <1>2, OutdatedCalls, NoCatalogCall DEF CatalogTypes
  <2> QED
    BY <1>5, <2>1, <2>2 DEF CatalogTypes
<1>7. CallsAreFresh'
  <2> SUFFICES ASSUME NEW d \in Calls
               PROVE  /\ at'[d] # "idle" => call'[d].op \in Writes
                      /\ at'[d] = "sku" => call'[d].op = "sku"
                      /\ at'[d] = "commit" => call'[d].event \in ProductEvents
                      /\ at'[d] # "idle" /\ ~call'[d].overlapped =>
                           /\ call'[d].existing = product'
                           /\ at'[d] = "commit" => call'[d].event = Catalog!Payload(d)'
    BY DEF CallsAreFresh
  <2>1. CASE d = c
    BY <1>4, <2>1
  <2>2. CASE d # c
    BY <1>2, <1>4, <2>2 DEF CallsAreFresh
  <2> QED
    BY <2>1, <2>2
<1>8. NewestTells'
  <2>1. sent' # << >>
    BY <1>5
  <2>2. ASSUME ~stale' PROVE Tells(sent[Len(sent)])'
    <3>1. call[c].existing = product /\ e = Catalog!Payload(c)
      BY <1>1, <1>2, <2>2 DEF CallsAreFresh
    <3> HIDE DEF e
    <3>2. /\ e.status = product'.status /\ e.name = product'.name
          /\ e.price = Catalog!Cheapest(price')
          /\ e.type = "deleted" => product'.status = "archived"
      BY <1>1, <1>2, <1>3, <3>1, PayloadTells
    <3>3. sent'[Len(sent')] = e
      BY <1>5
    <3>4. Catalog!Cheapest(price)' = Catalog!Cheapest(price')
      BY DEF Catalog!Cheapest
    <3> QED
      BY <3>2, <3>3, <3>4 DEF Tells
  <2> QED
    BY <2>1, <2>2 DEF NewestTells
<1>9. IndexIsImage'
  BY <1>1, <1>2, <1>5 DEF IndexIsImage, Image
<1> QED
  BY <1>6, <1>7, <1>8, <1>9 DEF CatalogInv

LEMMA CatalogDeliver == ASSUME CatalogInv, Catalog!Deliver PROVE CatalogInv'
<1>1. PICK n \in queue :
        /\ index' = Image(sent[n]) /\ last' = n /\ queue' \subseteq queue
        /\ UNCHANGED <<product, price, at, call, sent, stale>>
  BY DEF Catalog!Deliver, Image
<1>2. CatalogTypes'
  BY <1>1 DEF CatalogInv, CatalogTypes
<1>3. CallsAreFresh'
  BY <1>1, PayloadLocal DEF CatalogInv, CallsAreFresh
<1>4. NewestTells'
  BY <1>1 DEF CatalogInv, NewestTells, Tells, Unannounced
<1>5. 0 \notin DOMAIN sent
  BY DEF CatalogInv, CatalogTypes
<1>6. IndexIsImage'
  BY <1>1, <1>5 DEF CatalogInv, IndexIsImage
<1> QED
  BY <1>2, <1>3, <1>4, <1>6 DEF CatalogInv

\* What a request asks for is well-formed.
LEMMA CatalogRequests ==
  ASSUME NEW s \in Skus, NEW v \in SkuPrices, NEW st \in Catalog!Statuses
  PROVE  /\ [Catalog!NoCall EXCEPT !.op = "newsku", !.sku = s, !.value = v] \in CatalogCalls
         /\ [Catalog!NoCall EXCEPT !.op = "sku", !.sku = s, !.value = v] \in CatalogCalls
         /\ [Catalog!NoCall EXCEPT !.op = "status", !.status = st] \in CatalogCalls
         /\ [Catalog!NoCall EXCEPT !.op = "update"] \in CatalogCalls
  BY NoCatalogCall DEF CatalogCalls, Writes

LEMMA CatalogNext == ASSUME CatalogInv, [Catalog!Next]_(Catalog!vars) PROVE CatalogInv'
<1>1. ASSUME NEW c \in Calls, Catalog!CreateProduct(c) PROVE CatalogInv'
  <2>1. PICK skus \in PriceLists :
          Catalog!Begin(c, [Catalog!NoCall EXCEPT !.op = "create", !.skus = skus], "build")
    BY <1>1 DEF Catalog!CreateProduct, PriceLists
  <2> DEFINE r == [Catalog!NoCall EXCEPT !.op = "create", !.skus = skus]
  <2>2. r \in CatalogCalls /\ r.op = "create"
    BY NoCatalogCall DEF CatalogCalls, Writes, Catalog!NoCall
  <2> HIDE DEF r
  <2> QED
    BY <2>1, <2>2, CatalogBegin DEF Writes, r
<1>2. ASSUME NEW c \in Calls, Catalog!UpdateProduct(c) PROVE CatalogInv'
  <2> DEFINE r == [Catalog!NoCall EXCEPT !.op = "update"]
  <2>1. r \in CatalogCalls /\ r.op = "update"
    BY NoCatalogCall DEF CatalogCalls, Writes, Catalog!NoCall
  <2>2. Catalog!Begin(c, r, "build")
    BY <1>2 DEF Catalog!UpdateProduct
  <2> HIDE DEF r
  <2> QED
    BY <2>1, <2>2, CatalogBegin DEF Writes
<1>3. ASSUME NEW c \in Calls, Catalog!UpdateProductStatus(c) PROVE CatalogInv'
  <2>1. PICK st \in Catalog!Statuses :
          Catalog!Begin(c, [Catalog!NoCall EXCEPT !.op = "status", !.status = st], "build")
    BY <1>3 DEF Catalog!UpdateProductStatus
  <2> DEFINE r == [Catalog!NoCall EXCEPT !.op = "status", !.status = st]
  <2>2. r \in CatalogCalls /\ r.op = "status"
    BY NoCatalogCall DEF CatalogCalls, Writes, Catalog!NoCall
  <2> HIDE DEF r
  <2> QED
    BY <2>1, <2>2, CatalogBegin DEF Writes, r
<1>4. ASSUME NEW c \in Calls, Catalog!CreateSKU(c) PROVE CatalogInv'
  <2>1. PICK s \in Skus, v \in SkuPrices :
          Catalog!Begin(c, [Catalog!NoCall EXCEPT !.op = "newsku", !.sku = s, !.value = v], "build")
    BY <1>4 DEF Catalog!CreateSKU
  <2> DEFINE r == [Catalog!NoCall EXCEPT !.op = "newsku", !.sku = s, !.value = v]
  <2>2. r \in CatalogCalls /\ r.op = "newsku"
    BY CatalogRequests DEF Catalog!NoCall, Catalog!Statuses
  <2> HIDE DEF r
  <2> QED
    BY <2>1, <2>2, CatalogBegin DEF Writes, r
<1>5. ASSUME NEW c \in Calls, Catalog!UpdateSKU(c) PROVE CatalogInv'
  <2>1. PICK s \in Skus, v \in SkuPrices :
          Catalog!Begin(c, [Catalog!NoCall EXCEPT !.op = "sku", !.sku = s, !.value = v], "sku")
    BY <1>5 DEF Catalog!UpdateSKU
  <2> DEFINE r == [Catalog!NoCall EXCEPT !.op = "sku", !.sku = s, !.value = v]
  <2>2. r \in CatalogCalls /\ r.op = "sku"
    BY CatalogRequests DEF Catalog!NoCall, Catalog!Statuses
  <2> HIDE DEF r
  <2> QED
    BY <2>1, <2>2, CatalogBegin DEF Writes, r
<1>6. CASE UNCHANGED Catalog!vars
  <2>1. \A d \in Calls : Catalog!Payload(d)' = Catalog!Payload(d)
    BY <1>6, PayloadLocal DEF Catalog!vars
  <2> QED
    BY <1>6, <2>1 DEF Catalog!vars, CatalogInv, CatalogTypes, CallsAreFresh, NewestTells, Tells,
         Unannounced, IndexIsImage
<1>7. CASE Catalog!Next
  BY <1>1, <1>2, <1>3, <1>4, <1>5, <1>7, CatalogWriteSku, CatalogBuild, CatalogCommit, CatalogFail,
     CatalogDeliver DEF Catalog!Next
<1> QED
  BY <1>6, <1>7

LEMMA CatalogPromises == ASSUME CatalogInv PROVE Catalog!NewestEventHealsIndex
<1> SUFFICES ASSUME last = Len(sent), ~stale, \A c \in Calls : at[c] = "idle"
             PROVE  \/ index = [status |-> product.status, name |-> product.name,
                                price |-> Catalog!Cheapest(price)]
                    \/ index = Catalog!NoRow /\ product.status \in {"archived", "absent"}
  BY DEF Catalog!NewestEventHealsIndex
<1>1. ~Unannounced
  BY DEF Unannounced
<1>2. CASE sent = << >>
  <2>1. last = 0 /\ product = Catalog!Absent
    BY <1>2 DEF CatalogInv, NewestTells
  <2> QED
    BY <2>1 DEF CatalogInv, IndexIsImage, Catalog!Absent
<1>3. CASE sent # << >>
  <2>1. last # 0 /\ Tells(sent[last]) /\ index = Image(sent[last])
    <3>1. sent \in Seq(ProductEvents)
      BY DEF CatalogInv, CatalogTypes
    <3>2. Len(sent) # 0
      BY <1>3, <3>1
    <3> QED
      BY <1>1, <1>3, <3>2 DEF CatalogInv, NewestTells, IndexIsImage
  <2> QED
    BY <2>1 DEF Tells, Image
<1> QED
  BY <1>2, <1>3

\* catalog-svc, search-svc and recommend-svc: whatever calls overlap and fail, and
\* in whatever order their events are delivered, the copy is the product again once
\* the newest event is the last one applied, if its call was not overlapped.
THEOREM NewestEventHeals == Catalog!Spec => []Catalog!NewestEventHealsIndex
<1>1. Catalog!Init => CatalogInv
  BY CatalogInit
<1>2. CatalogInv /\ [Catalog!Next]_(Catalog!vars) => CatalogInv'
  BY CatalogNext
<1>3. CatalogInv => Catalog!NewestEventHealsIndex
  BY CatalogPromises
<1> QED
  BY <1>1, <1>2, <1>3, PTL DEF Catalog!Spec

\* The same where the services take turns.
THEOREM NewestEventHealsInTurn == MCSpec => []NewestEventHealsIndex
<1> DEFINE I == focus = "catalog" => CatalogInv
<1>1. MCInit => I
  BY FocusInit, CatalogInit
<1>2. I /\ [MCNext]_allVars => I'
  BY FocusStep, CatalogNext
<1>3. I => NewestEventHealsIndex
  BY CatalogPromises DEF NewestEventHealsIndex
<1> QED
  BY <1>1, <1>2, <1>3, PTL DEF MCSpec

-----------------------------------------------------------------------------
(***************************************************************************)
(* order-svc: the checkout                                                  *)
(***************************************************************************)

\* A discount is held by a reservation, and nothing else is, until the cleanup, but
\* for a reservation that checkout was not told of; the cleanup leaves nothing
\* behind that it could release.
HeldForDiscount(res, discount) == res = IF discount > 0 THEN "pending" ELSE "none"
CheckoutInv ==
  /\ unanswered # {} => pc \in {"releaseCoupon", "releasePoints", "failed"}
  /\ pc \notin {"releasePoints", "failed"} /\ "coupon" \notin unanswered
       => HeldForDiscount(couponRes, couponDiscount)
  /\ pc # "failed" /\ "points" \notin unanswered => HeldForDiscount(pointRes, pointDiscount)
  /\ pc \in {"releasePoints", "failed"} /\ couponRes = "pending"
       => "coupon" \in unanswered \cup unreleased
  /\ pc = "failed" /\ pointRes = "pending" => "points" \in unanswered \cup unreleased

LEMMA CheckoutNext == ASSUME CheckoutInv, [Next]_vars PROVE CheckoutInv'
<1> USE DEF CheckoutInv, HeldForDiscount, inputVars, resVars, batchVars, storeVars, faultVars
<1>1. CASE ReserveCoupon
  BY <1>1 DEF ReserveCoupon
<1>2. CASE ReservePoints
  BY <1>2 DEF ReservePoints
<1>3. CASE Price
  BY <1>3 DEF Price
<1>4. CASE CreateCheckoutBatch
  BY <1>4 DEF CreateCheckoutBatch
<1>5. CASE CreatePaymentIntent
  BY <1>5 DEF CreatePaymentIntent
<1>6. CASE SetStripePaymentIntentID
  BY <1>6 DEF SetStripePaymentIntentID
<1>7. CASE PublishCreated
  BY <1>7 DEF PublishCreated
<1>8. CASE ReleaseCoupon
  BY <1>8 DEF ReleaseCoupon, Known, Releases
<1>9. CASE ReleasePoints
  BY <1>9 DEF ReleasePoints, Known, Releases
<1>10. ASSUME NEW step \in {"coupon", "points", "insert", "intent", "stamp"}, Fail(step)
       PROVE  CheckoutInv'
  BY <1>10 DEF Fail
<1>11. CASE UNCHANGED vars
  BY <1>11 DEF vars
<1>12. CASE ReserveCouponUnanswered
  BY <1>12 DEF ReserveCouponUnanswered, ReserveUnanswered
<1>13. CASE ReservePointsUnanswered
  BY <1>13 DEF ReservePointsUnanswered, ReserveUnanswered
<1>14. CASE LoseAnswer
  BY <1>14 DEF LoseAnswer
<1> QED
  BY <1>1, <1>2, <1>3, <1>4, <1>5, <1>6, <1>7, <1>8, <1>9, <1>10, <1>11, <1>12, <1>13, <1>14
  DEF Next

\* order-svc: for every cart, coupon, commission rate and fee, and whichever step of
\* CreateCheckout fails, before or after it took effect, the deferred cleanup
\* releases every reservation unless the Reserve call that made it gave no answer
\* or the Release call fails; a checkout that succeeds holds exactly the
\* reservations its orders rely on.
THEOREM FailedCheckoutReleases == Spec => []FailureReleases
<1>1. Init => CheckoutInv
  BY DEF Init, CheckoutInv, HeldForDiscount
<1>2. CheckoutInv /\ [Next]_vars => CheckoutInv'
  BY CheckoutNext
<1>3. CheckoutInv => FailureReleases
  BY DEF CheckoutInv, HeldForDiscount, FailureReleases
<1> QED
  BY <1>1, <1>2, <1>3, PTL DEF Spec

\* What a checkout is asked, and what it has reserved, is amounts.
AmountsAreNat ==
  /\ subtotals \in [Groups -> Nat] /\ coupon \in Coupons \cup {NoCoupon}
  /\ wanted \in Nat /\ rate \in [Groups -> Nat] /\ fee \in Nat
  /\ couponDiscount \in Nat /\ pointDiscount \in Nat

\* The batch, order by order: no share exceeds what the order has left, the total is
\* not clamped, and seller and platform divide what the order is funded with.
BatchAddsUp ==
  /\ couponShares \in [Groups -> Nat] /\ pointShares \in [Groups -> Nat]
  /\ totals \in [Groups -> Int] /\ commissions \in [Groups -> Int] /\ payouts \in [Groups -> Int]
  /\ \A i \in Groups :
       /\ couponShares[i] + pointShares[i] <= subtotals[i]
       /\ totals[i] = subtotals[i] + fee - couponShares[i] - pointShares[i]
       /\ payouts[i] + commissions[i] = FundedSubtotal(couponShares, i)
  /\ Total(couponShares) <= couponDiscount /\ Total(pointShares) <= pointDiscount

MoneyInv == AmountsAreNat /\ (Priced => BatchAddsUp)

LEMMA SellersCount == Sellers \in Nat \ {0} /\ Groups = 1..Sellers
  BY CheckoutAssumption DEF Groups

LEMMA CouponTypes ==
  ASSUME AmountsAreNat
  PROVE  coupon.scope \in 0..Sellers /\ coupon.amount \in Nat /\ coupon.bps \in Nat /\ coupon.max \in Nat
<1>1. CASE coupon \in Coupons
  <2>1. coupon.scope \in 0..Sellers /\ coupon.amount \in Nat /\ coupon.bps \in Nat /\ coupon.max \in Nat
    BY <1>1, CheckoutAssumption
  <2> QED
    BY <2>1
<1>2. CASE coupon = NoCoupon
  <2>1. coupon.scope = 0 /\ coupon.amount = 0 /\ coupon.bps = 0 /\ coupon.max = 0
    BY <1>2 DEF NoCoupon
  <2> QED
    BY <2>1, SellersCount
<1> QED
  BY <1>1, <1>2 DEF AmountsAreNat

\* Step 3b: the discounts that are reserved.
LEMMA ReservedAmounts ==
  ASSUME AmountsAreNat
  PROVE  ComputeDiscount(coupon, Applicable) \in Int /\ Effective \in Int
<1>1. Total(subtotals) \in Int
  BY SellersCount, TotalIsInt DEF AmountsAreNat
<1>2. coupon.scope \in 0..Sellers /\ coupon.amount \in Nat /\ coupon.bps \in Nat /\ coupon.max \in Nat
  BY CouponTypes
<1>3. Applicable \in Int
  <2>1. coupon.scope # 0 => subtotals[coupon.scope] \in Nat
    BY <1>2, SellersCount DEF AmountsAreNat
  <2> QED
    BY <1>1, <2>1 DEF Applicable
<1>4. Bps(Applicable, coupon.bps) \in Int
  BY <1>2, <1>3 DEF Bps
<1>5. ComputeDiscount(coupon, Applicable) \in Int
  BY <1>2, <1>3, <1>4 DEF ComputeDiscount, Lower
<1>6. Effective \in Int
  BY <1>1 DEF Effective, Lower, AmountsAreNat
<1> QED
  BY <1>5, <1>6

\* Steps 3 to 3d: the batch.
LEMMA PriceAddsUp == ASSUME AmountsAreNat, Price PROVE BatchAddsUp'
<1> DEFINE c == couponShares'
           base == PointBase(c)
           p == pointShares'
<1>1. Sellers \in Nat /\ Groups = 1..Sellers
  BY SellersCount
<1>2. /\ subtotals \in [1..Sellers -> Nat] /\ fee \in Nat /\ couponDiscount \in Nat
      /\ pointDiscount \in Nat
      /\ UNCHANGED <<subtotals, coupon, fee, rate, couponRes, couponDiscount, pointDiscount>>
  BY <1>1 DEF AmountsAreNat, Price, inputVars, resVars
<1>3. /\ c \in [1..Sellers -> Nat] /\ \A i \in 1..Sellers : c[i] <= subtotals[i]
      /\ Total(c) <= couponDiscount
  <2>1. CASE SellerCoupon
    <3>1. coupon.scope \in 1..Sellers
      BY <2>1, CouponTypes, SellersCount DEF SellerCoupon
    <3>2. c = DistributeSellerDiscount(couponDiscount, subtotals, coupon.scope)
      BY <2>1 DEF Price
    <3> QED
      BY <1>1, <1>2, <3>1, <3>2, SellerDiscountWithin
  <2>2. CASE ~SellerCoupon
    <3>1. c = DistributeDiscount(couponDiscount, subtotals)
      BY <2>2 DEF Price
    <3> QED
      BY <1>1, <1>2, <3>1, DistributeWithin
  <2> QED
    BY <2>1, <2>2
<1> HIDE DEF c
<1>4. base \in [1..Sellers -> Nat] /\ \A i \in 1..Sellers : base[i] = subtotals[i] - c[i]
  <2>1. \A i \in 1..Sellers : subtotals[i] - c[i] \in Nat
    BY <1>2, <1>3
  <2> QED
    BY <1>1, <2>1 DEF PointBase
<1>5. p = DistributeDiscount(pointDiscount, base)
  BY DEF Price, c
<1> HIDE DEF base, p
<1>6. /\ p \in [1..Sellers -> Nat] /\ \A i \in 1..Sellers : p[i] <= base[i]
      /\ Total(p) <= pointDiscount
  BY <1>1, <1>2, <1>4, <1>5, DistributeWithin
<1>7. ASSUME NEW i \in 1..Sellers
      PROVE  /\ c[i] \in Nat /\ p[i] \in Nat /\ subtotals[i] \in Nat
             /\ c[i] + p[i] <= subtotals[i]
             /\ subtotals[i] + fee - c[i] - p[i] \in Nat
  BY <1>2, <1>3, <1>4, <1>6
<1>8. /\ totals' \in [1..Sellers -> Int]
      /\ \A i \in 1..Sellers : totals'[i] = subtotals[i] + fee - c[i] - p[i]
  <2>1. totals' = [i \in 1..Sellers |->
                    IF subtotals[i] + fee - c[i] - p[i] < 0 THEN 0 ELSE subtotals[i] + fee - c[i] - p[i]]
    BY <1>1 DEF Price, c, p
  <2>2. totals' = [i \in 1..Sellers |-> subtotals[i] + fee - c[i] - p[i]]
    BY <1>7, <2>1
  <2> QED
    BY <1>7, <2>2
<1>9. \A i \in 1..Sellers : FundedSubtotal(c, i) \in Int /\ Bps(FundedSubtotal(c, i), rate[i]) \in Int
  <2> TAKE i \in 1..Sellers
  <2>1. FundedSubtotal(c, i) \in Int
    BY <1>7 DEF FundedSubtotal
  <2>2. rate[i] \in Int
    BY <1>1 DEF AmountsAreNat
  <2> HIDE DEF FundedSubtotal
  <2> QED
    BY <2>1, <2>2 DEF Bps
<1>10. /\ commissions' = [i \in 1..Sellers |-> Bps(FundedSubtotal(c, i), rate[i])]
       /\ payouts' = [i \in 1..Sellers |-> FundedSubtotal(c, i) - commissions'[i]]
  BY <1>1 DEF Price, c
<1>11. /\ commissions' \in [1..Sellers -> Int] /\ payouts' \in [1..Sellers -> Int]
       /\ \A i \in 1..Sellers : payouts'[i] + commissions'[i] = FundedSubtotal(c, i)
  BY <1>9, <1>10
<1>12. \A i \in 1..Sellers : FundedSubtotal(couponShares, i)' = FundedSubtotal(c, i)
  BY <1>2 DEF FundedSubtotal, SellerCoupon, c
<1>13. Groups' = 1..Sellers /\ couponDiscount' = couponDiscount /\ pointDiscount' = pointDiscount
       /\ subtotals' = subtotals /\ fee' = fee
  BY <1>1, <1>2
<1> QED
  BY <1>3, <1>6, <1>7, <1>8, <1>11, <1>12, <1>13 DEF BatchAddsUp, c, p

LEMMA MoneyInit == Init => MoneyInv
<1> SUFFICES ASSUME Init PROVE MoneyInv
  OBVIOUS
<1>1. subtotals \in [Groups -> Nat] /\ coupon \in Coupons \cup {NoCoupon} /\ wanted \in Nat /\ fee \in Nat
  <2>1. Prices \subseteq Nat /\ PointChoices \subseteq Nat /\ Fees \subseteq Nat
    BY CheckoutAssumption
  <2>2. /\ subtotals \in [Groups -> Prices] /\ coupon \in Coupons \cup {NoCoupon}
        /\ wanted \in PointChoices /\ fee \in Fees
    BY DEF Init
  <2> QED
    BY <2>1, <2>2
<1>2. rate \in [Groups -> Nat]
  <2>1. Rates \subseteq Nat
    BY CheckoutAssumption
  <2>2. rate \in [Groups -> Rates]
    BY DEF Init
  <2> QED
    BY <2>1, <2>2
<1>3. couponDiscount \in Nat /\ pointDiscount \in Nat /\ ~Priced
  BY DEF Init, Priced
<1> QED
  BY <1>1, <1>2, <1>3 DEF MoneyInv, AmountsAreNat

\* A step that leaves the request, the reservations and the batch alone.
LEMMA MoneyStays ==
  ASSUME MoneyInv, UNCHANGED <<inputVars, couponDiscount, pointDiscount>>,
         Priced' => Priced /\ UNCHANGED <<couponRes, batchVars>>
  PROVE  MoneyInv'
<1>1. AmountsAreNat'
  BY DEF MoneyInv, AmountsAreNat, inputVars, Groups
<1>2. ASSUME Priced' PROVE BatchAddsUp'
  BY <1>2 DEF MoneyInv, BatchAddsUp, inputVars, batchVars, Groups, FundedSubtotal, SellerCoupon
<1> QED
  BY <1>1, <1>2 DEF MoneyInv

LEMMA MoneyNext == ASSUME MoneyInv, [Next]_vars PROVE MoneyInv'
<1>1. CASE ReserveCoupon
  <2>1. couponDiscount' \in Nat
    <3>1. ComputeDiscount(coupon, Applicable) \in Int
      BY ReservedAmounts DEF MoneyInv
    <3> HIDE DEF Applicable
    <3> QED
      BY <1>1, <3>1 DEF ReserveCoupon, MoneyInv, AmountsAreNat
  <2> QED
    BY <1>1, <2>1 DEF ReserveCoupon, MoneyInv, AmountsAreNat, Priced, inputVars, Groups
<1>2. CASE ReservePoints
  <2>1. pointDiscount' \in Nat
    <3>1. Effective \in Int
      BY ReservedAmounts DEF MoneyInv
    <3> QED
      BY <1>2, <3>1 DEF ReservePoints, MoneyInv, AmountsAreNat
  <2> QED
    BY <1>2, <2>1 DEF ReservePoints, MoneyInv, AmountsAreNat, Priced, inputVars, Groups
<1>3. CASE Price
  <2>1. BatchAddsUp'
    BY <1>3, PriceAddsUp DEF MoneyInv
  <2>2. AmountsAreNat'
    BY <1>3 DEF Price, MoneyInv, AmountsAreNat, inputVars, resVars, Groups
  <2> QED
    BY <2>1, <2>2 DEF MoneyInv
<1>4. CASE CreateCheckoutBatch
  BY <1>4, MoneyStays DEF CreateCheckoutBatch, Priced, resVars
<1>5. CASE CreatePaymentIntent
  BY <1>5, MoneyStays DEF CreatePaymentIntent, Priced, resVars
<1>6. CASE SetStripePaymentIntentID
  BY <1>6, MoneyStays DEF SetStripePaymentIntentID, Priced, resVars
<1>7. CASE PublishCreated
  BY <1>7, MoneyStays DEF PublishCreated, Priced, resVars
<1>8. CASE ReleaseCoupon
  BY <1>8, MoneyStays DEF ReleaseCoupon, Priced
<1>9. CASE ReleasePoints
  BY <1>9, MoneyStays DEF ReleasePoints, Priced
<1>10. ASSUME NEW step \in {"coupon", "points", "insert", "intent", "stamp"}, Fail(step)
       PROVE  MoneyInv'
  BY <1>10, MoneyStays DEF Fail, Priced, resVars
<1>11. CASE UNCHANGED vars
  BY <1>11, MoneyStays DEF vars, Priced, resVars
<1>12. CASE ReserveCouponUnanswered
  BY <1>12, MoneyStays DEF ReserveCouponUnanswered, ReserveUnanswered, Priced
<1>13. CASE ReservePointsUnanswered
  BY <1>13, MoneyStays DEF ReservePointsUnanswered, ReserveUnanswered, Priced
<1>14. CASE LoseAnswer
  BY <1>14, MoneyStays DEF LoseAnswer, Priced, resVars
<1> QED
  BY <1>1, <1>2, <1>3, <1>4, <1>5, <1>6, <1>7, <1>8, <1>9, <1>10, <1>11, <1>12, <1>13, <1>14
  DEF Next

LEMMA BatchIsWithin == MoneyInv => DiscountWithinOrder
<1> SUFFICES ASSUME MoneyInv, Priced PROVE DiscountWithinOrder
  BY DEF DiscountWithinOrder
<1>1. BatchAddsUp /\ AmountsAreNat
  BY DEF MoneyInv
<1>2. ASSUME NEW i \in Groups
      PROVE  totals[i] = subtotals[i] + fee - couponShares[i] - pointShares[i] /\ totals[i] >= fee
  <2>1. /\ subtotals[i] \in Nat /\ fee \in Nat /\ couponShares[i] \in Nat /\ pointShares[i] \in Nat
        /\ couponShares[i] + pointShares[i] <= subtotals[i]
        /\ totals[i] = subtotals[i] + fee - couponShares[i] - pointShares[i]
    BY <1>1 DEF BatchAddsUp, AmountsAreNat
  <2> QED
    BY <2>1
<1> QED
  BY <1>1, <1>2 DEF DiscountWithinOrder, BatchAddsUp

\* The books of a batch: summed order by order.
LEMMA BooksBalance == MoneyInv => MoneyAddsUp
<1> SUFFICES ASSUME MoneyInv, Priced PROVE MoneyAddsUp
  BY DEF MoneyAddsUp
<1> DEFINE given == IF SellerCoupon THEN [i \in 1..Sellers |-> 0] ELSE couponShares
           charged == [i \in 1..Sellers |-> totals[i] + pointShares[i]]
           funded == [i \in 1..Sellers |-> charged[i] + given[i]]
           earned == [i \in 1..Sellers |-> payouts[i] + commissions[i]]
           fees == [i \in 1..Sellers |-> fee]
<1>1. Sellers \in Nat /\ Groups = 1..Sellers
  BY SellersCount
<1>2. /\ subtotals \in [1..Sellers -> Nat] /\ fee \in Nat
      /\ couponShares \in [1..Sellers -> Nat] /\ pointShares \in [1..Sellers -> Nat]
      /\ totals \in [1..Sellers -> Int] /\ commissions \in [1..Sellers -> Int]
      /\ payouts \in [1..Sellers -> Int]
      /\ \A i \in 1..Sellers :
           /\ totals[i] = subtotals[i] + fee - couponShares[i] - pointShares[i]
           /\ payouts[i] + commissions[i] = FundedSubtotal(couponShares, i)
  BY <1>1 DEF MoneyInv, BatchAddsUp, AmountsAreNat
<1>3. ASSUME NEW i \in 1..Sellers
      PROVE  /\ totals[i] \in Int /\ pointShares[i] \in Int /\ couponShares[i] \in Nat
             /\ payouts[i] \in Int /\ commissions[i] \in Int /\ subtotals[i] \in Nat
             /\ totals[i] = subtotals[i] + fee - couponShares[i] - pointShares[i]
             /\ payouts[i] + commissions[i]
                  = IF SellerCoupon THEN subtotals[i] - couponShares[i] ELSE subtotals[i]
  <2>1. totals[i] \in Int /\ payouts[i] \in Int /\ commissions[i] \in Int
    BY <1>2
  <2>2. pointShares[i] \in Nat /\ couponShares[i] \in Nat /\ subtotals[i] \in Nat
    BY <1>2
  <2>3. FundedSubtotal(couponShares, i)
          = IF SellerCoupon THEN subtotals[i] - couponShares[i] ELSE subtotals[i]
    BY <2>2 DEF FundedSubtotal
  <2> QED
    BY <1>2, <2>1, <2>2, <2>3
<1>4. given \in [1..Sellers -> Int] /\ \A i \in 1..Sellers : given[i] = IF SellerCoupon THEN 0 ELSE couponShares[i]
  <2>1. CASE SellerCoupon
    BY <2>1
  <2>2. CASE ~SellerCoupon
    <3>1. given = couponShares
      BY <2>2
    <3>2. couponShares \in [1..Sellers -> Int]
      BY <1>2
    <3> QED
      BY <2>2, <3>1, <3>2
  <2> QED
    BY <2>1, <2>2
<1>5. Total(given) = IF SellerCoupon THEN 0 ELSE Total(couponShares)
  BY <1>1, ZeroTotal
<1> HIDE DEF given
<1>6. charged \in [1..Sellers -> Int] /\ funded \in [1..Sellers -> Int]
      /\ earned \in [1..Sellers -> Int] /\ fees \in [1..Sellers -> Int]
  BY <1>2, <1>3, <1>4
<1>7. \A i \in 1..Sellers : funded[i] = earned[i] + fees[i]
  <2> TAKE i \in 1..Sellers
  <2>1. funded[i] = totals[i] + pointShares[i] + given[i] /\ earned[i] = payouts[i] + commissions[i]
        /\ fees[i] = fee /\ fee \in Nat
    BY <1>2
  <2>2. given[i] = IF SellerCoupon THEN 0 ELSE couponShares[i]
    BY <1>4
  <2> HIDE DEF funded, earned, fees
  <2> QED
    BY <1>3, <2>1, <2>2
<1>8. /\ \A i \in 1..Sellers : charged[i] = totals[i] + pointShares[i]
      /\ \A i \in 1..Sellers : funded[i] = charged[i] + given[i]
      /\ \A i \in 1..Sellers : earned[i] = payouts[i] + commissions[i]
  OBVIOUS
<1>9. Total(fees) = Sellers * fee
  <2>1. Sellers \in Nat /\ fee \in Int
    BY <1>1, <1>2
  <2> QED
    BY <2>1, TotalConstant
<1> HIDE DEF charged, funded, earned, fees
<1>10. /\ totals \in [1..Sellers -> Int] /\ payouts \in [1..Sellers -> Int]
       /\ commissions \in [1..Sellers -> Int] /\ pointShares \in [1..Sellers -> Int]
  BY <1>2
<1>11. Total(charged) = Total(totals) + Total(pointShares)
  BY <1>1, <1>6, <1>8, <1>10, TotalAdds
<1>12. Total(funded) = Total(charged) + Total(given)
  BY <1>1, <1>4, <1>6, <1>8, TotalAdds
<1>13. Total(earned) = Total(payouts) + Total(commissions)
  BY <1>1, <1>6, <1>8, <1>10, TotalAdds
<1>14. Total(funded) = Total(earned) + Total(fees)
  BY <1>1, <1>6, <1>7, TotalAdds
<1>15. /\ Total(totals) \in Int /\ Total(pointShares) \in Int /\ Total(given) \in Int
       /\ Total(payouts) \in Int /\ Total(commissions) \in Int
  BY <1>1, <1>4, <1>10, TotalIsInt
<1>16. Total(totals) + Total(pointShares) + Total(given) = Total(payouts) + Total(commissions) + Sellers * fee
  BY <1>9, <1>11, <1>12, <1>13, <1>14, <1>15
<1> QED
  BY <1>5, <1>16 DEF MoneyAddsUp

\* order-svc: for every cart of any size, every coupon, point balance, commission
\* rate and fee: coupon and points never take more off an order than its subtotal,
\* so that no negative total is ever clamped away, and the orders never share more
\* than what was reserved.
THEOREM DiscountsStayWithin == Spec => []DiscountWithinOrder
<1> QED
  BY MoneyInit, MoneyNext, BatchIsWithin, PTL DEF Spec

\* order-svc: for every such checkout, whatever the buyer is charged and the platform
\* funds is, to the yen, what sellers, commissions and shipping get.
THEOREM EveryYenIsAccountedFor == Spec => []MoneyAddsUp
<1> QED
  BY MoneyInit, MoneyNext, BooksBalance, PTL DEF Spec


-----------------------------------------------------------------------------
(***************************************************************************)
(* cart-svc                                                                 *)
(***************************************************************************)

CartCalls ==
  [op : {"none", "add", "update", "remove", "checkout"}, sku : Skus \cup {Cart!AnySku},
   n : Nat, read : [Skus -> Nat], overlapped : BOOLEAN]

CartTypes ==
  /\ cart \in [Skus -> Nat] /\ ordered \in [Skus -> Nat] /\ put \in [Skus -> Int]
  /\ at \in [Calls -> {"idle", "write", "order", "clear"}] /\ call \in [Calls -> CartCalls]
  /\ \A c \in Calls : at[c] = "write" => call[c].sku \in Skus

\* A call that nobody overlapped holds the cart as it is.
Overlapped == {c \in Calls : call[c].overlapped}
ReadsCart == \A c \in Calls : at[c] # "idle" /\ c \notin Overlapped => call[c].read = cart

CartInv == CartTypes /\ ReadsCart /\ Cart!UnitsAreConserved

\* The checkouts whose units have left for an order and are still in the cart.
Clearing == {c \in Calls : at[c] = "clear"}
UnitsRead(s) == [c \in Calls |-> call[c].read[s]]

LEMMA LeavingIs == \A s : Cart!Leaving(s) = SumOver(UnitsRead(s), Clearing)
<1> SUFFICES ASSUME NEW s PROVE Cart!Leaving(s) = SumOver(UnitsRead(s), Clearing)
  OBVIOUS
<1> QED
  BY DEF Cart!Leaving, Cart!MapThenSumSet, Cart!MapThenFoldSet, SumOver, SetSums, Clearing, UnitsRead

LEMMA LeavingIsSum ==
  /\ \A s : Cart!Leaving(s) = SumOver(UnitsRead(s), Clearing)
  /\ \A s : Cart!Leaving(s)' = SumOver(UnitsRead(s)', Clearing')
<1>1. (\A s : Cart!Leaving(s) = SumOver(UnitsRead(s), Clearing))'
  BY LeavingIs, PTL
<1> QED
  BY <1>1, LeavingIs

\* The units a call is about to take out of the cart.
TakenBy(c, s) == IF at[c] = "clear" THEN call[c].read[s] ELSE 0

\* A step of one call changes what is leaving by what that call takes.
LEMMA LeavingMoves ==
  ASSUME CartTypes, CartTypes', NEW s \in Skus, NEW c \in Calls,
         \A d \in Calls \ {c} :
           /\ at'[d] = "clear" <=> at[d] = "clear"
           /\ at[d] = "clear" => call'[d].read = call[d].read
  PROVE  /\ Cart!Leaving(s) \in Int
         /\ TakenBy(c, s) \in Nat /\ TakenBy(c, s)' \in Nat
         /\ Cart!Leaving(s)' = Cart!Leaving(s) - TakenBy(c, s) + TakenBy(c, s)'
<1> DEFINE f == UnitsRead(s)
           g == UnitsRead(s)'
           C == Clearing
           D == Clearing'
           Q == C \ {c}
           taken == TakenBy(c, s)'
<1>1. /\ \A d \in Calls : f[d] \in Nat /\ f[d] = call[d].read[s]
      /\ \A d \in Calls : g[d] \in Nat /\ g[d] = call'[d].read[s]
  BY DEF CartTypes, CartCalls, UnitsRead
<1>2. /\ C \subseteq Calls /\ D \subseteq Calls /\ Q \subseteq Calls /\ D \ {c} = Q
      /\ c \in C <=> at[c] = "clear"
      /\ c \in D <=> at'[c] = "clear"
      /\ \A d \in Q : g[d] = f[d]
  BY <1>1 DEF Clearing
<1>3. Cart!Leaving(s) = SumOver(f, C) /\ Cart!Leaving(s)' = SumOver(g, D)
  BY LeavingIsSum
<1>4. /\ TakenBy(c, s) = IF c \in C THEN f[c] ELSE 0
      /\ taken = IF c \in D THEN g[c] ELSE 0
  BY <1>1, <1>2 DEF TakenBy
<1> HIDE DEF f, g, C, D, Q, taken
<1>5. IsFiniteSet(C) /\ IsFiniteSet(D) /\ IsFiniteSet(Q)
  BY <1>2, ServicesAssumption, FS_Subset
<1>6. SumOver(f, Q) \in Int /\ SumOver(g, Q) = SumOver(f, Q)
  <2>1. \A d \in Q : f[d] \in Int /\ g[d] = f[d]
    BY <1>1, <1>2
  <2> QED
    BY <2>1, <1>5, SumType, SumAgrees
<1>7. SumOver(f, C) = SumOver(f, Q) + TakenBy(c, s)
  <2>1. \A d \in C : f[d] \in Int
    BY <1>1, <1>2
  <2>2. CASE c \in C
    <3>1. SumOver(f, C) = f[c] + SumOver(f, C \ {c})
      BY <2>1, <2>2, <1>5, SumWithout
    <3> QED
      BY <3>1, <2>2, <1>1, <1>4, <1>6 DEF Q
  <2>3. CASE c \notin C
    <3>1. C = Q
      BY <2>3 DEF Q
    <3> QED
      BY <3>1, <2>3, <1>4, <1>6
  <2> QED
    BY <2>2, <2>3
<1>8. SumOver(g, D) = SumOver(g, Q) + taken
  <2>1. \A d \in D : g[d] \in Int
    BY <1>1, <1>2
  <2>2. CASE c \in D
    <3>1. SumOver(g, D) = g[c] + SumOver(g, D \ {c})
      BY <2>1, <2>2, <1>5, SumWithout
    <3>2. D \ {c} = Q /\ g[c] \in Nat /\ taken = g[c]
      BY <2>2, <1>1, <1>2, <1>4
    <3>3. SumOver(g, D \ {c}) = SumOver(g, Q)
      BY <3>2, Zenon
    <3> QED
      BY <3>1, <3>2, <3>3, <1>6
  <2>3. CASE c \notin D
    <3>1. D = Q
      BY <2>3, <1>2
    <3> QED
      BY <3>1, <2>3, <1>4, <1>6
  <2> QED
    BY <2>2, <2>3
<1>9. TakenBy(c, s) \in Nat /\ taken \in Nat
  BY <1>1, <1>4
<1> QED
  BY <1>3, <1>6, <1>7, <1>8, <1>9 DEF taken

LEMMA CartInit == ASSUME Cart!Init PROVE CartInv
<1>1. Cart!NoCall \in CartCalls
  BY DEF Cart!NoCall, CartCalls, Cart!EmptyCart
<1>2. CartTypes /\ ReadsCart
  BY <1>1 DEF Cart!Init, CartTypes, ReadsCart, Cart!EmptyCart
<1>3. Clearing = {}
  BY DEF Cart!Init, Clearing
<1>4. Cart!UnitsAreConserved
  BY <1>3, LeavingIsSum, SumNothing DEF Cart!Init, Cart!UnitsAreConserved, Cart!EmptyCart
<1> QED
  BY <1>2, <1>4 DEF CartInv

\* A write makes every other call in progress hold an old cart, and a caller's own
\* arguments are forgotten with its return.
Outdates(W) ==
  /\ call' \in [Calls -> CartCalls]
  /\ \A d \in Calls \ W : at[d] # "idle" => d \in Overlapped'
  /\ \A d \in Calls \ W : at[d] # "idle" => call'[d].read = call[d].read
  /\ \A d \in Calls \ W : at[d] # "idle" => call'[d].sku = call[d].sku

LEMMA WriteOutdates ==
  ASSUME CartTypes, NEW W \in SUBSET Calls, call' = Cart!Outdated(W)
  PROVE  Outdates(W)
<1>1. Cart!NoCall \in CartCalls
  BY DEF Cart!NoCall, CartCalls, Cart!EmptyCart
<1>2. \A d \in Calls : [call[d] EXCEPT !.overlapped = TRUE] \in CartCalls
  BY DEF CartTypes, CartCalls
<1>3. ASSUME NEW d \in Calls PROVE call'[d] \in CartCalls
  BY <1>1, <1>2 DEF Cart!Outdated
<1>4. call' \in [Calls -> CartCalls]
  BY <1>3 DEF Cart!Outdated
<1>5. ASSUME NEW d \in Calls \ W, at[d] # "idle" PROVE call'[d] = [call[d] EXCEPT !.overlapped = TRUE]
  BY <1>5 DEF Cart!Outdated
<1>6. \A d \in Calls : call[d] \in CartCalls
  BY DEF CartTypes
<1>7. ASSUME NEW d \in Calls \ W, at[d] # "idle"
      PROVE  d \in Overlapped' /\ call'[d].read = call[d].read /\ call'[d].sku = call[d].sku
  <2>1. call[d] \in CartCalls /\ call'[d] = [call[d] EXCEPT !.overlapped = TRUE]
    BY <1>5, <1>6, <1>7
  <2>2. call'[d].read = call[d].read /\ call'[d].sku = call[d].sku
    BY <2>1 DEF CartCalls
  <2>3. d \in Overlapped'
    BY <2>1 DEF CartCalls, Overlapped
  <2> QED
    BY <2>2, <2>3
<1>8. \A d \in Calls \ W : at[d] # "idle" => d \in Overlapped'
  BY <1>7
<1>9. \A d \in Calls \ W : at[d] # "idle" => call'[d].read = call[d].read
  BY <1>7
<1>10. \A d \in Calls \ W : at[d] # "idle" => call'[d].sku = call[d].sku
  BY <1>7
<1> QED
  BY <1>4, <1>8, <1>9, <1>10 DEF Outdates

LEMMA CartNext == ASSUME CartInv, [Cart!Next]_(Cart!vars) PROVE CartInv'
<1> USE DEF CartInv
<1>0. Cart!NoCall \in CartCalls
  BY DEF Cart!NoCall, CartCalls, Cart!EmptyCart
<1>1. ASSUME NEW c \in Calls, NEW op \in {"add", "update", "remove", "checkout"},
             NEW s \in Skus \cup {Cart!AnySku}, NEW n \in Nat, NEW p \in {"write", "order"},
             p = "write" => s \in Skus, Cart!Begin(c, op, s, n, p)
      PROVE  CartInv'
  <2>1. /\ at[c] = "idle" /\ at' = [at EXCEPT ![c] = p]
        /\ call' = [call EXCEPT ![c] = [op |-> op, sku |-> s, n |-> n, read |-> cart, overlapped |-> FALSE]]
        /\ UNCHANGED <<cart, put, ordered, excused>>
    BY <1>1 DEF Cart!Begin
  <2>2. CartTypes'
    BY <1>1, <2>1 DEF CartTypes, CartCalls
  <2>3. ReadsCart'
    BY <2>1 DEF ReadsCart, CartTypes, Overlapped
  <2>4. ASSUME NEW t \in Skus PROVE Cart!Leaving(t)' = Cart!Leaving(t)
    <3>1. \A d \in Calls \ {c} : at'[d] = at[d] /\ call'[d] = call[d]
      BY <2>1 DEF CartTypes
    <3>2. TakenBy(c, t) = 0 /\ TakenBy(c, t)' = 0
      BY <2>1 DEF TakenBy, CartTypes
    <3> QED
      BY <3>1, <3>2, <2>2, LeavingMoves
  <2>5. Cart!UnitsAreConserved'
    BY <2>1, <2>4 DEF Cart!UnitsAreConserved
  <2> QED
    BY <2>2, <2>3, <2>5
<1>2. ASSUME NEW c \in Calls, Cart!Save(c) PROVE CartInv'
  <2> DEFINE q == call[c]
  <2>1. /\ at[c] = "write" /\ at' = [at EXCEPT ![c] = "idle"]
        /\ cart' = Cart!Saved(c) /\ call' = Cart!Outdated({c})
        /\ ~excused' => ~excused /\ c \notin Overlapped
        /\ put' = [put EXCEPT ![q.sku] = @ + Cart!Asked(q)]
        /\ ordered' = ordered
    BY <1>2 DEF Cart!Save, Cart!WriteCart, Cart!Return, Overlapped
  <2>2. q \in CartCalls /\ q.sku \in Skus
    BY <2>1 DEF CartTypes
  <2>3. /\ call' \in [Calls -> CartCalls]
        /\ \A d \in Calls \ {c} : at[d] # "idle" => d \in Overlapped'
        /\ \A d \in Calls \ {c} : at[d] # "idle" => call'[d].read = call[d].read
        /\ \A d \in Calls \ {c} : at[d] # "idle" => call'[d].sku = call[d].sku
    <3>1. {c} \in SUBSET Calls
      OBVIOUS
    <3> QED
      BY <2>1, <3>1, WriteOutdates DEF Outdates
  <2>4. cart' = [q.read EXCEPT ![q.sku] = IF q.op = "add" THEN @ + q.n ELSE q.n]
    BY <2>1 DEF Cart!Saved
  <2>5. Cart!Asked(q) \in Int /\ Cart!Asked(q) = (IF q.op = "add" THEN q.n ELSE q.n - q.read[q.sku])
    BY <2>2 DEF Cart!Asked, CartCalls
  <2>6. CartTypes'
    <3>1. cart' \in [Skus -> Nat]
      BY <2>2, <2>4 DEF CartCalls
    <3>2. put' \in [Skus -> Int]
      BY <2>1, <2>2, <2>5 DEF CartTypes
    <3> QED
      BY <3>1, <3>2, <2>1, <2>3 DEF CartTypes
  <2>7. ReadsCart'
    BY <2>1, <2>3 DEF ReadsCart, CartTypes
  <2>8. ASSUME NEW t \in Skus PROVE Cart!Leaving(t)' = Cart!Leaving(t)
    <3>1. \A d \in Calls \ {c} : (at'[d] = "clear" <=> at[d] = "clear")
                                /\ (at[d] = "clear" => call'[d].read = call[d].read)
      BY <2>1, <2>3 DEF CartTypes
    <3>2. TakenBy(c, t) = 0 /\ TakenBy(c, t)' = 0
      BY <2>1 DEF TakenBy, CartTypes
    <3> QED
      BY <3>1, <3>2, <2>6, LeavingMoves
  <2>9. Cart!UnitsAreConserved'
    <3> SUFFICES ASSUME ~excused', NEW t \in Skus
                 PROVE  cart'[t] + ordered'[t] - Cart!Leaving(t)' = put'[t]
      BY DEF Cart!UnitsAreConserved
    <3>1. q.read = cart /\ ~excused
      BY <2>1 DEF ReadsCart
    <3>2. cart[t] + ordered[t] - Cart!Leaving(t) = put[t]
      BY <3>1 DEF Cart!UnitsAreConserved
    <3>3. Cart!Leaving(t) \in Int /\ cart[t] \in Nat /\ ordered[t] \in Nat /\ put[t] \in Int /\ q.n \in Nat
      <4>1. \A d \in Calls \ {c} : (at'[d] = "clear" <=> at[d] = "clear")
                                /\ (at[d] = "clear" => call'[d].read = call[d].read)
        BY <2>1, <2>3 DEF CartTypes
      <4>2. Cart!Leaving(t) \in Int
        BY <4>1, <2>6, LeavingMoves
      <4> QED
        BY <4>2, <2>2 DEF CartTypes, CartCalls
    <3>4. CASE t = q.sku
      <4>1. cart'[t] = (IF q.op = "add" THEN cart[t] + q.n ELSE q.n)
        BY <3>1, <3>4, <2>4 DEF CartTypes
      <4>2. put'[t] = put[t] + (IF q.op = "add" THEN q.n ELSE q.n - cart[t])
        BY <3>1, <3>4, <2>1, <2>5 DEF CartTypes
      <4> HIDE DEF q
      <4> QED
        BY <4>1, <4>2, <3>2, <3>3, <2>1, <2>8
    <3>5. CASE t # q.sku
      <4>1. cart'[t] = cart[t] /\ put'[t] = put[t]
        BY <3>1, <3>5, <2>1, <2>4 DEF CartTypes
      <4> QED
        BY <4>1, <3>2, <2>1, <2>8
    <3> QED
      BY <3>4, <3>5
  <2> QED
    BY <2>6, <2>7, <2>9
<1>3. ASSUME NEW c \in Calls, Cart!ClearCart(c) PROVE CartInv'
  <2>1. /\ at[c] = "idle" /\ at' = at
        /\ cart' = Cart!EmptyCart /\ call' = Cart!Outdated({c})
        /\ ~excused' => ~excused
        /\ put' = [s \in Skus |-> put[s] - cart[s]]
        /\ ordered' = ordered
    BY <1>3 DEF Cart!ClearCart, Cart!WriteCart
  <2>2. /\ call' \in [Calls -> CartCalls]
        /\ \A d \in Calls \ {c} : at[d] # "idle" => d \in Overlapped'
        /\ \A d \in Calls \ {c} : at[d] # "idle" => call'[d].read = call[d].read
        /\ \A d \in Calls \ {c} : at[d] # "idle" => call'[d].sku = call[d].sku
    <3>1. {c} \in SUBSET Calls
      OBVIOUS
    <3> QED
      BY <2>1, <3>1, WriteOutdates DEF Outdates
  <2>3. CartTypes' /\ ReadsCart'
    <3>1. cart' \in [Skus -> Nat] /\ put' \in [Skus -> Int]
      BY <2>1 DEF CartTypes, Cart!EmptyCart
    <3>2. CartTypes'
      BY <3>1, <2>1, <2>2 DEF CartTypes
    <3>3. ReadsCart'
      BY <2>1, <2>2 DEF ReadsCart
    <3> QED
      BY <3>2, <3>3
  <2>4. ASSUME NEW t \in Skus PROVE Cart!Leaving(t)' = Cart!Leaving(t) /\ Cart!Leaving(t) \in Int
    <3>1. TakenBy(c, t) = 0 /\ TakenBy(c, t)' = 0
      BY <2>1 DEF TakenBy
    <3>2. \A d \in Calls \ {c} : (at'[d] = "clear" <=> at[d] = "clear")
                                /\ (at[d] = "clear" => call'[d].read = call[d].read)
      BY <2>1, <2>2
    <3> QED
      BY <3>1, <3>2, <2>3, LeavingMoves
  <2>5. Cart!UnitsAreConserved'
    BY <2>1, <2>4 DEF Cart!UnitsAreConserved, Cart!EmptyCart, CartTypes
  <2> QED
    BY <2>3, <2>5
<1>4. ASSUME NEW c \in Calls, Cart!CreateCheckout(c) PROVE CartInv'
  <2>1. /\ at[c] = "order" /\ at' = [at EXCEPT ![c] = "clear"]
        /\ ordered' = [s \in Skus |-> ordered[s] + call[c].read[s]]
        /\ UNCHANGED <<cart, call, put, excused>>
    BY <1>4 DEF Cart!CreateCheckout
  <2>2. \A s \in Skus : call[c].read[s] \in Nat
    BY DEF CartTypes, CartCalls
  <2>3. CartTypes' /\ ReadsCart'
    BY <2>1, <2>2 DEF CartTypes, ReadsCart, Overlapped
  <2>4. ASSUME NEW t \in Skus
        PROVE  Cart!Leaving(t)' = Cart!Leaving(t) + call[c].read[t] /\ Cart!Leaving(t) \in Int
    <3>1. TakenBy(c, t) = 0 /\ TakenBy(c, t)' = call[c].read[t]
      BY <2>1 DEF TakenBy, CartTypes
    <3>2. \A d \in Calls \ {c} : at'[d] = at[d] /\ call'[d] = call[d]
      BY <2>1 DEF CartTypes
    <3> QED
      BY <3>1, <3>2, <2>3, LeavingMoves
  <2>5. Cart!UnitsAreConserved'
    BY <2>1, <2>2, <2>4 DEF Cart!UnitsAreConserved, CartTypes
  <2> QED
    BY <2>3, <2>5
<1>5. ASSUME NEW c \in Calls, at[c] # "idle", at' = [at EXCEPT ![c] = "idle"],
             call' = [call EXCEPT ![c] = Cart!NoCall], UNCHANGED <<cart, put>>,
             \/ at[c] # "clear" /\ UNCHANGED <<ordered, excused>>
             \/ excused' /\ ordered' \in [Skus -> Nat]
      PROVE  CartInv'
  <2>1. CartTypes' /\ ReadsCart'
    BY <1>0, <1>5 DEF CartTypes, ReadsCart, Overlapped
  <2>2. CASE at[c] # "clear" /\ UNCHANGED <<ordered, excused>>
    <3>1. ASSUME NEW t \in Skus PROVE Cart!Leaving(t)' = Cart!Leaving(t)
      <4>1. TakenBy(c, t) = 0 /\ TakenBy(c, t)' = 0
        BY <1>5, <2>2 DEF TakenBy, CartTypes
      <4>2. \A d \in Calls \ {c} : at'[d] = at[d] /\ call'[d] = call[d]
        BY <1>5 DEF CartTypes
      <4> QED
        BY <4>1, <4>2, <2>1, LeavingMoves
    <3> QED
      BY <1>5, <2>1, <2>2, <3>1 DEF Cart!UnitsAreConserved
  <2>3. CASE excused'
    BY <2>1, <2>3 DEF Cart!UnitsAreConserved
  <2> QED
    BY <1>5, <2>2, <2>3
<1>6. ASSUME NEW c \in Calls, Cart!GiveUp(c) PROVE CartInv'
  <2>1. [s \in Skus |-> ordered[s] + call[c].read[s]] \in [Skus -> Nat]
    BY DEF CartTypes, CartCalls
  <2> QED
    BY <1>5, <1>6, <2>1 DEF Cart!GiveUp, Cart!Return
<1>7. ASSUME NEW c \in Calls, Cart!DeleteFails(c) PROVE CartInv'
  <2>1. ordered \in [Skus -> Nat]
    BY DEF CartTypes
  <2> QED
    BY <1>5, <1>7, <2>1 DEF Cart!DeleteFails, Cart!Return
<1>8. ASSUME NEW c \in Calls, Cart!DeleteCart(c) PROVE CartInv'
  <2>1. /\ at[c] = "clear" /\ at' = [at EXCEPT ![c] = "idle"]
        /\ cart' = Cart!EmptyCart /\ call' = Cart!Outdated({c})
        /\ ~excused' => ~excused /\ c \notin Overlapped
        /\ UNCHANGED <<put, ordered>>
    BY <1>8 DEF Cart!DeleteCart, Cart!WriteCart, Cart!Return, Overlapped
  <2>2. /\ call' \in [Calls -> CartCalls]
        /\ \A d \in Calls \ {c} : at[d] # "idle" => d \in Overlapped'
        /\ \A d \in Calls \ {c} : at[d] # "idle" => call'[d].read = call[d].read
        /\ \A d \in Calls \ {c} : at[d] # "idle" => call'[d].sku = call[d].sku
    <3>1. {c} \in SUBSET Calls
      OBVIOUS
    <3> QED
      BY <2>1, <3>1, WriteOutdates DEF Outdates
  <2>3. CartTypes' /\ ReadsCart'
    BY <2>1, <2>2 DEF CartTypes, ReadsCart, Cart!EmptyCart
  <2>4. ASSUME NEW t \in Skus
        PROVE  Cart!Leaving(t)' = Cart!Leaving(t) - call[c].read[t] /\ Cart!Leaving(t) \in Int
    <3>1. TakenBy(c, t) = call[c].read[t] /\ TakenBy(c, t)' = 0
      BY <2>1 DEF TakenBy, CartTypes
    <3>2. \A d \in Calls \ {c} : (at'[d] = "clear" <=> at[d] = "clear")
                                /\ (at[d] = "clear" => call'[d].read = call[d].read)
      BY <2>1, <2>2 DEF CartTypes
    <3> QED
      BY <3>1, <3>2, <2>3, LeavingMoves
  <2>5. Cart!UnitsAreConserved'
    <3> SUFFICES ASSUME ~excused', NEW t \in Skus
                 PROVE  cart'[t] + ordered'[t] - Cart!Leaving(t)' = put'[t]
      BY DEF Cart!UnitsAreConserved
    <3>1. call[c].read = cart /\ cart[t] + ordered[t] - Cart!Leaving(t) = put[t]
      BY <2>1 DEF ReadsCart, Cart!UnitsAreConserved
    <3>2. cart'[t] = 0 /\ cart[t] \in Nat /\ ordered[t] \in Nat
      BY <2>1 DEF Cart!EmptyCart, CartTypes
    <3> QED
      BY <2>1, <2>4, <3>1, <3>2
  <2> QED
    BY <2>3, <2>5
<1>9. ASSUME Cart!Lapse PROVE CartInv'
  <2>1. cart' = Cart!EmptyCart /\ call' = Cart!Outdated({}) /\ excused' /\ UNCHANGED <<at, put, ordered>>
    BY <1>9 DEF Cart!Lapse
  <2>2. /\ call' \in [Calls -> CartCalls]
        /\ \A d \in Calls : at[d] # "idle" => d \in Overlapped'
        /\ \A d \in Calls : at[d] # "idle" => call'[d].read = call[d].read
        /\ \A d \in Calls : at[d] # "idle" => call'[d].sku = call[d].sku
    <3>1. {} \in SUBSET Calls
      OBVIOUS
    <3> QED
      BY <2>1, <3>1, WriteOutdates DEF Outdates
  <2>3. CartTypes' /\ ReadsCart'
    BY <2>1, <2>2 DEF CartTypes, ReadsCart, Cart!EmptyCart
  <2> QED
    BY <2>1, <2>3 DEF Cart!UnitsAreConserved
<1>10. ASSUME NEW c \in Calls, NEW new \in [Skus -> Nat], Cart!Unanswered(c, new) PROVE CartInv'
  <2>1. /\ at' = [at EXCEPT ![c] = "idle"] /\ cart' = new /\ call' = Cart!Outdated({c})
        /\ excused' /\ UNCHANGED <<put, ordered>>
    BY <1>10 DEF Cart!Unanswered, Cart!Return
  <2>2. /\ call' \in [Calls -> CartCalls]
        /\ \A d \in Calls \ {c} : at[d] # "idle" => d \in Overlapped'
        /\ \A d \in Calls \ {c} : at[d] # "idle" => call'[d].read = call[d].read
        /\ \A d \in Calls \ {c} : at[d] # "idle" => call'[d].sku = call[d].sku
    <3>1. {c} \in SUBSET Calls
      OBVIOUS
    <3> QED
      BY <2>1, <3>1, WriteOutdates DEF Outdates
  <2>3. CartTypes' /\ ReadsCart'
    BY <2>1, <2>2 DEF CartTypes, ReadsCart
  <2> QED
    BY <2>1, <2>3 DEF Cart!UnitsAreConserved
<1>11. CASE UNCHANGED Cart!vars
  <2>1. UNCHANGED <<cart, at, call, put, ordered, excused>>
    BY <1>11 DEF Cart!vars
  <2>2. CartTypes' /\ ReadsCart'
    BY <2>1 DEF CartTypes, ReadsCart, Overlapped
  <2>3. \A s : Cart!Leaving(s)' = Cart!Leaving(s)
    BY <2>1, LeavingIsSum DEF UnitsRead, Clearing
  <2> QED
    BY <2>1, <2>2, <2>3 DEF Cart!UnitsAreConserved
<1>12. CASE Cart!Next
  <2>1. \A n \in 1..MaxQuantity : n \in Nat
    BY ServicesAssumption
  <2>2. ASSUME NEW c \in Calls, Cart!AddItem(c) PROVE CartInv'
    BY <1>1, <2>1, <2>2 DEF Cart!AddItem
  <2>3. ASSUME NEW c \in Calls, Cart!UpdateItemQuantity(c) PROVE CartInv'
    BY <1>1, <2>1, <2>3 DEF Cart!UpdateItemQuantity
  <2>4. ASSUME NEW c \in Calls, Cart!RemoveItem(c) PROVE CartInv'
    BY <1>1, <2>4 DEF Cart!RemoveItem
  <2>5. ASSUME NEW c \in Calls, Cart!Checkout(c) PROVE CartInv'
    BY <1>1, <2>5 DEF Cart!Checkout
  <2>6. ASSUME NEW c \in Calls,
               Cart!SaveUnanswered(c) \/ Cart!DeleteUnanswered(c) \/ Cart!ClearUnanswered(c)
        PROVE  CartInv'
    <3>1. CASE Cart!SaveUnanswered(c)
      <4>1. at[c] = "write" /\ Cart!Unanswered(c, Cart!Saved(c))
        BY <3>1 DEF Cart!SaveUnanswered
      <4>2. Cart!Saved(c) \in [Skus -> Nat]
        BY <4>1 DEF Cart!Saved, CartTypes, CartCalls
      <4> QED
        BY <1>10, <4>1, <4>2
    <3>2. CASE Cart!DeleteUnanswered(c) \/ Cart!ClearUnanswered(c)
      BY <1>10, <3>2 DEF Cart!DeleteUnanswered, Cart!ClearUnanswered, Cart!EmptyCart
    <3> QED
      BY <2>6, <3>1, <3>2
  <2> QED
    BY <1>2, <1>3, <1>4, <1>6, <1>7, <1>8, <1>9, <1>12, <2>2, <2>3, <2>4, <2>5, <2>6 DEF Cart!Next
<1> QED
  BY <1>11, <1>12

\* cart-svc: with no lock and no version on the cart, every unit that was put there is
\* in it or in one order, unless a call wrote over a cart it had not read, an answer or
\* a deletion was lost or the key lapsed.
THEOREM UnitsAreAlwaysConserved == Cart!Spec => []Cart!UnitsAreConserved
<1>1. Cart!Init => CartInv
  BY CartInit
<1>2. CartInv /\ [Cart!Next]_(Cart!vars) => CartInv'
  BY CartNext
<1>3. CartInv => Cart!UnitsAreConserved
  BY DEF CartInv
<1> QED
  BY <1>1, <1>2, <1>3, PTL DEF Cart!Spec

\* The same where the services take turns.
THEOREM UnitsConservedInTurn == MCSpec => []UnitsAreConserved
<1> DEFINE I == focus = "cart" => CartInv
<1>1. MCInit => I
  BY FocusInit, CartInit
<1>2. I /\ [MCNext]_allVars => I'
  BY FocusStep, CartNext
<1>3. I => UnitsAreConserved
  BY DEF UnitsAreConserved, CartInv
<1> QED
  BY <1>1, <1>2, <1>3, PTL DEF MCSpec


-----------------------------------------------------------------------------
(***************************************************************************)
(* review-svc                                                               *)
(***************************************************************************)

ReviewCalls ==
  [op : {"none", "update", "delete"}, buyer : Buyers, id : Nat, read : Nat, new : Nat]

\* A rating of 0 is none: only a deletion writes it, and what is read is not 0.
ReviewTypes ==
  /\ rating \in [Buyers -> Nat] /\ id \in [Buyers -> Nat]
  /\ sum \in Int /\ count \in Int
  /\ at \in [Calls -> {"idle", "write"}] /\ call \in [Calls -> ReviewCalls]
  /\ \A c \in Calls : at[c] = "write" =>
       /\ call[c].op \in {"update", "delete"} /\ call[c].read > 0
       /\ call[c].new = 0 <=> call[c].op = "delete"

ReviewInv == ReviewTypes /\ Reviews!DriftNeedsRace

LEMMA StoredIs == Reviews!Stored = SumOver(rating, Reviews!Reviews)
  BY DEF Reviews!Stored, Reviews!MapThenSumSet, Reviews!MapThenFoldSet, SumOver, SetSums

LEMMA StoredIsSum ==
  /\ Reviews!Stored = SumOver(rating, Reviews!Reviews)
  /\ Reviews!Stored' = SumOver(rating', Reviews!Reviews')
<1>1. (Reviews!Stored = SumOver(rating, Reviews!Reviews))'
  BY StoredIs, PTL
<1> QED
  BY <1>1, StoredIs

\* The instance counts as everybody does.
LEMMA ReviewsCounted ==
  /\ Reviews!DriftNeedsRace <=> count = Cardinality(Reviews!Reviews) /\ (sum = Reviews!Stored \/ raced)
  /\ Reviews!DriftNeedsRace' <=>
       count' = Cardinality(Reviews!Reviews') /\ (sum' = Reviews!Stored' \/ raced')
<1>1. \A S : Reviews!Cardinality(S) = Cardinality(S)
  BY DEF Reviews!Cardinality, Cardinality
<1> QED
  BY <1>1 DEF Reviews!DriftNeedsRace

LEMMA ReviewInit == ASSUME Reviews!Init PROVE ReviewInv
<1>1. Reviews!NoCall \in ReviewCalls
  BY ServicesAssumption DEF Reviews!NoCall, ReviewCalls
<1>2. ReviewTypes
  <2>1. call \in [Calls -> ReviewCalls]
    BY <1>1 DEF Reviews!Init
  <2>2. at \in [Calls -> {"idle", "write"}] /\ \A c \in Calls : at[c] # "write"
    BY DEF Reviews!Init
  <2>3. rating \in [Buyers -> Nat] /\ id \in [Buyers -> Nat]
    BY DEF Reviews!Init
  <2>4. sum \in Int /\ count \in Int
    BY DEF Reviews!Init
  <2> QED
    BY <2>1, <2>2, <2>3, <2>4 DEF ReviewTypes
<1>3. Reviews!Reviews = {}
  BY DEF Reviews!Init, Reviews!Reviews
<1>4. count = Cardinality(Reviews!Reviews) /\ sum = Reviews!Stored
  BY <1>3, StoredIsSum, SumNothing, FS_EmptySet DEF Reviews!Init
<1> QED
  BY <1>2, <1>4, ReviewsCounted DEF ReviewInv

\* What one rating counts for.
Counted(n) == IF n > 0 THEN 1 ELSE 0

\* Giving buyer b the rating n, or none.
LEMMA RatingChanged ==
  ASSUME ReviewTypes, NEW b \in Buyers, NEW n \in Nat, rating' = [rating EXCEPT ![b] = n]
  PROVE  /\ Reviews!Stored \in Int
         /\ Reviews!Stored' = Reviews!Stored - rating[b] + n
         /\ Cardinality(Reviews!Reviews) \in Nat
         /\ Cardinality(Reviews!Reviews') =
              Cardinality(Reviews!Reviews) - Counted(rating[b]) + Counted(n)
<1> DEFINE R == Reviews!Reviews
           S == Reviews!Reviews'
           Q == R \ {b}
<1>1. /\ R = {x \in Buyers : rating[x] > 0}
      /\ S = {x \in Buyers : rating'[x] > 0}
      /\ IsFiniteSet(R) /\ IsFiniteSet(S) /\ IsFiniteSet(Q)
  BY ServicesAssumption, FS_Subset, FS_RemoveElement DEF Reviews!Reviews
<1>2. /\ rating' \in [Buyers -> Nat] /\ rating'[b] = n
      /\ \A x \in Buyers \ {b} : rating'[x] = rating[x]
      /\ rating \in [Buyers -> Nat]
  BY DEF ReviewTypes
<1>3. /\ R \subseteq Buyers /\ S \subseteq Buyers /\ Q \subseteq Buyers
      /\ b \in R <=> rating[b] > 0
      /\ b \in S <=> n > 0
      /\ S \ {b} = Q /\ b \notin Q
  BY <1>1, <1>2
<1>4. Reviews!Stored = SumOver(rating, R) /\ Reviews!Stored' = SumOver(rating', S)
  BY StoredIsSum
<1> HIDE DEF R, S, Q
<1>5. SumOver(rating, Q) \in Int /\ SumOver(rating', Q) = SumOver(rating, Q)
  <2>1. \A x \in Q : rating[x] \in Int /\ rating'[x] = rating[x]
    BY <1>2, <1>3
  <2> QED
    BY <2>1, <1>1, SumType, SumAgrees
<1>6. SumOver(rating, R) = SumOver(rating, Q) + rating[b]
  <2>1. CASE b \in R
    <3>1. \A x \in R : rating[x] \in Int
      BY <1>2, <1>3
    <3> QED
      BY <2>1, <3>1, <1>1, <1>5, SumWithout DEF Q
  <2>2. CASE b \notin R
    <3>1. Q = R /\ rating[b] = 0
      BY <2>2, <1>2, <1>3 DEF Q
    <3> QED
      BY <3>1, <1>5
  <2> QED
    BY <2>1, <2>2
<1>7. SumOver(rating', S) = SumOver(rating', Q) + n
  <2>1. CASE b \in S
    <3>1. \A x \in S : rating'[x] \in Int
      BY <1>2, <1>3
    <3>2. SumOver(rating', S) = rating'[b] + SumOver(rating', S \ {b})
      <4> DEFINE f == rating'
      <4>1. IsFiniteSet(S) /\ b \in S /\ \A x \in S : f[x] \in Int
        BY <2>1, <3>1, <1>1
      <4> HIDE DEF f
      <4>2. SumOver(f, S) = f[b] + SumOver(f, S \ {b})
        BY <4>1, SumWithout
      <4> QED
        BY <4>2 DEF f
    <3> QED
      BY <3>2, <1>2, <1>3, <1>5
  <2>2. CASE b \notin S
    <3>1. Q = S /\ n = 0
      BY <2>2, <1>3
    <3> QED
      BY <3>1, <1>5
  <2> QED
    BY <2>1, <2>2
<1>8. /\ Cardinality(R) = Cardinality(Q) + Counted(rating[b])
      /\ Cardinality(S) = Cardinality(Q) + Counted(n)
      /\ Cardinality(Q) \in Nat /\ Cardinality(R) \in Nat
  <2>1. Cardinality(Q) \in Nat /\ Cardinality(R) \in Nat
    BY <1>1, FS_CardinalityType
  <2>2. Cardinality(R) = Cardinality(Q) + Counted(rating[b])
    <3>1. CASE b \in R
      <4>1. Cardinality(Q) = Cardinality(R) - 1
        BY <3>1, <1>1, FS_RemoveElement DEF Q
      <4> QED
        BY <4>1, <3>1, <1>3, <2>1 DEF Counted
    <3>2. CASE b \notin R
      <4>1. Q = R
        BY <3>2 DEF Q
      <4> QED
        BY <4>1, <3>2, <1>3, <2>1 DEF Counted
    <3> QED
      BY <3>1, <3>2
  <2>3. Cardinality(S) = Cardinality(Q) + Counted(n)
    <3>1. CASE n > 0
      <4>1. Cardinality(Q) = Cardinality(S) - 1 /\ Cardinality(S) \in Nat
        BY <3>1, <1>1, <1>3, FS_RemoveElement, FS_CardinalityType
      <4> QED
        BY <4>1, <3>1 DEF Counted
    <3>2. CASE ~(n > 0)
      <4>1. S = Q
        BY <3>2, <1>3
      <4> QED
        BY <4>1, <3>2, <2>1 DEF Counted
    <3> QED
      BY <3>1, <3>2
  <2> QED
    BY <2>1, <2>2, <2>3
<1> QED
  BY <1>2, <1>4, <1>5, <1>6, <1>7, <1>8 DEF R, S, Counted

LEMMA ReviewNext == ASSUME ReviewInv, [Reviews!Next]_(Reviews!vars) PROVE ReviewInv'
<1> USE DEF ReviewInv
<1>1. ASSUME NEW b \in Buyers, Reviews!CreateReview(b) PROVE ReviewInv'
  <2>1. PICK n \in Stars : rating' = [rating EXCEPT ![b] = n] /\ Reviews!UpsertProductRating(n, 1)
    BY <1>1 DEF Reviews!CreateReview
  <2>2. n \in Nat /\ n > 0 /\ rating[b] = 0
    BY <1>1, ServicesAssumption DEF Reviews!CreateReview
  <2>3. ReviewTypes'
    BY <1>1, <2>1, <2>2 DEF Reviews!CreateReview, Reviews!UpsertProductRating, ReviewTypes
  <2>4. Reviews!DriftNeedsRace'
    <3>1. /\ Reviews!Stored \in Int
          /\ Reviews!Stored' = Reviews!Stored + n
          /\ Cardinality(Reviews!Reviews) \in Nat
          /\ Cardinality(Reviews!Reviews') = Cardinality(Reviews!Reviews) + 1
      <4>1. /\ Reviews!Stored \in Int
            /\ Reviews!Stored' = Reviews!Stored - rating[b] + n
            /\ Cardinality(Reviews!Reviews) \in Nat
            /\ Cardinality(Reviews!Reviews') =
                 Cardinality(Reviews!Reviews) - Counted(rating[b]) + Counted(n)
        BY <2>1, <2>2, RatingChanged
      <4>2. Counted(rating[b]) = 0 /\ Counted(n) = 1
        BY <2>2 DEF Counted
      <4> QED
        BY <4>1, <4>2, <2>2
    <3>2. count' = count + 1 /\ sum' = sum + n /\ raced' = raced
      BY <1>1, <2>1 DEF Reviews!CreateReview, Reviews!UpsertProductRating
    <3>3. CASE raced
      BY <3>1, <3>2, <3>3, ReviewsCounted
    <3>4. CASE sum = Reviews!Stored
      BY <3>1, <3>2, <3>4, ReviewsCounted
    <3> QED
      BY <3>3, <3>4, ReviewsCounted
  <2> QED
    BY <2>3, <2>4
<1>2. ASSUME UNCHANGED <<rating, sum, count, raced>> PROVE Reviews!DriftNeedsRace'
  <2>1. Reviews!Stored' = Reviews!Stored /\ Reviews!Reviews' = Reviews!Reviews
    BY <1>2, StoredIsSum DEF Reviews!Reviews
  <2> QED
    BY <1>2, <2>1, ReviewsCounted
<1>3. ASSUME NEW c \in Calls, NEW op \in {"update", "delete"}, NEW b \in Buyers, NEW n \in Nat,
             n = 0 <=> op = "delete", Reviews!Load(c, op, b, n)
      PROVE  ReviewInv'
  <2>1. ReviewTypes'
    BY <1>3 DEF Reviews!Load, ReviewTypes, ReviewCalls
  <2> QED
    BY <1>2, <1>3, <2>1 DEF Reviews!Load
<1>4. ASSUME NEW c \in Calls, Reviews!Write(c) PROVE ReviewInv'
  <2> DEFINE b == call[c].buyer
  <2>1. /\ call[c] \in ReviewCalls /\ b \in Buyers
        /\ call[c].op \in {"update", "delete"} /\ call[c].read > 0
        /\ call[c].new = 0 <=> call[c].op = "delete"
    BY <1>4 DEF Reviews!Write, ReviewTypes, ReviewCalls
  <2>2. Reviews!NoCall \in ReviewCalls
    BY ServicesAssumption DEF Reviews!NoCall, ReviewCalls
  <2>3. call' \in [Calls -> ReviewCalls] /\ at' \in [Calls -> {"idle", "write"}]
        /\ \A d \in Calls : at'[d] = "write" => at[d] = "write" /\ call'[d] = call[d]
    BY <1>4, <2>2 DEF Reviews!Write, ReviewTypes
  <2>4. CASE ~Reviews!RowStands(c)
    <3>1. UNCHANGED <<rating, sum, count, raced, id>>
      BY <1>4, <2>4 DEF Reviews!Write
    <3>2. ReviewTypes'
      BY <3>1, <2>3 DEF ReviewTypes
    <3> QED
      BY <3>1, <3>2, <1>2
  <2>5. CASE Reviews!RowStands(c)
    <3>1. /\ rating' = [rating EXCEPT ![b] = call[c].new]
          /\ sum' = sum + (call[c].new - call[c].read)
          /\ count' = count + (IF call[c].op = "delete" THEN -1 ELSE 0)
          /\ raced' = (raced \/ rating[b] # call[c].read)
          /\ id' = id /\ rating[b] > 0
      BY <1>4, <2>5 DEF Reviews!Write, Reviews!UpsertProductRating, Reviews!RowStands
    <3>2. call[c].new \in Nat /\ call[c].read \in Nat /\ rating[b] \in Nat
      BY <2>1 DEF ReviewCalls, ReviewTypes
    <3>3. ReviewTypes'
      BY <3>1, <3>2, <2>1, <2>3 DEF ReviewTypes
    <3>4. Reviews!DriftNeedsRace'
      <4> HIDE DEF b
      <4>1. /\ Reviews!Stored \in Int
            /\ Reviews!Stored' = Reviews!Stored - rating[b] + call[c].new
            /\ Cardinality(Reviews!Reviews) \in Nat
            /\ Cardinality(Reviews!Reviews') =
                 Cardinality(Reviews!Reviews) - Counted(rating[b]) + Counted(call[c].new)
        BY <3>1, <3>2, <2>1, RatingChanged
      <4>2. Counted(rating[b]) = 1
        BY <3>1 DEF Counted
      <4>3. count' = Cardinality(Reviews!Reviews')
        BY <4>1, <4>2, <3>1, <3>2, <2>1, ReviewsCounted DEF Counted
      <4>4. sum' = Reviews!Stored' \/ raced'
        <5>1. raced => raced'
          BY <3>1
        <5>2. rating[b] # call[c].read => raced'
          BY <3>1
        <5>3. rating[b] = call[c].read /\ sum = Reviews!Stored => sum' = Reviews!Stored'
          BY <4>1, <3>1, <3>2
        <5> QED
          BY <5>1, <5>2, <5>3, ReviewsCounted
      <4> QED
        BY <4>3, <4>4, ReviewsCounted
    <3> QED
      BY <3>3, <3>4
  <2> QED
    BY <2>4, <2>5
<1>5. CASE UNCHANGED Reviews!vars
  <2>1. ReviewTypes'
    BY <1>5 DEF Reviews!vars, ReviewTypes
  <2> QED
    BY <1>2, <1>5, <2>1 DEF Reviews!vars
<1>6. CASE Reviews!Next
  <2>1. \A n \in Stars : n \in Nat /\ n # 0
    BY ServicesAssumption
  <2> QED
    BY <1>1, <1>3, <1>4, <1>6, <2>1 DEF Reviews!Next, Reviews!UpdateReview, Reviews!DeleteReview
<1> QED
  BY <1>5, <1>6

\* review-svc: however creations, updates and deletions of reviews overlap, the count is
\* the number of reviews; and their stars add up to the sum unless a review was written
\* by a call that had read another rating of it.
THEOREM DriftAlwaysNeedsRace == Reviews!Spec => []Reviews!DriftNeedsRace
<1>1. Reviews!Init => ReviewInv
  BY ReviewInit
<1>2. ReviewInv /\ [Reviews!Next]_(Reviews!vars) => ReviewInv'
  BY ReviewNext
<1>3. ReviewInv => Reviews!DriftNeedsRace
  BY DEF ReviewInv
<1> QED
  BY <1>1, <1>2, <1>3, PTL DEF Reviews!Spec

\* The same where the services take turns.
THEOREM DriftNeedsRaceInTurn == MCSpec => []DriftNeedsRace
<1> DEFINE I == focus = "reviews" => ReviewInv
<1>1. MCInit => I
  BY FocusInit, ReviewInit
<1>2. I /\ [MCNext]_allVars => I'
  BY FocusStep, ReviewNext
<1>3. I => DriftNeedsRace
  BY DEF DriftNeedsRace, ReviewInv
<1> QED
  BY <1>1, <1>2, <1>3, PTL DEF MCSpec

-----------------------------------------------------------------------------
(***************************************************************************)
(* subscription-svc and search-svc                                         *)
(***************************************************************************)

BoostProofs == INSTANCE PlanBoostProofs WITH
  Sellers <- Buyers, Boosts <- BoostLevels, MaxCalls <- MaxWrites, pc <- at

\* The plans and the boosts are an instance the theorems of PlanBoostProofs are about:
\* two instances of one module, action by action.
LEMMA SameBoosts ==
  /\ Subs!Init => BoostProofs!Init
  /\ [Subs!Next]_(Subs!vars) => [BoostProofs!Next]_(BoostProofs!vars)
<1>1. Subs!Init => BoostProofs!Init
  BY DEF Subs!Init, BoostProofs!Init, Subs!Plan, BoostProofs!Plan, Subs!NoPlan,
         BoostProofs!NoPlan, Subs!NoRow, BoostProofs!NoRow, Subs!NoCall, BoostProofs!NoCall
<1>2. Subs!feedVars = BoostProofs!feedVars /\ Subs!vars = BoostProofs!vars
  BY DEF Subs!feedVars, BoostProofs!feedVars, Subs!vars, BoostProofs!vars
<1>3. Subs!NoCall = BoostProofs!NoCall /\ Subs!Started = BoostProofs!Started
  BY DEF Subs!NoCall, BoostProofs!NoCall, Subs!NoPlan, BoostProofs!NoPlan,
         Subs!Started, BoostProofs!Started
<1>4. Subs!CreatePlan => BoostProofs!CreatePlan
  BY DEF Subs!CreatePlan, BoostProofs!CreatePlan, Subs!Plan, BoostProofs!Plan,
         Subs!Started, BoostProofs!Started, Subs!feedVars, BoostProofs!feedVars
<1>5. \A c, request : Subs!Begin(c, request) => BoostProofs!Begin(c, request)
  BY DEF Subs!Begin, BoostProofs!Begin, Subs!Started, BoostProofs!Started,
         Subs!feedVars, BoostProofs!feedVars
<1>6. \A c \in Calls : Subs!SubscribeSeller(c) => BoostProofs!SubscribeSeller(c)
  BY <1>3, <1>5 DEF Subs!SubscribeSeller, BoostProofs!SubscribeSeller
<1>7. \A c \in Calls : Subs!UpdatePlan(c) => BoostProofs!UpdatePlan(c)
  BY <1>3, <1>5 DEF Subs!UpdatePlan, BoostProofs!UpdatePlan, Subs!Plan, BoostProofs!Plan
<1>8. \A c \in Calls : Subs!WriteSubscription(c) => BoostProofs!WriteSubscription(c)
  BY DEF Subs!WriteSubscription, BoostProofs!WriteSubscription, Subs!feedVars, BoostProofs!feedVars
<1>9. \A c \in Calls : Subs!WritePlan(c) => BoostProofs!WritePlan(c)
  BY DEF Subs!WritePlan, BoostProofs!WritePlan, Subs!Outdated, BoostProofs!Outdated,
         Subs!Blurred, BoostProofs!Blurred, Subs!feedVars, BoostProofs!feedVars
<1>10. \A c \in Calls : Subs!Publish(c) => BoostProofs!Publish(c)
  BY <1>3 DEF Subs!Publish, BoostProofs!Publish, Subs!Event, BoostProofs!Event
<1>11. \A c \in Calls : Subs!Fail(c) => BoostProofs!Fail(c)
  BY <1>3 DEF Subs!Fail, BoostProofs!Fail, Subs!feedVars, BoostProofs!feedVars
<1>12. Subs!Deliver => BoostProofs!Deliver
  BY DEF Subs!Deliver, BoostProofs!Deliver, Subs!Reaches, BoostProofs!Reaches, Subs!Row,
         BoostProofs!Row, Subs!Effective, BoostProofs!Effective
<1>13. Subs!Next => BoostProofs!Next
  BY <1>4, <1>6, <1>7, <1>8, <1>9, <1>10, <1>11, <1>12 DEF Subs!Next, BoostProofs!Next
<1>14. UNCHANGED Subs!vars => UNCHANGED BoostProofs!vars
  BY DEF Subs!vars, BoostProofs!vars
<1> QED
  BY <1>1, <1>13, <1>14

LEMMA BoostParams == BoostProofs!Params
  BY ServicesAssumption DEF BoostProofs!Params

\* subscription-svc and search-svc: a boost is wrong only after a lost or late event, an
\* overlap or a tier that does not tell the plan, and the newest event heals it.
THEOREM BoostsTellPlansInTurn == MCSpec => []BoostsTellPlans
<1> DEFINE I == focus = "plans" => BoostProofs!DriftInv
<1>1. MCInit => I
  BY FocusInit, SameBoosts, BoostParams, BoostProofs!DriftInvInit
<1>2. I /\ [MCNext]_allVars => I'
  BY FocusStep, SameBoosts, BoostParams, BoostProofs!DriftInvNext
<1>3. BoostProofs!DriftInv => Subs!NewestCommitHeals /\ Subs!DriftNeedsACause
  <2>1. BoostProofs!DriftInv => BoostProofs!NewestCommitHeals /\ BoostProofs!DriftNeedsACause
    BY BoostProofs!DriftTold
  <2>2. \A s \in Buyers : BoostProofs!Tells(s) <=> Subs!Tells(s)
    BY DEF BoostProofs!Tells, Subs!Tells, BoostProofs!Effective, Subs!Effective
  <2> QED
    BY <2>1, <2>2 DEF BoostProofs!NewestCommitHeals, Subs!NewestCommitHeals,
       BoostProofs!DriftNeedsACause, Subs!DriftNeedsACause, BoostProofs!Quiet, Subs!Quiet
<1>4. I => BoostsTellPlans
  BY <1>3 DEF BoostsTellPlans
<1> QED
  BY <1>1, <1>2, <1>4, PTL DEF MCSpec
=============================================================================
