------------------------------ MODULE LoyaltyLedger -----------------------------
(***************************************************************************)
(* loyalty-svc: one buyer's point account and its append-only ledger.      *)
(* Checkouts reserve points, the payment webhook burns them and credits    *)
(* the earn, order.paid and order.cancelled events credit, refund and      *)
(* reverse, administrators adjust, and two reapers expire reservations and *)
(* points.                                                                 *)
(*                                                                         *)
(* Every writer holds the account's row lock until it commits, so it is    *)
(* one step. Commit and release read the reservation before they get the   *)
(* lock: that read is a step of its own. A transaction that violates a     *)
(* CHECK of point_accounts is rolled back and changes nothing.             *)
(***************************************************************************)
EXTENDS Integers, Sequences, FiniteSets

CONSTANTS
  Orders,        \* the buyer's orders
  Earn,          \* Earn[o]: ComputeEarnAmount of the order's subtotal
  Redeem,        \* Redeem[o]: points its checkout reserves; 0 for none
  CanCancel,     \* the orders that may be cancelled
  Adjustments,   \* amounts an administrator may enter
  MaxAdjusts,    \* adjustments made
  Workers        \* commit and release calls that can run at once

ASSUME LoyaltyAssumption ==
  /\ IsFiniteSet(Orders) /\ Orders # {}
  /\ Earn \in [Orders -> Nat] /\ Redeem \in [Orders -> Nat]
  /\ CanCancel \subseteq Orders
  /\ Adjustments \subseteq Int \ {0} /\ MaxAdjusts \in Nat

VARIABLES
  \* loyalty_svc.point_accounts
  balance, pending, lifetimeEarned, lifetimeRedeemed,
  \* loyalty_svc.point_transactions in ledger_seq order, and the earn rows
  \* that are past expires_at
  ledger, lapsedEarns,
  \* loyalty_svc.point_reservations by the order they were made for, and those
  \* past expires_at
  resStatus, lapsed,
  \* orders paid for; order.cancelled events: [points, earned] or none, and
  \* those handled
  paid, cancelled, applied,
  \* calls in flight
  wpc, worder,
  adjusts

accountVars     == <<balance, pending, lifetimeEarned, lifetimeRedeemed>>
ledgerVars      == <<ledger, lapsedEarns>>
reservationVars == <<resStatus, lapsed>>
orderVars       == <<paid, cancelled, applied>>
workerVars      == <<wpc, worder>>
vars == <<accountVars, ledgerVars, reservationVars, orderVars, workerVars, adjusts>>

NoEvent == [points |-> -1, earned |-> -1]

Init ==
  /\ balance = 0 /\ pending = 0 /\ lifetimeEarned = 0 /\ lifetimeRedeemed = 0
  /\ ledger = <<>> /\ lapsedEarns = {}
  /\ resStatus = [o \in Orders |-> "none"] /\ lapsed = {}
  /\ paid = {} /\ cancelled = [o \in Orders |-> NoEvent] /\ applied = {}
  /\ wpc = [w \in Workers |-> "idle"] /\ worder \in [Workers -> {CHOOSE o \in Orders : TRUE}]
  /\ adjusts = 0

-------------------------------------------------------------------------------
(***************************************************************************)
(* Rows. A row's key stands for (source_type, source_id) and is an order,  *)
(* the index of an earn row (expire), or its own index (adjust).           *)
(***************************************************************************)

Row(type, key, amount, after) ==
  [type |-> type, key |-> key, amount |-> amount, after |-> after]

\* GetByIdempotency.
HasRow(type, key) == \E i \in DOMAIN ledger : ledger[i].type = type /\ ledger[i].key = key

\* The CHECK constraints of point_accounts on the values about to be written.
Checked(b, p) == 0 <= p /\ p <= b

\* AwardEarn: the synchronous call for an order without a reservation, or the
\* order.paid subscriber, which runs after the commit. A replay changes nothing.
AwardEarn(o) ==
  /\ o \in paid /\ (Redeem[o] = 0 \/ resStatus[o] = "committed")
  /\ Earn[o] > 0
  /\ ~HasRow("earn", o)
  /\ Checked(balance + Earn[o], pending)
  /\ balance' = balance + Earn[o]
  /\ lifetimeEarned' = lifetimeEarned + Earn[o]
  /\ ledger' = Append(ledger, Row("earn", o, Earn[o], balance + Earn[o]))
  /\ UNCHANGED <<pending, lifetimeRedeemed, lapsedEarns, reservationVars, orderVars,
                 workerVars, adjusts>>

-------------------------------------------------------------------------------
(***************************************************************************)
(* Reservations.                                                           *)
(***************************************************************************)

\* What can be reserved.
Spendable == balance - pending

ReservePoints(o) ==
  /\ Redeem[o] > 0 /\ resStatus[o] = "none"
  /\ Spendable >= Redeem[o]
  /\ Checked(balance, pending + Redeem[o])
  /\ pending' = pending + Redeem[o]
  /\ resStatus' = [resStatus EXCEPT ![o] = "pending"]
  /\ UNCHANGED <<balance, lifetimeEarned, lifetimeRedeemed, ledgerVars, lapsed, orderVars,
                 workerVars, adjusts>>

\* The payment of an order whose checkout went through.
PaymentSucceeds(o) ==
  /\ o \notin paid /\ (Redeem[o] > 0 => resStatus[o] # "none")
  /\ paid' = paid \cup {o}
  /\ UNCHANGED <<accountVars, ledgerVars, reservationVars, cancelled, applied, workerVars,
                 adjusts>>

\* CommitPointsReservation reads a pending reservation. (One that is not
\* pending is an error, or the replay of a commit: neither changes anything.)
CommitLoad(w, o) ==
  /\ wpc[w] = "idle"
  /\ o \in paid /\ resStatus[o] = "pending"
  /\ wpc' = [wpc EXCEPT ![w] = "commit"]
  /\ worder' = [worder EXCEPT ![w] = o]
  /\ UNCHANGED <<accountVars, ledgerVars, reservationVars, orderVars, adjusts>>

\* Mutant of StillPending: UpdateStatus without its expected status.
AnyStatus(o) == TRUE

\* The WHERE clause of UpdateStatus(pending -> ...).
StillPending(o) == resStatus[o] = "pending"

\* Mutant of EarnBase: from the account snapshot taken before the burn.
EarnBaseSnapshot(o) == balance

\* The balance the earn row of a commit starts from: burnBalanceAfter.
EarnBase(o) == balance - Redeem[o]

\* The part of CommitPointsReservation that holds the account lock: burn, and
\* credit the earn of the same order unless it is there already.
CommitBurn(o) ==
  /\ ~HasRow("redeem", o) /\ StillPending(o)
  /\ Checked(balance - Redeem[o], pending - Redeem[o])
  /\ LET earned == IF HasRow("earn", o) THEN 0 ELSE Earn[o]
         burned == Append(ledger, Row("redeem", o, -Redeem[o], balance - Redeem[o]))
     IN /\ balance' = balance - Redeem[o] + earned
        /\ lifetimeEarned' = lifetimeEarned + earned
        /\ ledger' = IF earned = 0 THEN burned
                     ELSE Append(burned, Row("earn", o, earned, EarnBase(o) + earned))
  /\ pending' = pending - Redeem[o]
  /\ lifetimeRedeemed' = lifetimeRedeemed + Redeem[o]
  /\ resStatus' = [resStatus EXCEPT ![o] = "committed"]

CommitWrite(w) ==
  /\ wpc[w] = "commit"
  /\ \/ CommitBurn(worder[w])
     \/ /\ HasRow("redeem", worder[w]) \/ ~StillPending(worder[w])
        /\ UNCHANGED <<accountVars, ledger, resStatus>>
  /\ wpc' = [wpc EXCEPT ![w] = "idle"]
  /\ UNCHANGED <<lapsedEarns, lapsed, orderVars, worder, adjusts>>

\* ReleasePointsReservation, for a checkout that failed.
ReleaseLoad(w, o) ==
  /\ wpc[w] = "idle"
  /\ resStatus[o] = "pending" /\ o \notin paid
  /\ wpc' = [wpc EXCEPT ![w] = "release"]
  /\ worder' = [worder EXCEPT ![w] = o]
  /\ UNCHANGED <<accountVars, ledgerVars, reservationVars, orderVars, adjusts>>

ReleaseWrite(w) ==
  /\ wpc[w] = "release"
  /\ LET o == worder[w]
     IN \/ /\ StillPending(o) /\ Checked(balance, pending - Redeem[o])
           /\ resStatus' = [resStatus EXCEPT ![o] = "released"]
           /\ pending' = pending - Redeem[o]
        \/ ~StillPending(o) /\ UNCHANGED <<resStatus, pending>>
  /\ wpc' = [wpc EXCEPT ![w] = "idle"]
  /\ UNCHANGED <<balance, lifetimeEarned, lifetimeRedeemed, ledgerVars, lapsed, orderVars,
                 worder, adjusts>>

ReservationLapses(o) ==
  /\ resStatus[o] = "pending" /\ o \notin lapsed
  /\ lapsed' = lapsed \cup {o}
  /\ UNCHANGED <<accountVars, ledgerVars, resStatus, orderVars, workerVars, adjusts>>

\* The rows ClaimExpired may pick up.
Expirable == {o \in Orders : resStatus[o] = "pending" /\ o \in lapsed}

\* Reserved(S): the points of the reservations of S.
Reserved(S) ==
  LET sum[T \in SUBSET S] ==
        IF T = {} THEN 0 ELSE LET o == CHOOSE o \in T : TRUE IN Redeem[o] + sum[T \ {o}]
  IN sum[S]

\* ExpireStaleReservations: a batch; rows locked by others are skipped.
ExpireStaleReservations ==
  \E S \in SUBSET Expirable \ {{}} :
    /\ Checked(balance, pending - Reserved(S))
    /\ resStatus' = [o \in Orders |-> IF o \in S THEN "expired" ELSE resStatus[o]]
    /\ pending' = pending - Reserved(S)
    /\ UNCHANGED <<balance, lifetimeEarned, lifetimeRedeemed, ledgerVars, lapsed, orderVars,
                   workerVars, adjusts>>

-------------------------------------------------------------------------------
(***************************************************************************)
(* Cancellations and adjustments.                                          *)
(***************************************************************************)

\* order.cancelled is published, meant to carry the order's point columns. Those
\* that ApproveTx gives rise to carry zeros: its RETURNING lists none of them.
OrderCancelled(o) ==
  /\ o \in CanCancel /\ cancelled[o] = NoEvent
  /\ Redeem[o] > 0 => resStatus[o] # "none"
  /\ \E event \in {[points |-> 0, earned |-> 0],
                   [points |-> Redeem[o], earned |-> IF HasRow("earn", o) THEN Earn[o] ELSE 0]} :
       cancelled' = [cancelled EXCEPT ![o] = event]
  /\ UNCHANGED <<accountVars, ledgerVars, reservationVars, paid, applied, workerVars, adjusts>>

\* Mutant of Reversal: reverse_earn without the cap.
ReversalUncapped(o, b) == cancelled[o].earned

\* The earn to take back, capped at the running balance b.
Reversal(o, b) == IF cancelled[o].earned > b THEN b ELSE cancelled[o].earned

\* ApplyCancellation: refund, then reverse the earn. The event is delivered
\* until the transaction gets past the CHECKs, and may be delivered again.
ApplyCancellation(o) ==
  /\ cancelled[o] # NoEvent
  /\ LET refund   == IF HasRow("refund", o) THEN 0 ELSE cancelled[o].points
         credited == balance + refund
         reversal == IF HasRow("reverse_earn", o) THEN 0 ELSE Reversal(o, credited)
         refunded == IF refund = 0 THEN ledger
                     ELSE Append(ledger, Row("refund", o, refund, credited))
     IN /\ Checked(credited - reversal, pending)
        /\ balance' = credited - reversal
        /\ lifetimeEarned' = lifetimeEarned - reversal
        /\ ledger' = IF reversal = 0 THEN refunded
                     ELSE Append(refunded, Row("reverse_earn", o, -reversal, credited - reversal))
  /\ applied' = applied \cup {o}
  /\ UNCHANGED <<pending, lifetimeRedeemed, lapsedEarns, reservationVars, paid, cancelled,
                 workerVars, adjusts>>

AdjustPoints(a) ==
  /\ adjusts < MaxAdjusts
  /\ a < 0 => Spendable + a >= 0
  /\ Checked(balance + a, pending)
  /\ balance' = balance + a
  /\ ledger' = Append(ledger, Row("adjust", Len(ledger) + 1, a, balance + a))
  /\ adjusts' = adjusts + 1
  /\ UNCHANGED <<pending, lifetimeEarned, lifetimeRedeemed, lapsedEarns, reservationVars,
                 orderVars, workerVars>>

-------------------------------------------------------------------------------
(***************************************************************************)
(* Expiration. A replay of the ledger says what is left of every earn row: *)
(* debits drain the oldest rows first. Row i of the replay is 0 unless     *)
(* ledger row i is an earn.                                                *)
(***************************************************************************)

\* consumeFIFO: what amount leaves in each bucket, oldest first.
Consume(left, amount) ==
  LET before[i \in 0..Len(ledger)] == IF i = 0 THEN 0 ELSE before[i - 1] + left[i]
      due(i) == IF amount > before[i - 1] THEN amount - before[i - 1] ELSE 0
  IN [i \in DOMAIN ledger |-> IF due(i) > left[i] THEN 0 ELSE left[i] - due(i)]

\* Mutant of ExpireRow: expire rows are forgotten.
ExpireRowIgnored(left, row) == left

\* An expire row takes its amount out of the bucket it names.
ExpireRow(left, row) ==
  [left EXCEPT ![row.key] = IF @ + row.amount < 0 THEN 0 ELSE @ + row.amount]

\* rebuildEarnBuckets. Positive refunds and adjustments fill no bucket.
Buckets ==
  LET walk[k \in 0..Len(ledger)] ==
        IF k = 0 THEN [i \in DOMAIN ledger |-> 0]
        ELSE LET left == walk[k - 1]
                 row  == ledger[k]
             IN CASE row.type = "earn"   -> [left EXCEPT ![k] = row.amount]
                  [] row.type = "expire" -> ExpireRow(left, row)
                  [] OTHER -> IF row.amount < 0 THEN Consume(left, -row.amount) ELSE left
  IN walk[Len(ledger)]

\* SumTo(f, n): f[1] + ... + f[n].
SumTo(f, n) ==
  LET sum[i \in 0..n] == IF i = 0 THEN 0 ELSE sum[i - 1] + f[i]
  IN sum[n]

Credit(row) == IF row.type \in {"refund", "adjust"} /\ row.amount > 0 THEN row.amount ELSE 0

\* verifyBucketInvariant: what is left of the earns plus all credits is the balance.
BucketsExplainBalance ==
  SumTo(Buckets, Len(ledger)) + SumTo([i \in DOMAIN ledger |-> Credit(ledger[i])], Len(ledger))
    = balance

EarnLapses(i) ==
  /\ i \in DOMAIN ledger /\ ledger[i].type = "earn" /\ i \notin lapsedEarns
  /\ lapsedEarns' = lapsedEarns \cup {i}
  /\ UNCHANGED <<accountVars, ledger, reservationVars, orderVars, workerVars, adjusts>>

\* Mutant of ToMark: no row for a bucket that was spent before it expired.
ToMarkNonEmpty == {i \in lapsedEarns : ~HasRow("expire", i) /\ Buckets[i] > 0}

\* The earn rows one pass expires: marked even when nothing is left of them,
\* so that the buyer is not picked up again.
ToMark == {i \in lapsedEarns : ~HasRow("expire", i)}

\* The expire rows of a pass, in ledger order, with their running balance.
ExpireRows ==
  LET left  == Buckets
      mark  == ToMark
      rows[i \in 0..Len(ledger)] ==
        IF i = 0 THEN <<>>
        ELSE LET done == rows[i - 1]
                 last == IF done = <<>> THEN balance ELSE done[Len(done)].after
             IN IF i \in mark
                  THEN Append(done, Row("expire", i, -left[i], last - left[i]))
                  ELSE done
  IN rows[Len(ledger)]

\* expirePointsForBuyer. The pass writes nothing if the replay does not explain
\* the balance, or if it would take reserved points (the CHECK).
ExpirePoints ==
  /\ \E i \in lapsedEarns : ~HasRow("expire", i)
  /\ BucketsExplainBalance
  /\ ExpireRows # <<>>
  /\ LET rows == ExpireRows
     IN /\ Checked(rows[Len(rows)].after, pending)
        /\ balance' = rows[Len(rows)].after
        /\ ledger' = ledger \o rows
  /\ UNCHANGED <<pending, lifetimeEarned, lifetimeRedeemed, lapsedEarns, reservationVars,
                 orderVars, workerVars, adjusts>>

-------------------------------------------------------------------------------

Call(w) == (\E o \in Orders : CommitLoad(w, o)) \/ CommitWrite(w) \/ ReleaseWrite(w)

Next ==
  \/ \E o \in Orders :
       \/ AwardEarn(o) \/ ReservePoints(o) \/ PaymentSucceeds(o) \/ ReservationLapses(o)
       \/ OrderCancelled(o) \/ ApplyCancellation(o)
  \/ \E w \in Workers : Call(w) \/ \E o \in Orders : ReleaseLoad(w, o)
  \/ ExpireStaleReservations
  \/ \E a \in Adjustments : AdjustPoints(a)
  \/ \E i \in DOMAIN ledger : EarnLapses(i)
  \/ ExpirePoints

Spec == Init /\ [][Next]_vars

\* Time passes, both reapers run, calls return, and the broker redelivers an
\* event until its handler succeeds.
Fairness ==
  /\ \A o \in Orders : WF_vars(ReservationLapses(o)) /\ WF_vars(ApplyCancellation(o))
  /\ \A w \in Workers : WF_vars(Call(w))
  /\ WF_vars(ExpireStaleReservations)
  /\ WF_vars(ExpirePoints)

FairSpec == Spec /\ Fairness

-------------------------------------------------------------------------------
(***************************************************************************)
(* Properties.                                                             *)
(***************************************************************************)

RowTypes == {"earn", "redeem", "refund", "reverse_earn", "adjust", "expire"}

\* The type invariant of the account, its ledger and its reservations.
TypeOK ==
  /\ balance \in Nat /\ pending \in Nat /\ lifetimeEarned \in Int /\ lifetimeRedeemed \in Nat
  /\ \A i \in DOMAIN ledger :
       /\ ledger[i].type \in RowTypes /\ ledger[i].key \in Orders \cup (1..Len(ledger))
       /\ ledger[i].amount \in Int /\ ledger[i].after \in Nat
  /\ lapsedEarns \subseteq DOMAIN ledger
  /\ resStatus \in [Orders -> {"none", "pending", "committed", "released", "expired"}]
  /\ lapsed \subseteq Orders /\ paid \subseteq Orders /\ applied \subseteq Orders
  /\ wpc \in [Workers -> {"idle", "commit", "release"}] /\ worder \in [Workers -> Orders]
  /\ adjusts \in 0..MaxAdjusts

Amounts(types) ==
  [i \in DOMAIN ledger |-> IF ledger[i].type \in types THEN ledger[i].amount ELSE 0]

\* The idempotency checks under the account lock are enough: no two rows share
\* a (source_type, source_id, type), so the UNIQUE index never rejects one.
LedgerKeysUnique ==
  \A i, j \in DOMAIN ledger :
    ledger[i].type = ledger[j].type /\ ledger[i].key = ledger[j].key => i = j

\* Points are burned for committed reservations and for no others.
BurnedIsCommitted == \A o \in Orders : HasRow("redeem", o) <=> resStatus[o] = "committed"

\* The ledger explains the account: every row's balance_after is the sum of
\* the amounts up to it, also for the rows that one transaction writes
\* together, the balance is the sum of all, and the lifetime counters are the
\* sums of their kinds. No row is there twice, and points are burned for the
\* committed reservations alone.
LedgerExplainsAccount ==
  /\ LedgerKeysUnique /\ BurnedIsCommitted
  /\ \A i \in DOMAIN ledger : ledger[i].after = SumTo(Amounts(RowTypes), i)
  /\ balance = SumTo(Amounts(RowTypes), Len(ledger))
  /\ lifetimeEarned = SumTo(Amounts({"earn", "reverse_earn"}), Len(ledger))
  /\ lifetimeRedeemed = -SumTo(Amounts({"redeem"}), Len(ledger))

\* pending_redemption is what the pending reservations hold, whatever the order
\* of commits, releases and the reaper.
PendingIsReserved == pending = Reserved({o \in Orders : resStatus[o] = "pending"})

\* What the replay of the ledger makes of the balance. It explains it exactly as
\* long as nothing was credited, through every interleaving of earns, burns,
\* reversals, negative adjustments and expiration passes. Buckets and credits never
\* make less than the balance: verifyBucketInvariant fails because too much is left.
BucketsCoverBalance ==
  LET credits == [i \in DOMAIN ledger |-> Credit(ledger[i])]
  IN /\ (\A i \in DOMAIN ledger : credits[i] = 0) => BucketsExplainBalance
     /\ balance <= SumTo(Buckets, Len(ledger)) + SumTo(credits, Len(ledger))

\* Every lapsed earn gets its expire row, also one that was spent before and
\* one whose points are reserved when it lapses. (Without platform credits.)
LapsedEarnIsMarked ==
  \A o \in Orders :
    (\E i \in lapsedEarns : ledger[i].key = o)
      ~> (\E i \in lapsedEarns : ledger[i].key = o /\ HasRow("expire", i))

\* Every order.cancelled event is applied in the end, although reserved points
\* may keep it from taking the earn back at first.
CancelEventuallyApplied ==
  \A o \in Orders : (cancelled[o] # NoEvent) ~> (o \in applied)

===============================================================================
