------------------------- MODULE NotificationDedup -------------------------
(***************************************************************************)
(* notification-svc's inbox for shipping events: one Pub/Sub message, the   *)
(* workers (replicas) that receive it, and the row of processed_events that *)
(* is meant to let one of them send the notification.                       *)
(*                                                                          *)
(* TryClaim is one SQL statement, but its outer SELECT reads the snapshot   *)
(* taken when the statement started while its INSERT ... ON CONFLICT acts   *)
(* on the row as it is.  So it is two steps here, Receive (the snapshot)    *)
(* and Claim.                                                               *)
(***************************************************************************)
EXTENDS Naturals, FiniteSets

CONSTANTS
  Workers,         \* replicas of notification-svc
  MaxRedeliveries, \* bound: deliveries beyond those Pub/Sub owes
  MaxSlow,         \* bound: claims that age while their worker still runs
  MaxFaults        \* bound: failed calls and crashes

VARIABLES
  known,   \* the event's type has a handler ("shipment.shipped", ".delivered")
  row,     \* the processed_events row; "expired" is processing for 10 minutes
  pc,      \* worker -> what its call of handleEvent does next
  seen,    \* worker -> the row in the snapshot of its TryClaim
  acked,   \* the message was acknowledged
  sends,   \* notifications the recipient got
  excuses, \* events that may cost a second notification
  redelivered, slow, faults

vars == <<known, row, pc, seen, acked, sends, excuses, redelivered, slow, faults>>

RowStates == {"absent", "processing", "expired", "sent"}
Busy == {w \in Workers : pc[w] # "idle"}
InHand == {w \in Workers : pc[w] \in {"send", "mark", "release"}}

TypeOK ==
  /\ known \in BOOLEAN /\ acked \in BOOLEAN
  /\ row \in RowStates
  /\ pc \in [Workers -> {"idle", "claim", "send", "mark", "release"}]
  /\ seen \in [Workers -> RowStates]
  /\ sends \in Nat /\ excuses \in Nat
  /\ redelivered \in 0..MaxRedeliveries /\ slow \in 0..MaxSlow /\ faults \in 0..MaxFaults

Init ==
  /\ known \in BOOLEAN
  /\ row = "absent"
  /\ pc = [w \in Workers |-> "idle"]
  /\ seen = [w \in Workers |-> "absent"]
  /\ acked = FALSE
  /\ sends = 0 /\ excuses = 0
  /\ redelivered = 0 /\ slow = 0 /\ faults = 0

Goto(w, p) == pc' = [pc EXCEPT ![w] = p]
Excuse(b) == excuses' = excuses + (IF b THEN 1 ELSE 0)
Fault == faults < MaxFaults /\ faults' = faults + 1

-----------------------------------------------------------------------------
\* The message reaches an idle worker, whose TryClaim takes its snapshot.
\* Pub/Sub owes a delivery while nothing is acked and nobody holds the lease;
\* any other delivery is one of its duplicates.
Receive(w) ==
  /\ pc[w] = "idle"
  /\ IF acked \/ Busy # {}
     THEN redelivered < MaxRedeliveries /\ redelivered' = redelivered + 1
     ELSE UNCHANGED redelivered
  /\ seen' = [seen EXCEPT ![w] = row]
  /\ Goto(w, "claim")
  /\ UNCHANGED <<known, row, acked, sends, excuses, slow, faults>>

\* Mutant of Wins: no interval in the WHERE clause of the upsert.
WinsAlways == row # "sent"

\* Mutant of Wins: ON CONFLICT DO NOTHING.
WinsOnce == row = "absent"

\* The statement's INSERT takes the row when there is none or the claim on it
\* is ten minutes old.
Wins == row \in {"absent", "expired"}
TakenRow == IF Wins THEN "processing" ELSE row

\* Mutant of Verdict: a claim in progress is taken for a notification sent.
VerdictSkips(w) == IF seen[w] = "absent" \/ Wins THEN "acquired" ELSE "already_sent"

\* The answer of TryClaim.  The SELECT only finds a row that was there at the
\* snapshot; no row is an error, and an error is treated as an acquired claim.
Verdict(w) ==
  IF seen[w] = "absent" \/ Wins THEN "acquired"
  ELSE IF seen[w] = "sent" THEN "already_sent" ELSE "active_processing"

\* Where handleEvent goes with a claim: to the handler of the event's type, or
\* to the release of the default branch.
Proceed(w) == Goto(w, IF known THEN "send" ELSE "release")

\* Already sent: ack and skip.  Claimed by another worker: RetryAfter, a nack.
Claim(w) ==
  /\ pc[w] = "claim"
  /\ row' = TakenRow
  /\ \/ Verdict(w) = "acquired" /\ Proceed(w) /\ Excuse(~Wins) /\ UNCHANGED acked
     \/ Verdict(w) = "already_sent" /\ Goto(w, "idle") /\ acked' = TRUE /\ UNCHANGED excuses
     \/ Verdict(w) = "active_processing" /\ Goto(w, "idle") /\ UNCHANGED <<acked, excuses>>
  /\ UNCHANGED <<known, seen, sends, redelivered, slow, faults>>

\* The statement fails, before or after it took effect: fail open.
ClaimError(w) ==
  /\ pc[w] = "claim"
  /\ Fault
  /\ row' \in {row, TakenRow}
  /\ Proceed(w)
  /\ Excuse(TRUE)
  /\ UNCHANGED <<known, seen, acked, sends, redelivered, slow>>

\* The e-mail sender answers.
Send(w) ==
  /\ pc[w] = "send"
  /\ sends' = sends + 1
  /\ Goto(w, "mark")
  /\ UNCHANGED <<known, row, seen, acked, excuses, redelivered, slow, faults>>

\* The sender fails, or its answer is lost after the message went out.
SendError(w) ==
  /\ pc[w] = "send"
  /\ Fault
  /\ \E out \in {0, 1} : sends' = sends + out /\ Excuse(out = 1)
  /\ Goto(w, "release")
  /\ UNCHANGED <<known, row, seen, acked, redelivered, slow>>

\* MarkSent updates the row whatever its status; a failure is only logged, and
\* the message is acked either way.
Mark(w) ==
  /\ pc[w] = "mark"
  /\ \/ row' = (IF row = "absent" THEN "absent" ELSE "sent") /\ UNCHANGED <<faults, excuses>>
     \/ UNCHANGED row /\ Fault /\ Excuse(TRUE)
  /\ acked' = TRUE
  /\ Goto(w, "idle")
  /\ UNCHANGED <<known, seen, sends, redelivered, slow>>

\* Release deletes the row while it is processing, whoever claimed it; a failure
\* is only logged.  An unknown type is then acked, a failed send nacked.
Release(w) ==
  /\ pc[w] = "release"
  /\ \/ row' = (IF row = "sent" THEN "sent" ELSE "absent") /\ UNCHANGED faults
     \/ UNCHANGED row /\ Fault
  /\ acked' = (acked \/ ~known)
  /\ Goto(w, "idle")
  /\ UNCHANGED <<known, seen, sends, excuses, redelivered, slow>>

\* The replica dies; the lease lapses and the message is delivered again.
Crash(w) ==
  /\ pc[w] # "idle"
  /\ Fault
  /\ Excuse(pc[w] = "mark")
  /\ Goto(w, "idle")
  /\ UNCHANGED <<known, row, seen, acked, sends, redelivered, slow>>

\* Ten minutes pass since the claim, under a worker that is slow or after one died.
Expire ==
  /\ row = "processing"
  /\ row' = "expired"
  /\ IF InHand # {} THEN slow < MaxSlow /\ slow' = slow + 1 /\ Excuse(TRUE)
                    ELSE UNCHANGED <<slow, excuses>>
  /\ UNCHANGED <<known, pc, seen, acked, sends, redelivered, faults>>

Step(w) == Claim(w) \/ Send(w) \/ Mark(w) \/ Release(w)

Next ==
  \/ \E w \in Workers : Receive(w) \/ Step(w) \/ ClaimError(w) \/ SendError(w) \/ Crash(w)
  \/ Expire

\* Pub/Sub redelivers what is not acked, a call that runs takes its next step,
\* and time passes over an abandoned claim.
Fairness ==
  /\ WF_vars(\E w \in Workers : Busy = {} /\ ~acked /\ Receive(w))
  /\ \A w \in Workers : WF_vars(Step(w))
  /\ WF_vars(InHand = {} /\ Expire)

Spec == Init /\ [][Next]_vars
FairSpec == Spec /\ Fairness

-----------------------------------------------------------------------------
\* No acknowledged shipping event is lost: the message is only acked once the
\* notification went out, whoever held the claim and whoever died with it.
NotifiedBeforeAck == acked /\ known => sends > 0

\* Every notification after the first has a cause of its own: a snapshot older
\* than another worker's claim, a claim that failed open or aged under a slow
\* worker, an answer, a MarkSent or a worker lost after the send.
ExtraSendIsExcused == sends <= 1 + excuses

\* An event of a known type is eventually notified, though a worker may die with
\* the claim: the ten-minute claim does not outlive it for ever.
EventuallyNotified == known ~> (sends > 0)
============================================================================
