---------------------------- MODULE ReviewRatings ----------------------------
(***************************************************************************)
(* review-svc: the reviews of one product and its row of product_ratings.   *)
(* A review and the aggregate change in one transaction, but by the          *)
(* difference to a rating that was read in an earlier one.                   *)
(***************************************************************************)
EXTENDS Integers, FiniteSetsExt

CONSTANTS
  Buyers,   \* who bought the product; one review each
  Stars,    \* ratings given, within 1..5
  Calls,    \* calls in progress
  MaxCalls  \* bound: reviews created, updates and deletions begun

VARIABLES
  rating, \* buyer -> the rating of the buyer's review, 0 without one
  id,     \* buyer -> number of that review's row
  sum, count, \* rating_sum and review_count of product_ratings
  pc,     \* call -> "idle" or "write"
  call,   \* call -> its arguments and what it read
  raced,  \* a review was written by a call that had not read its present rating
  started

vars == <<rating, id, sum, count, pc, call, raced, started>>

NoCall == [op |-> "none", buyer |-> CHOOSE b \in Buyers : TRUE, id |-> 0, read |-> 0, new |-> 0]
Reviews == {b \in Buyers : rating[b] > 0}

TypeOK ==
  /\ rating \in [Buyers -> Stars \cup {0}]
  /\ id \in [Buyers -> Nat]
  /\ sum \in Int /\ count \in Int
  /\ pc \in [Calls -> {"idle", "write"}]
  /\ \A c \in Calls : call[c].op \in {"none", "update", "delete"}
  /\ raced \in BOOLEAN
  /\ started \in 0..MaxCalls

Init ==
  /\ rating = [b \in Buyers |-> 0] /\ id = [b \in Buyers |-> 0]
  /\ sum = 0 /\ count = 0
  /\ pc = [c \in Calls |-> "idle"] /\ call = [c \in Calls |-> NoCall]
  /\ raced = FALSE
  /\ started = 0

-----------------------------------------------------------------------------
\* Inserts the row of the product, or adds to it.
UpsertProductRating(ratingDelta, countDelta) ==
  sum' = sum + ratingDelta /\ count' = count + countDelta

\* The purchase was checked; a second review of the buyer violates the unique
\* key and the transaction changes nothing.
CreateReview(b) ==
  /\ started < MaxCalls
  /\ started' = started + 1
  /\ rating[b] = 0
  /\ \E n \in Stars : rating' = [rating EXCEPT ![b] = n] /\ UpsertProductRating(n, 1)
  /\ id' = [id EXCEPT ![b] = @ + 1]
  /\ UNCHANGED <<pc, call, raced>>

\* GetByID, in a transaction of its own.  An update that names no rating goes on
\* with the one it read.
Load(c, op, b, new) ==
  /\ started < MaxCalls
  /\ started' = started + 1
  /\ pc[c] = "idle" /\ rating[b] > 0
  /\ pc' = [pc EXCEPT ![c] = "write"]
  /\ call' = [call EXCEPT ![c] = [op |-> op, buyer |-> b, id |-> id[b], read |-> rating[b], new |-> new]]
  /\ UNCHANGED <<rating, id, sum, count, raced>>

UpdateReview(c) == \E b \in Buyers, n \in Stars : Load(c, "update", b, n)
DeleteReview(c) == \E b \in Buyers : Load(c, "delete", b, 0)

\* Mutant of RowStands: RowsAffected is not looked at.
RowUnchecked(c) == TRUE

\* The row that was read is still there; otherwise ErrReviewNotFound rolls the
\* transaction back.
RowStands(c) == rating[call[c].buyer] > 0 /\ id[call[c].buyer] = call[c].id

\* Both statements of the transaction: the row, and the aggregate by the
\* difference to the rating that was read.
Write(c) ==
  /\ pc[c] = "write"
  /\ IF RowStands(c)
     THEN /\ rating' = [rating EXCEPT ![call[c].buyer] = call[c].new]
          /\ UpsertProductRating(call[c].new - call[c].read, IF call[c].op = "delete" THEN -1 ELSE 0)
          /\ raced' = (raced \/ rating[call[c].buyer] # call[c].read)
     ELSE UNCHANGED <<rating, sum, count, raced>>
  /\ pc' = [pc EXCEPT ![c] = "idle"]
  /\ call' = [call EXCEPT ![c] = NoCall]
  /\ UNCHANGED <<id, started>>

Next ==
  \/ \E b \in Buyers : CreateReview(b)
  \/ \E c \in Calls : UpdateReview(c) \/ DeleteReview(c) \/ Write(c)

Spec == Init /\ [][Next]_vars

-----------------------------------------------------------------------------
Stored == MapThenSumSet(LAMBDA b : rating[b], Reviews)

\* The count never drifts, however creations, deletions of one review and its
\* recreation overlap; and the sum only after a review was written by a call that
\* had read another rating of it.
DriftNeedsRace == count = Cardinality(Reviews) /\ (sum = Stored \/ raced)

\* review_service.go:121, of the review and its aggregate rating: "in a single
\* transaction so they cannot diverge".
RatingTellsReviews == sum = Stored
=============================================================================
