\* One buyer's review and two calls of the buyer at a time.
CONSTANTS
  Buyers = {b1}
  Stars = {1, 3}
  Calls = {c1, c2}
  MaxCalls = 3
SPECIFICATION Spec
INVARIANT RatingTellsReviews
CHECK_DEADLOCK FALSE
