\* Two users, two calls at a time: a transfer, and a removal or demotion.
CONSTANTS
  Users = {u1, u2}
  Founder = u1
  Calls = {c1, c2}
  MaxCalls = 3
SPECIFICATION Spec
INVARIANT SellerHasOwner
CHECK_DEADLOCK FALSE
