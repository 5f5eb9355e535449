\* The simulated exchange, market and limit orders.
SPECIFICATION Spec
CONSTANTS
  Sides = {Long}
  Cids = {c1, c2, c3, c4}
  NoCid = NoCid
  MaxQty = 1
  Paper = TRUE
  Limits = TRUE
  RestMayTimeout = FALSE
  LossyFeed = FALSE
SYMMETRY OrderSymmetry
INVARIANTS TransientOwned
