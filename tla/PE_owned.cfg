\* The simulated exchange, market orders: repeated closes make a position negative.
SPECIFICATION Spec
CONSTANTS
  Sides = {Long}
  Cids = {c1, c2, c3, c4, c5}
  NoCid = NoCid
  MaxQty = 1
  Paper = TRUE
  Limits = FALSE
  RestMayTimeout = FALSE
  LossyFeed = FALSE
SYMMETRY OrderSymmetry
INVARIANTS OwnedWhateverQuantity
