\* The Binance adapter, REST timeouts and a feed that loses updates.
SPECIFICATION Spec
CONSTANTS
  Sides = {Long}
  Cids = {c1, c2}
  NoCid = NoCid
  MaxQty = 2
  Paper = FALSE
  Limits = TRUE
  RestMayTimeout = TRUE
  LossyFeed = TRUE
SYMMETRY OrderSymmetry
INVARIANTS DoubleConfirmation TransientOwned EventsTruthful
PROPERTIES QuantityNotDropped StatusSteps
