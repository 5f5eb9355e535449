\* One opening order on Binance.
SPECIFICATION Spec
CONSTANTS
  Sides = {Long}
  Cids = {c1}
  NoCid = NoCid
  MaxQty = 1
  Paper = FALSE
  Limits = TRUE
  RestMayTimeout = FALSE
  LossyFeed = FALSE
INVARIANTS QuantityConsistent
