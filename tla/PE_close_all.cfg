\* One market order on the simulated exchange, then CloseAllPositions.
SPECIFICATION Spec
CONSTANTS
  Sides = {Long}
  Cids = {c1}
  NoCid = NoCid
  MaxQty = 1
  Paper = TRUE
  Limits = FALSE
  RestMayTimeout = FALSE
  LossyFeed = FALSE
PROPERTIES CloseAllCloses
