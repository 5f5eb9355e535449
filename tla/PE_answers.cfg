\* Liveness: every order command is answered.
SPECIFICATION FairSpec
CONSTANTS
  Sides = {Long, Short}
  Cids = {c1, c2}
  NoCid = NoCid
  MaxQty = 1
  Paper = FALSE
  Limits = TRUE
  RestMayTimeout = FALSE
  LossyFeed = FALSE
PROPERTIES EveryOrderAnswered
