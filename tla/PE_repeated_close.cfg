\* One opening order and two close commands.
SPECIFICATION Spec
CONSTANTS
  Sides = {Long}
  Cids = {c1, c2, c3}
  NoCid = NoCid
  MaxQty = 1
  Paper = FALSE
  Limits = FALSE
  RestMayTimeout = FALSE
  LossyFeed = FALSE
INVARIANTS NoRepeatedClose
