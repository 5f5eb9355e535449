\* A restart, with margins.
SPECIFICATION Spec
CONSTANTS
  Cids = {1, 2, 3, 4}
  Sides = {"Long", "Short"}
  Prices = {2, 4}
  Leverages = {2}
  Quantities = {1}
  Initial = 8
  Capacity = 1
  OneInFlight = TRUE
  MaxRestarts = 1
INVARIANTS RestoredCloses
CHECK_DEADLOCK FALSE
