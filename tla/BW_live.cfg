\* Both sides, three orders of two units each, no restart.
SPECIFICATION Spec
CONSTANTS
  Long = Long
  Short = Short
  Sides = {Long, Short}
  MaxOrders = 3
  Amount = 2
  Timeouts = FALSE
  Ends = TRUE
  Lossy = FALSE
  MaxRestarts = 0
INVARIANTS NoDuplicateOpen ClosedOncePerSide
