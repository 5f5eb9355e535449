\* Two sides open, both closed.
SPECIFICATION Spec
CONSTANTS
  Long = Long
  Short = Short
  Sides = {Long, Short}
  MaxOrders = 4
  Amount = 1
  Timeouts = FALSE
  Ends = FALSE
  Lossy = FALSE
  MaxRestarts = 0
INVARIANTS ClosedOnce
