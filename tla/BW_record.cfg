\* Two sides open, one closed.
SPECIFICATION Spec
CONSTANTS
  Long = Long
  Short = Short
  Sides = {Long, Short}
  MaxOrders = 3
  Amount = 1
  Timeouts = FALSE
  Ends = FALSE
  Lossy = FALSE
  MaxRestarts = 0
INVARIANTS RecordOfSide
