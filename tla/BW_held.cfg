\* One order of two units, canceled after the first.
SPECIFICATION Spec
CONSTANTS
  Long = Long
  Short = Short
  Sides = {Long}
  MaxOrders = 2
  Amount = 2
  Timeouts = FALSE
  Ends = TRUE
  Lossy = FALSE
  MaxRestarts = 0
INVARIANTS HeldIsTimed
