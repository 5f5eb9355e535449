\* Pending orders time out, and events are lost.
SPECIFICATION FairSpec
CONSTANTS
  Long = Long
  Short = Short
  Sides = {Long}
  MaxOrders = 3
  Amount = 1
  Timeouts = TRUE
  Ends = TRUE
  Lossy = TRUE
  MaxRestarts = 0
PROPERTIES PendingResolves
