SPECIFICATION Spec
CONSTANTS
  Names = {n1}
  Clients = {c1}
  Texts = {a, b}
  MaxVersion = 3
  MinTrades = 2
  Overlap = FALSE
  MaxFaults = 1
  MaxCrashes = 1
  MaxRequests = 3
INVARIANTS MetaIsLast ServedIsStored
CHECK_DEADLOCK FALSE
