SPECIFICATION Spec
CONSTANTS
  Names = {n1}
  Clients = {c1}
  Texts = {a, b}
  MaxVersion = 3
  MinTrades = 2
  Overlap = FALSE
  MaxFaults = 0
  MaxCrashes = 0
  MaxRequests = 3
PROPERTIES NextVersion
CHECK_DEADLOCK FALSE
