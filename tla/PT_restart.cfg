SPECIFICATION FairSpec
CONSTANTS
  Cids = {1, 2, 3, 4}
  Sides = {"Long", "Short"}
  Prices = {2, 4}
  Leverages = {2}
  Quantities = {1}
  Initial = 8
  Capacity = 1
  OneInFlight = TRUE
  MaxRestarts = 1
INVARIANTS TypeOK Balanced Agreement Equity
PROPERTIES PositionsDurable MarketOrdersEnd
CHECK_DEADLOCK FALSE
