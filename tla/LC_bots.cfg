SPECIFICATION FairSpec
CONSTANTS
  Bots = {b1, b2}
  Modes = {"paper", "live"}
  MaxQueue = 2
  MaxCommands = 2
  MaxFaults = 1
  MaxRestarts = 1
INVARIANTS TypeOK WorkersOwned StatusTruthful DeletedStays SingleEngine
PROPERTIES DeleteAnswered RestoredAgain
CHECK_DEADLOCK FALSE
