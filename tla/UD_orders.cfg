\* A lost connection, two failed attempts, and failing calls for the key.
SPECIFICATION FairSpec
CONSTANTS
  MaxRetries = 2
  MaxDrops = 1
  MaxRefusals = 2
  KeyLife = 2
  MaxQueue = 3
  MaxUpdates = 3
  MaxTicks = 6
  MaxFaults = 2
INVARIANTS LapseNeedsFault
PROPERTIES NoSilentGap HearsAgain
CHECK_DEADLOCK FALSE
