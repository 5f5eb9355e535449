\* One disconnect; and one failed attempt to connect, failing request or lost update.
SPECIFICATION FairSpec
CONSTANTS
  MaxRetries = 2
  MaxDrops = 1
  MaxRefusals = 1
  Start = 4
  MaxMinute = 7
  Group = 2
  MaxRows = 7
  MaxFaults = 1
INVARIANTS TypeOK Continuous FinalCandles OrderedWhenWell
PROPERTIES CatchesUp Streams
CHECK_DEADLOCK FALSE
