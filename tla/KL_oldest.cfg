\* One failed request: the backfill of a gap comes a minute late.
SPECIFICATION Spec
CONSTANTS
  MaxRetries = 2
  MaxDrops = 0
  MaxRefusals = 0
  Start = 0
  MaxMinute = 7
  Group = 2
  MaxRows = 4
  MaxFaults = 1
PROPERTIES OldestEvicted
CHECK_DEADLOCK FALSE
