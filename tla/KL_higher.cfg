\* No connection is lost and nothing fails: the stream and the backfill alone.
SPECIFICATION Spec
CONSTANTS
  MaxRetries = 2
  MaxDrops = 0
  MaxRefusals = 0
  Start = 2
  MaxMinute = 6
  Group = 2
  MaxRows = 4
  MaxFaults = 0
INVARIANTS HigherAgree
CHECK_DEADLOCK FALSE
