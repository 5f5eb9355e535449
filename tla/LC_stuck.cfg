SPECIFICATION Spec
CONSTANTS
  Bots = {b1, b2}
  Modes = {"paper", "live"}
  MaxQueue = 2
  MaxCommands = 2
  MaxFaults = 0
  MaxRestarts = 1
INVARIANTS NotStuck
CHECK_DEADLOCK FALSE
