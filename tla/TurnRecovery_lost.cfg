SPECIFICATION Spec
CONSTANTS
  MaxTask = 1
  MaxAttempts = 2
  SmallCeiling = 2
  ReshapeAfter = 1
  LeaseTicks = 1
  OldTicks = 2
  MaxDrives = 2
  Inbound = {"bare", "addressed"}
  MaxFaults = 1
INVARIANT NothingForgotten
CHECK_DEADLOCK FALSE
