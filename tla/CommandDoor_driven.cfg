SPECIFICATION Spec
CONSTANTS
  MaxTask = 1
  MaxAttempts = 2
  SmallCeiling = 1
  ReshapeAfter = 1
  LeaseTicks = 1
  OldTicks = 2
  Commands <- SomeCommands
  MaxSubmits = 2
  MaxFaults = 1
INVARIANT CompletedWasExecuted
CHECK_DEADLOCK FALSE
