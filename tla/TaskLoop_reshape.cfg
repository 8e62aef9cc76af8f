SPECIFICATION Spec
CONSTANTS
  MaxTask = 3
  MaxAttempts = 3
  SmallCeiling = 1
  ReshapeAfter = 1
  LeaseTicks = 1
  OldTicks = 2
  Inbound = {"addressed"}
  MaxRoots = 1
  MaxParallel = 2
  MaxFaults = 1
INVARIANTS
  ChildrenFirst
