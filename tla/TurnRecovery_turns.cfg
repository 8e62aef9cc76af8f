SPECIFICATION FairSpec
CONSTANTS
  MaxTask = 1
  MaxAttempts = 2
  SmallCeiling = 2
  ReshapeAfter = 1
  LeaseTicks = 1
  OldTicks = 2
  MaxDrives = 2
  Inbound = {"bare", "addressed"}
  MaxFaults = 1
INVARIANTS TurnTypeOK CompletedHasProof RecoveringIsOwned
PROPERTIES OrphanRescued SenderHears
CHECK_DEADLOCK FALSE
