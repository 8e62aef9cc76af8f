SPECIFICATION FairSpec
CONSTANTS
  MaxTask = 2
  MaxAttempts = 2
  SmallCeiling = 1
  ReshapeAfter = 1
  LeaseTicks = 1
  OldTicks = 2
  Inbound = {"none", "addressed"}
  MaxRoots = 2
  MaxParallel = 1
  MaxFaults = 1
INVARIANTS TypeOK ClaimableIsUnowned AttemptBudget AnsweredOnce
PROPERTIES KeepsContract TerminalStays RootSettles DeadLettersReviewed
