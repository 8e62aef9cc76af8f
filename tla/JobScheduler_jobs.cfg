SPECIFICATION FairSpec
CONSTANTS
  MaxPolls = 1
  MaxRetries = 2
  MaxFaults = 2
  MaxEdits = 1
INVARIANTS JobTypeOK NoOverlap
PROPERTIES FinishedNotRerun JobFires ClaimReleased OneShotRetires
CHECK_DEADLOCK FALSE
