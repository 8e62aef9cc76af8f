SPECIFICATION Spec
CONSTANTS
  MaxPolls = 1
  MaxRetries = 2
  MaxFaults = 1
  MaxEdits = 1
INVARIANTS NextOccurrenceFires
CHECK_DEADLOCK FALSE
