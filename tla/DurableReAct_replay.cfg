SPECIFICATION Spec
CONSTANTS
  MaxDrives = 1
  Calls = {a}
  MaxCalls = 1
  MaxIter = 3
  MaxStarts = 1
  MaxRounds = 6
  MaxCrashes = 0
INVARIANTS
  NoFalseReplay
CHECK_DEADLOCK FALSE
