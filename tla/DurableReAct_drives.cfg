SPECIFICATION FairSpec
CONSTANTS
  MaxDrives = 2
  Calls = {a}
  MaxCalls = 2
  MaxIter = 1
  MaxStarts = 2
  MaxRounds = 4
  MaxCrashes = 1
INVARIANTS TypeOK CallOnce
PROPERTIES EffectOnce DriveEnds
CHECK_DEADLOCK FALSE
