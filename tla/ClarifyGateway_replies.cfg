SPECIFICATION FairSpec
CONSTANTS
  q1 = q1 q2 = q2 m1 = m1 m2 = m2 none = none janitor = janitor
  Questions = {q1, q2}
  Messages = {m1}
  None = none
  Janitor = janitor
  MaxFaults = 1
INVARIANTS ClarifyTypeOK NoOrphanWaiter RecordMatchesTurn NoStrandedItem ReplyUsedOnce
PROPERTIES WaitEnds ItemSettles
CHECK_DEADLOCK FALSE
