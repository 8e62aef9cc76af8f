SPECIFICATION FairSpec
CONSTANTS
  c1 = c1
  c2 = c2
  c3 = c3
  Callers = {c1, c2, c3}
  Threshold = 2
  Base = 1
  BackoffCap = 3
  Cooldowns = {0, 4}
  Capacities = {0, 1}
  MaxOutages = 1
  MaxInterrupts = 1
INVARIANTS ProviderTypeOK BreakerCoherent OneProbe
PROPERTY Heals
