CONSTANTS
  N = 3
  Time <- TickOf
  Empty <- LastIsEmpty
  Settings <- Varied
  MaxClock = 4
  ProviderFails = TRUE
  MaxFaults = 2
  MaxRebuilds = 1
CONSTRAINT SomeFaults
SPECIFICATION RebuildSpec
CHECK_DEADLOCK FALSE
INVARIANTS
  RebuildRestores
  InterruptedRebuildSkipsNothing
