CONSTANTS
  N = 4
  Time <- TickOf
  Empty <- LastIsEmpty
  Settings <- Narrow
  MaxClock = 4
  ProviderFails = TRUE
  MaxFaults = 1
SPECIFICATION FairSpec
CHECK_DEADLOCK FALSE
INVARIANTS
  OnlyTheOffsetDrops
PROPERTIES
  EveryFrameSettles
