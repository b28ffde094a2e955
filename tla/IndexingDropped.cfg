CONSTANTS
  N = 4
  Time <- TickOf
  Empty <- LastIsEmpty
  Settings <- CatchesUp
  MaxClock = 5
  ProviderFails = TRUE
  MaxFaults = 1
SPECIFICATION Spec
CHECK_DEADLOCK FALSE
INVARIANT NoFrameLeftBehind
