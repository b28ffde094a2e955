CONSTANTS
  N = 4
  Time <- TickOf
  Context <- Mixed
  Idle = 1
  Hour = 1
  MaxClock = 3
  MaxFaults = 1
  MaxDeletes = 1
SPECIFICATION Spec
CHECK_DEADLOCK FALSE
INVARIANT CascadeCompleteness
