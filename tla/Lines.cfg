CONSTANTS
  N = 4
  Time <- TickOf
  Context <- Mixed
  Text <- Screen
  Excludable <- Editor
  Idle = 1
  Hour = 1
  MaxClock = 3
  MaxFaults = 1
  MaxDeletes = 1
SPECIFICATION MCSpec
CHECK_DEADLOCK FALSE
INVARIANTS
  DeletedStaysGone
  
  LinesKept
  OncePerSession
PROPERTY ImplementsHistory
