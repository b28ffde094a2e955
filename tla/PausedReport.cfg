CONSTANTS
  Operators = {o1, o2}
  Pids = {1, 2}
  Commands <- SomeCommands
  MaxCommands = 2
  StackFaults = 1
  Requests = {r1, r2}
  ConfigCommands = {k1}
  Edits <- AllEdits
  Shells <- AllShells
  MaxEdits = 2
  MaxStarts = 2
  Starters = {s1, s2}
  MaxRecords = 3
  MaxHomeStarts = 3
  HomeFaults = 2
  Clients = {c1, c2}
  Trims = {trim}
  app = app
  Apps <- OneApp
  PrivacyRequests <- AllAsked
  Hour = 1
  MaxClock = 1
  MaxRequests = 3
SPECIFICATION Spec
CHECK_DEADLOCK FALSE
INVARIANT PausedReportIsTrue
SYMMETRY Symmetry
