CONSTANTS
  a = a
  hourly = hourly
  daily = daily
  bad = bad
  Names <- OneName
  Schedules <- AllCrons
  Valid <- Good
  Clients = {c1, c2}
  MaxRuns = 2
  MaxRequests = 2
  MaxEdits = 1
  MaxFaults = 1
CONSTRAINT OneMishap
SPECIFICATION Spec
CHECK_DEADLOCK FALSE
INVARIANTS OneRunPerRoutine BarredRunsSendNothing ScheduledAsSaved
SYMMETRY Symmetry
