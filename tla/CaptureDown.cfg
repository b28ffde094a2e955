CONSTANTS
  Servers = {s1, s2}
  Rebuilders = {r1, r2}
  NoProc = NoProc
  Asking = {s1}
  MaxChanges = 1
  t1 = t1
  t2 = t2
  empty = empty
  Batch = 4
  Text <- MCText
  NoText = empty
  Queries = {q1}
  EmbeddingModels = {m1, m2}
  Limit = 1
  Pool = 2
  Readers = {a1, a2}
  Sessions = {x}
  RemoteConfigured = TRUE
  MaxCallFaults = 1
  MaxSwitches = 1
  MaxPauses = 1
  MaxAsks = 2
SPECIFICATION MCSpec
CHECK_DEADLOCK FALSE
INVARIANT DownMeansNotRecording
