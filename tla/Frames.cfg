CONSTANTS
  StoreRows = 3
  TakenAt <- TwoAtOnce
  TreeKind <- OtherAndLists
  Sweepers = {s1}
  MinFrameAge = 0
  SweepBatch = 2
  Retention = 0
  TrimBatch = 1
  Budget = 1
  DeleteReach = 0
  DeleteBatch = 1
  StoreClock = 2
  StoreFaults = 1
  Span = 5
  Sources <- ManyKinds
  PageLimit = 2
  MaxBatches = 2
  SearchFaults = 1
  N = 3
  Time <- TickOf
  Context <- Mixed
  Idle = 1
  Hour = 0
  MaxClock = 1
  MaxFaults = 1
  MaxDeletes = 1
  Matching = {1, 2, 3}
  FindLimit = 2
  PageSize = 1
  ScanLimit = 3
  Bucket = 1
  MaxReads = 1
  Depths <- SomeDepths
  NodeKinds <- SomeNodeKinds
  Titles <- SomeTitles
  MaxRows = 3
SPECIFICATION MCSpec
CHECK_DEADLOCK FALSE
INVARIANTS
  TreesSurviveSweeps
  NoTreeTwice
  CascadeHearsOfDeletions
  UniformWindowReadOnce
  AnswersWereVisible
  FindsNewest
  
  SecureStaysOut
  NothingElseLost
  BodyKeepsItsSession
