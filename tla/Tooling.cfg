SPECIFICATION ToolingSpec
CONSTANTS
  Closers = {t1, t2}
  Starter = t1
  MaxFaults = 1
  ShardCount = 3
  MaxStarts = 3
  MaxMoves = 2
  PageSize = 1
  Handles = {h1, h2}
  MaxTroubles = 2
  Chunks = 2
  MaxChanges = 3
  Artifacts = {a1, a2}
  MaxReplaced = 2
INVARIANTS
  ToolingTypeOK
  CleanupIsTrue
  ShardRunEarned
  WorkerReportEarned
  GateIsEarned
  RootAccounted
  FilesAreWhole
  ReleaseIsEarned
PROPERTIES
  TreeDies
CHECK_DEADLOCK FALSE
