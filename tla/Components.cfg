SPECIFICATION ComponentsSpec
CONSTANTS
  FullJobs = 3
  RootCount = 3
  FileCount = 2
  OriginalFiles = {1}
  MaxEdits = 2
  ScriptCount = 2
  Retries = 1
  WireBound = 1
  MaxTextEdits = 1
  CheckCount = 3
  PartCount = 2
  MaxWorkspaceEdits = 1
  Owners = {1}
  Capacity = 3
  DispatchLimit = 2
  MaxHandle = 5
  MaxJobs = 3
  HistoryLimit = 1
  MaxNested = 2
  MaxClears = 1
  Sources = {s1, s2}
  Completions = {c1, c2}
  Unbound = Unbound
INVARIANTS
  ComponentsTypeOK
  FullRunAccounted
  TreesAreKept
  SnapshotIsOneMoment
  LeftoversAccounted
  VerdictEarned
  ServerSettled
  CheckOutcomeEarned
  JobsAccounted
PROPERTIES
  CallsAsPromised
  ResultsAreOwn
  CancellationArrives
CHECK_DEADLOCK FALSE
