SPECIFICATION Spec
CONSTANTS
  ka = ka
  kb = kb
  a1 = a1
  a2 = a2
  b1 = b1
  NoOne = NoOne
  Keys = {ka}
  Instances = {a1}
  KeyOf <- MCKeyOf
  Deps <- MCDeps
  Rank <- MCRank
  TransactionIds = {1}
  InitCalls = {c1}
  ShutdownCalls = {s1}
  MaxGeneration = 2
  AsyncTimeout = TRUE
  SelfRegistering = FALSE
INVARIANTS
  QuiesceBeforeDispose
CHECK_DEADLOCK FALSE
