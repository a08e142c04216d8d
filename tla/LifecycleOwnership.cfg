SPECIFICATION Spec
CONSTANTS
  ka = ka
  kb = kb
  a1 = a1
  a2 = a2
  b1 = b1
  NoOne = NoOne
  Keys = {ka, kb}
  Instances = {a1, a2, b1}
  KeyOf <- MCKeyOf
  Deps <- MCDeps
  Rank <- MCRank
  TransactionIds = {1, 2}
  InitCalls = {c1}
  ShutdownCalls = {}
  MaxGeneration = 2
  AsyncTimeout = TRUE
  SelfRegistering = FALSE
INVARIANTS
  DisposedAtMostOnce
  OwnershipAccounted
PROPERTIES
  KeepsContract
CHECK_DEADLOCK FALSE
