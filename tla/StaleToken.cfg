SPECIFICATION Spec
CONSTANTS
  ka = ka
  kb = kb
  a1 = a1
  a2 = a2
  b1 = b1
  NoOne = NoOne
  Keys = {ka}
  Instances = {a1, a2}
  KeyOf <- MCKeyOf
  Deps <- MCDeps
  Rank <- MCRank
  TransactionIds = {1}
  InitCalls = {c1, c2}
  ShutdownCalls = {}
  MaxGeneration = 3
  AsyncTimeout = TRUE
  SelfRegistering = FALSE
SYMMETRY CallSymmetry
INVARIANTS
  ActivationScopeIsOwn
CHECK_DEADLOCK FALSE
