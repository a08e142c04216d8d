SPECIFICATION Spec
CONSTANTS
  ka = ka
  kb = kb
  a1 = a1
  a2 = a2
  b1 = b1
  NoOne = NoOne
  Keys = {ka, kb}
  Instances = {a1, a2}
  KeyOf <- MCKeyOf
  Deps <- MCDeps
  Children = {}
  MaxGeneration = 3
  AsyncTimeout = TRUE
  Tx = 0
  TransactionIds = {0}
PROPERTIES
  LateContinuationInert
CHECK_DEADLOCK FALSE
