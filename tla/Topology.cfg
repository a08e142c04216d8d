SPECIFICATION FairSpec
CONSTANTS
  ka = ka
  kb = kb
  a1 = a1
  a2 = a2
  b1 = b1
  NoOne = NoOne
  Keys = {ka, kb}
  Instances = {a1, a2, b1}
  KeyOf <- MCKeyOf
  Deps <- MCDeps
  Children = {c1}
  MaxGeneration = 3
  AsyncTimeout = TRUE
  Tx = 0
  TransactionIds = {0}
INVARIANTS
  TypeOK
  CandidateAccounted
  TopologyCommittedWhole
  TransactionUndisturbed
PROPERTIES
  PlanIsPinned
  TopologyEnds
CHECK_DEADLOCK FALSE
