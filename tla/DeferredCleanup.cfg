SPECIFICATION SupervisedSpec
CONSTANTS
  Waiters = {w1}
  MaxStrikes = 1
PROPERTIES
  DeferredFinishes
CHECK_DEADLOCK FALSE
