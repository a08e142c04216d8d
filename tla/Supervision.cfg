SPECIFICATION SupervisionSpec
CONSTANTS
  Waiters = {w1}
  MaxStrikes = 2
INVARIANTS
  SupervisionTypeOK
  OneCleaner
  GoneIsTrue
PROPERTIES
  TakenOverIsFinished
CHECK_DEADLOCK FALSE
