SPECIFICATION Spec
CONSTANTS
  MaxIntents = 2
  MaxFaults = 1
  StaleWindow = FALSE
INVARIANTS
  TypeOK
  
  RetryFindsTheMoney
  WindowIsKept
  PaidIsCaptured
  OrphansHaveACause
CHECK_DEADLOCK FALSE
