SPECIFICATION FairSpec
CONSTANTS
  Scenarios <- MCLeaving
  MaxInputs = 3
PROPERTIES FinishReturns
CHECK_DEADLOCK FALSE
