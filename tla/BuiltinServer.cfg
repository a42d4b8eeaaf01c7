SPECIFICATION FairSpec
CONSTANTS
  Scenarios <- MCScenarios
  MaxInputs = 4
INVARIANTS IInv
PROPERTIES GamesEndInTime StartedGameIsJoined QuitEnds
CHECK_DEADLOCK FALSE
