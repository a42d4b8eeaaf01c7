SPECIFICATION FairSpec
CONSTANTS
  NumStrings = 2
  MapStates = {"CS_CONNECTED", "CS_SPAWNED"}
  ChangeStates = {"CS_CONNECTED", "CS_SPAWNED"}
  Losable = {"serverdata", "baselines", "snapshot", "other"}
  Downloads = TRUE
  MaxMaps = 2
  MaxChanges = 1
  MaxLosses = 1
  MaxInFlight = 2
INVARIANTS LevelsAgree DataAgrees
PROPERTIES ActiveIsComplete JoinsUnlessExcused
CHECK_DEADLOCK FALSE
