SPECIFICATION FairSpec
CONSTANTS
  NumStrings = 2
  MapStates = {"CS_SPAWNED"}
  ChangeStates = {"CS_SPAWNED"}
  Losable = {"serverdata"}
  Downloads = FALSE
  MaxMaps = 1
  MaxChanges = 0
  MaxLosses = 1
  MaxInFlight = 2
PROPERTIES Joins
CHECK_DEADLOCK FALSE
