SPECIFICATION FairSpec
CONSTANTS
  Clients = {"c1", "c2"}
  NumSlots = 2
  MaxChallenges = 1
  Scenarios <- MCScenarios
INVARIANTS IInv
PROPERTIES ChallengeUsedOnce PlaceIsNotTaken NobodyIsStuck
CHECK_DEADLOCK FALSE
