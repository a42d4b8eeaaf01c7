SPECIFICATION FairSpec
CONSTANTS
  NumSlots = 3
  Scenarios <- MCScenarios
INVARIANTS ReadinessDecides  VotesAreOwn
PROPERTIES   ChallengersGetIn
CHECK_DEADLOCK FALSE
