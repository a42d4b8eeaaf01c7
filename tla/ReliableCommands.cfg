SPECIFICATION FairSpec
CONSTANTS
  RingSize = 4
  Reserve = 2
  Capacity = 2
  MessageSize = 8
  InitialSizes <- MCSizes
  Changeable <- MCChangeable
  ChangeSizes = {1}
  MaxChanges = 1
  MaxPrints = 1
  MaxSays = 1
  MaxLosses = 1
  MaxPending = 4
  MaxInFlight = 2
INVARIANTS Inv StringsAgree
PROPERTIES Streams Settles
CHECK_DEADLOCK FALSE
