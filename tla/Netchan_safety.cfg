SPECIFICATION Spec
CONSTANTS
  FragmentSize = 3
  Lengths = {2, 3, 7}
  MaxMessages = 2
INVARIANTS IInv
PROPERTIES ImplementsMessageChannel
CHECK_DEADLOCK FALSE
