SPECIFICATION FairSpec
CONSTANTS
  BufSize = 6
  CallSizes = {1, 2, 3}
  MaxCmds = 5
INVARIANTS IInv
PROPERTIES NeverStepsOnReadersToes FinishDrains ImplementsCommandQueue EverybodyIsServed
