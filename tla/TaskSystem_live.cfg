SPECIFICATION FairSpec
CONSTANTS
  Main = Main
  Workers = {w1}
  Loads <- Live
INVARIANTS IInv
PROPERTIES AwaitEnds ReadyTasksRun
CHECK_DEADLOCK FALSE
