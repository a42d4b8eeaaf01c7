SPECIFICATION Spec
CONSTANTS
  Main = Main
  Workers = {w1, w2}
  Loads <- Safety
SYMMETRY Symmetry
INVARIANTS TasksSound CoroutinesSound
PROPERTIES SuccessMeansDone
CHECK_DEADLOCK FALSE
