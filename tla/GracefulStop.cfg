CONSTANTS
  Clients = {c1, c2, c3}
  Stopper = stopper
  NoOne = noOne
SPECIFICATION Spec
SYMMETRY ClientSymmetry
INVARIANTS
  TypeOK
  CountExact
  EmptyWhileRaising
  StuckOnlyAtTheEnd
PROPERTY ImplementsDrain
CHECK_DEADLOCK FALSE
