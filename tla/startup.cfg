SPECIFICATION Spec
CONSTANTS
  Listens = 3
  NConnections = 2
  Allocation = 1
CHECK_DEADLOCK FALSE
INVARIANTS
  TypeOK
  ArrayFits
  EverythingOwned
  NumbersUnique
  PoolOutlives
  NothingLeft
PROPERTIES
  InterruptEnds
