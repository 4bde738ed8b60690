CONSTANTS
  Rows = 10
  MaxParallel = 3
SPECIFICATION Spec
CHECK_DEADLOCK FALSE
INVARIANTS
  TypeOK
PROPERTIES
  ImplementsOrderedScan
