CONSTANTS
  NCols = 3
  MaxVal = 1
  MaxConds = 4
SPECIFICATION BuildSpec
CHECK_DEADLOCK FALSE
INVARIANTS
  BuildTypeOK
  OrderlyLosesNothing
  OrderlyIsExact
