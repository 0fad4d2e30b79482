CONSTANTS
  FPUValues <- MCValues
  Combine <- MCCombine
  MaxAtBranch = 2
SPECIFICATION FPUSpec
INVARIANTS
  RingIsTheStack
PROPERTY
  ImplementsX87
CHECK_DEADLOCK FALSE
