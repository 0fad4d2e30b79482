CONSTANTS
  Width <- MCWidth
  Half <- MCHalf
  Operands <- MCOperands
  Samples <- MCSamples
  Counts <- MCCounts
  MaxInsts = 2
SPECIFICATION Spec
INVARIANTS
  ArmComparisonsDecide
  ArmValuesFollow
  ArmFlagsFollow
  ArmConditionsFollow
CHECK_DEADLOCK FALSE
