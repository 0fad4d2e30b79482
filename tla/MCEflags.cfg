CONSTANTS
  Width <- MCWidth
  Half <- MCHalf
  Operands <- MCOperands
  Counts <- MCCounts
  MaxInsts = 2
SPECIFICATION Spec
INVARIANTS
  ComparisonsDecide
  ValuesFollow
  FlagsFollow
  ConditionsFollow
