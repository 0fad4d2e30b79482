SPECIFICATION Spec
CONSTANTS
  Programs <- MCPrograms
  Callees <- MCCallees
  Symbols <- MCSymbols
  Strings <- MCStrings
INVARIANTS
  ArmCallsFollow
  ArmReturnsFollow
CHECK_DEADLOCK FALSE
