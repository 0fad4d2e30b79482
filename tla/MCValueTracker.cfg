CONSTANTS
  LastBlock = 3
  Regs <- MCRegs
  ArgRegs <- MCArgRegs
  Programs <- MCPrograms
  MaxBlocks = 6
SPECIFICATION Spec
INVARIANTS
  UsesFollow
  DefinitionsDominate
CHECK_DEADLOCK FALSE
