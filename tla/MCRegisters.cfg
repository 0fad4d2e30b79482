SPECIFICATION Spec
CONSTANTS
  ByteBits = 1
  Inits <- MCInits
  Imms <- MCImms
  Dests = {"A", "D"}
  Sources = {"A"}
  Slots <- MCSlots
  MaxInsts = 2
  MaxFromZero = 3
INVARIANTS
  RegistersFollow
  MemoryFollows
  ConstantsFollow
CHECK_DEADLOCK FALSE
