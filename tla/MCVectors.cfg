SPECIFICATION Spec
CONSTANTS
  ByteBits = 1
  Inits <- MCInits
  GeneralInits <- MCGeneralInits
  Dests = {"XMM0"}
  Shuffles <- MCShuffles
  MaxInsts = 2
  Arith <- MCArith
INVARIANTS
  VectorsFollow
  IntegersFollow
  OrderFollows
CHECK_DEADLOCK FALSE
