CONSTANTS
  f = f
  g = g
  h = h
  crt = crt
  none = none
  Names <- MCNames
  Configs <- MCConfigs
  SectSize = 4
  SymTabs <- MCSymTabs
  Decodings <- MCDecodings
  CRTSymbols = {crt}
  NoName = none
  Asserts = TRUE
SPECIFICATION FairSpec
INVARIANTS
  TypeOK
  ExcludedNeverRaised
  RangesDisjoint
  LeadersRecorded
PROPERTIES
  WalkTerminates
