CONSTANTS
  Programs <- MCPrograms
SPECIFICATION FairSpec
INVARIANTS
  CallsFollow
  ReturnsTyped
  TailTypesFollow
PROPERTY
  RaisingEnds
