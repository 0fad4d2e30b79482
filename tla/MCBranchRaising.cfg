CONSTANTS
  FuncEnd = 4
  Streams <- MCStreams
SPECIFICATION RaiserSpec
INVARIANTS
  BlocksPartition
  EdgesComplete
  EdgesSound
  RaisedFlowFaithful
  AbortsOnlyOnDeadCode
  ReachableCodeRaised
