CONSTANTS
  Prologues <- MCPrologues
  Instructions <- MCInstructions
  MaxBody = 3
SPECIFICATION Spec
INVARIANT AccessesAgree
INVARIANT SlotsPrivate
INVARIANT FrameCompletes
CHECK_DEADLOCK FALSE
