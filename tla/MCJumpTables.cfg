CONSTANTS
  LastBlock = 6
  Functions <- MCFunctions
  MaxIndex = 4
SPECIFICATION Spec
INVARIANTS EdgesFollowTables SwitchFollows
