CONSTANTS
  NBlock = 4
  NVar = 2
  MaxEdges = 5
  MaxRuns = 2
  MaxSteps = 5
  Functions <- MCFunctions
SPECIFICATION PSpec
INVARIANT StacksHoldAValue
CHECK_DEADLOCK FALSE
