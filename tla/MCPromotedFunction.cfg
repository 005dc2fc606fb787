CONSTANTS
  NBlock = 4
  NVar = 2
  MaxEdges = 5
  MaxRuns = 2
  MaxSteps = 5
  Functions <- MCFunctions
SPECIFICATION PSpec
INVARIANTS
  PhisOnIteratedFrontier
  PhisComplete
  DefinitionsDominateUses
  BehaviourPreserved
PROPERTY PassReturns
CHECK_DEADLOCK FALSE
