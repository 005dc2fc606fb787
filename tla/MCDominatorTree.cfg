SPECIFICATION FairSpec
CONSTANTS
  NBlock = 5
  MaxEdges = 6
  CFGs <- SmallCFGs
INVARIANTS
  TypeOK
  NoDominatorLost
  IdomsCorrect
  FrontiersCorrect
  IInv
PROPERTIES
  ConstructorReturns
CHECK_DEADLOCK FALSE
