SPECIFICATION FairSpec
CONSTANTS
  NPass = 4
  MaxEdges = 4
INVARIANTS
  TypeOK
  TopologicalOrder
  SortedIsPermutation
  CycleIsReal
PROPERTIES
  ImplementsOrder
  InitTerminates
CHECK_DEADLOCK FALSE
