SPECIFICATION Spec
CONSTANTS
  NPass = 3
  MaxEdges = 3
  Kinds <- MCKinds
  Items <- MCItems
  Preserved = {2}
  ReuseHeaps = TRUE
  Lifetimes = {"Managed", "Temporary"}
  MaxRequests = 1
  MaxHeaps = 4
  MaxRuns = 2
INVARIANTS
  RunsInDependencyOrder
CHECK_DEADLOCK FALSE
