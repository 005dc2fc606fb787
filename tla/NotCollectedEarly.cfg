SPECIFICATION Spec
CONSTANTS
  NPass = 4
  Graphs <- SimpleGraphs
  Kinds <- MCKinds
  Items <- MCItems
  Preserved = {}
  ReuseHeaps = TRUE
  Lifetimes = {"Managed"}
  MaxRequests = 1
  MaxHeaps = 4
  MaxRuns = 1
INVARIANTS
  NotCollectedEarly
CHECK_DEADLOCK FALSE
