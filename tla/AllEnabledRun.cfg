SPECIFICATION Spec
CONSTANTS
  NPass = 3
  Graphs <- SimpleGraphs
  Kinds <- MCKinds
  Items <- MCItems
  Preserved = {}
  ReuseHeaps = TRUE
  Lifetimes = {"Managed"}
  MaxRequests = 0
  MaxHeaps = 4
  MaxRuns = 1
INVARIANTS
  AllEnabledRun
CHECK_DEADLOCK FALSE
