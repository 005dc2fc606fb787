SPECIFICATION Spec
CONSTANTS
  NPass = 4
  Graphs <- SimpleGraphs
  Kinds <- MCKinds
  Items <- MCItems
  Preserved = {}
  ReuseHeaps = TRUE
  Lifetimes = {"Managed"}
  MaxRequests = 1
  MaxHeaps = 4
  MaxRuns = 1
INVARIANTS
  TypeOK
  NeverRefused
  DependenciesFirst
  ChunksCoverEnabled
  ResultsIntact
  NoLeak
PROPERTIES
  RunReturns
CHECK_DEADLOCK FALSE
