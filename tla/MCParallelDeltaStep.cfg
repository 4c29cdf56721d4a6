SPECIFICATION FairSpec
CONSTANTS
  NumNodes = 4
  Threads = {t1, t2}
  Weights = {1, 3}
  WeightRange = 52
  Deltas = {2}
  DistInf = 12
  MaxBin = 6
  BinSizeThreshold = 2
  Graphs <- MCGraphs
INVARIANTS
  NothingLost
  FrontierInv
PROPERTIES
  FindsShortestPaths
  Termination
