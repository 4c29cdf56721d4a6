SPECIFICATION Spec
CONSTANTS
  NumNodes = 7
  Threads = {t1}
  WeightRange = 100
  Deltas = {4}
  DistInf = 24
  MaxBin = 6
  BinSizeThreshold = 5
  Graphs <- MCGraphs
INVARIANTS
  FrontierFits
