SPECIFICATION FairSpec
CONSTANTS
  NumNodes = 5
  Weights = {0, 1, 3}
  Deltas = {2}
  WeightRange = 256
  DistInf <- HalfMax
  Graphs <- MCGraphs
INVARIANTS
  BinsInv
  DistancesExact
  VerdictExact
PROPERTIES
  Termination
