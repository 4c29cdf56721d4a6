SPECIFICATION Spec
CONSTANTS
  NumNodes = 3
  Weights = {1, 2, 4}
  Deltas = {1, 2}
  WeightRange = 256
  DistInf <- kDistInf
  Graphs <- MCGraphs
INVARIANTS
  DistancesExact
