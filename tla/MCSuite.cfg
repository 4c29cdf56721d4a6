SPECIFICATION Spec
CONSTANTS
  NumNodes = 4
  Threads = {t1, t2}
  TCGraphs <- AllUndirected
  MinAverageDegree = 1
  MaxSamples = 3
  BCGraphs <- Lattices
  NumIters = 2
  BufferSize = 1
  Unit = 2
  VFGraphs <- Hangings
  PRNodes = 3
  PRGraphs <- Three
  PRUnit <- Units
  Damp = 1
  DampOf = 2
  CommandLines <- Options
  TopSize = 2
INVARIANTS
  ScanInv
  ResultExact
  PathsInv
  ScoresExact
  ListInv
  VerdictExact
  RanksInv
  RanksExact
