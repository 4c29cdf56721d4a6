SPECIFICATION FairSpec
CONSTANTS
  NumNodes = 6
  Threads = {t1, t2}
  Graphs <- MCGraphs
  Alphas = {1, 6}
  Betas = {6}
  BufferSize = 1
  WordBits = 2
  Chunk = 2
INVARIANTS
  QueueInv
  LevelsExact
PROPERTIES
  GrowsShortestPathTree
  Termination
