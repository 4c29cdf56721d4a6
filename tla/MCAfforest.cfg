SPECIFICATION FairSpec
CONSTANTS
  NumNodes = 4
  Threads = {t1, t2}
  NeighborRounds = 2
  Graphs <- MCGraphs
INVARIANTS
  SoundInv
  SampledThenCompressed
  LabelsExact
PROPERTIES
  LabelsDescend
  MergesOnly
  Termination
