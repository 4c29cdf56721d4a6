SPECIFICATION FairSpec
CONSTANTS
  NumNodes = 6
  Graphs <- MCGraphs
  CommandLines <- MCCommandLines
  Streams <- MCStreams
  Alphas = {1, 6}
  Betas = {6}
INVARIANTS
  PointersInv
  TrialsExact
PROPERTIES
  Termination
