SPECIFICATION FairSpec
CONSTANTS
  NumNodes = 3
  Threads = {t1, t2}
  Graphs <- MCGraphs
INVARIANTS
  SoundInv
  QuietRoundIsFinal
PROPERTIES
  HookedForGood
  Termination
