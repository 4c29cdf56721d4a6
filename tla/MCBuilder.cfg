SPECIFICATION Spec
CONSTANTS
  Threads = {t1, t2}
  BlockSize = 2
  Inputs <- MCInputs
INVARIANTS
  BuildsExactly
  InPlaceInv
