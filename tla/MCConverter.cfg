SPECIFICATION Spec
CONSTANTS
  Threads = {t1, t2}
  BlockSize = 3
  MaxRand = 7
  MaxWeight = 3
  kRandSeed = 1
  Draw <- Drawing8
  RightToLeft = TRUE
  WsFails = FALSE
  Unset = {0, 7}
  Buckets = 2
  Inputs <- MCInputs
  Invocations = 2
  Commands <- MCCommands
INVARIANTS
  ConverterInv
  ReadsExactly
  GeneratesAlone
  GraphExact
  RoundTrip
CHECK_DEADLOCK FALSE
