SPECIFICATION NFairSpec
CONSTANTS
  num_thrs = 3
  Setups <- MCSetups
  SockBuf = 1
  MaxTimed <- MCMaxTimed
INVARIANTS
  SentInBounds
  StarvesOnlyAfterMishap
PROPERTY
  CountingSendersEnd
CHECK_DEADLOCK FALSE
