\* Options whose bounds leave no window do stop: both threads poll for ever.
CHECK_DEADLOCK FALSE
SPECIFICATION FairSpec
CONSTANTS
  Options <- MCOptions
  MaxBlocks = 3
  MaxBound = 3
  MaxItrs = 2
INVARIANTS
  LeadBounded
  ResetHandshake
  ConsumesFresh
  DistanceInRange
  NoMutualWait
PROPERTIES
  ImplementsWindowPipe
  Terminates
