\* A short group does stop: its threads wait for those never created.
CHECK_DEADLOCK FALSE
SPECIFICATION DFairSpec
CONSTANTS
  Worker = {0, 1, 2}
  NoThread = NoThread
  Calls = 2
  Programs <- MCPrograms
  Disks <- MCDisks
  Old = 1
INVARIANTS
  LiveThreadsComeNext
  JoinedBeforeFree
  RatesOfOneFile
PROPERTIES
  LockMadeAnewWhenFree
  StartjReturns
