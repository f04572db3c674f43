CHECK_DEADLOCK FALSE
SPECIFICATION TMFairSpec
CONSTANTS
  Worker = {0, 1, 2}
  NoThread = NoThread
  Calls = 1
  Programs <- MCEnd
PROPERTY
  EndKillsWorkers
