CHECK_DEADLOCK FALSE
SPECIFICATION TMSpec
CONSTANTS
  Worker = {0, 1}
  NoThread = NoThread
  Calls = 1
  Programs <- MCDetach
INVARIANT
  ReleasedByThreadItself
