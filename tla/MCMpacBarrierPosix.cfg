SPECIFICATION SpecPosix
CONSTANTS
  Worker = {w1, w2}
  NoThread = NoThread
  Calls = 2
INVARIANT
  StartTogether
