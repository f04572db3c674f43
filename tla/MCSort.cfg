SPECIFICATION SFairSpec
CONSTANTS
  Worker = {0, 1, 2}
  NoThread = NoThread
  Calls = 2
  Arrays <- MCArrays
  UseCases = {"b", "q"}
  MaxLen = 4
  MaxValue = 4
INVARIANTS
  HandOver
  Sorted
PROPERTY
  Ends
