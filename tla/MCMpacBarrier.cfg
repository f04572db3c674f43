SPECIFICATION FairSpec
CONSTANTS
  Worker = {w1, w2, w3, w4}
  NoThread = NoThread
  Calls = 3
INVARIANTS
  NoOvertaking
PROPERTIES
  ImplementsPhaseBarrier
  AllReturn
