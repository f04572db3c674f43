SPECIFICATION CFairSpec
CONSTANTS
  Worker = {0, 1, 2}
  NoThread = NoThread
  Routines <- MCRoutines
  Calls = 10
  Jobs <- MCJobs
  MAX = 2
INVARIANTS
  ResultIsPhaseSpan
  WorksTogether
  ContextInUse
  PrintedIsWhatRan
PROPERTIES
  AllMeasured
