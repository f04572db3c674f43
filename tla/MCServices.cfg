SPECIFICATION VFairSpec
CONSTANTS
  BuffSize = 4
  BufSz = 2
  Memory <- MCMemory
  Cpus = {0, 2}
  MaxErrors = 1
  MaxGrowth = 1
  MaxCount = 5
  IntHalf = 4
  Second = 2
  Loops = 2
  MaxLap = 3
  Diffs = 2
  MaxCalls = 2
  Jobs <- MCJobs
INVARIANTS
  CountsProcessors
  ReadsWholeFile
  MeasuresElapsed
  StatsOfSample
PROPERTY
  ProgramsEnd
