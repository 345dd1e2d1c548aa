SPECIFICATION Spec
CONSTANTS
  board = board
  l1 = l1
  l2 = l2
  r1 = r1
  r2 = r2
  r3 = r3
  j1 = j1
  j2 = j2
  j3 = j3
  w1 = w1
  w2 = w2
  cli1 = cli1
  a1 = a1
  a2 = a2
  none = none
  Source <- OneSource
  Listing <- OneListing
  SourceOf <- OnBoard
  Run <- TwoRuns
  JobId <- TwoJobs
  Poller <- TwoWorkers
  Cli <- OneCommand
  Admin <- Nobody
  MaxBackfill = 1
  MaxFaults = 0
  None = none
SYMMETRY Symmetric
INVARIANTS
  OneWorkerPerRun
  NoDuplicateRows
PROPERTIES
  FullTextKept
CHECK_DEADLOCK FALSE
