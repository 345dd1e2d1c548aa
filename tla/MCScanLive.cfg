SPECIFICATION FairSpec
CONSTANTS
  board = board
  l1 = l1
  l2 = l2
  r1 = r1
  r2 = r2
  r3 = r3
  j1 = j1
  j2 = j2
  j3 = j3
  w1 = w1
  w2 = w2
  cli1 = cli1
  a1 = a1
  a2 = a2
  none = none
  Source <- OneSource
  Listing <- OneListing
  SourceOf <- OnBoard
  Run <- TwoRuns
  JobId <- OneJob
  Poller <- OneWorker
  Cli <- Nobody
  Admin <- OneAdmin
  MaxBackfill = 1
  MaxFaults = 1
  None = none
INVARIANTS
  NoPile
PROPERTIES
  SourcesAreRescanned
CHECK_DEADLOCK FALSE
