SPECIFICATION Spec
CONSTANTS
  f1 = f1
  File <- OneFile
  Keep <- OneOrAll
  MaxRuns = 2
  MaxRestores = 1
  MaxFaults = 1
INVARIANTS
  SuccessIsRestorable
  PlaintextIsTransient
  ArchivesAreConsistent
  RestoreLosesNothing
PROPERTIES
  RetentionHolds
CHECK_DEADLOCK FALSE
