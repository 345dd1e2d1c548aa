SPECIFICATION Spec
CONSTANTS
  ama = ama
  isa = isa
  shop = shop
  k1 = k1
  k2 = k2
  r1 = r1
  r2 = r2
  nil = nil
  Worker <- TwoWorkers
  Employer <- OneEmployer
  Case <- TwoCases
  Thread <- TwoThreads
  Kind <- Filings
  None = nil
  MaxFiles = 2
  MaxRequests = 5
  MaxFaults = 1
SYMMETRY Interchangeable
INVARIANTS
  ErasureWaits
  GrantedIsEffective
  ErasedLeavesFew
  NamedIsOnDisk
  BadgeIsReviewed
CHECK_DEADLOCK FALSE
