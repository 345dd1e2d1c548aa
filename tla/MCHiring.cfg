SPECIFICATION HiringSpec
CONSTANTS
  a1 = a1
  f1 = f1
  m1 = m1
  t1 = t1
  t2 = t2
  none = none
  App <- OneApplication
  Gig <- OneApplication
  Flag <- OneFlag
  Msg <- OneMessage
  Thread <- TwoThreads
  None = none
  Given <- BestAndWorst
  Context <- Contexts
  MaxAge = 1
  MaxRequests = 5
  MaxFaults = 1
SYMMETRY Symmetric
INVARIANTS
  RatedWasHired
  ToldIsSo
  ReadWasServed
  AttachmentsAgree
  ToldOnce
  ErasedTextIsGone
PROPERTIES
  TrustFallsForAReason
CHECK_DEADLOCK FALSE
