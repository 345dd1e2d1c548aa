SPECIFICATION Spec
CONSTANTS
  s1 = s1
  s2 = s2
  d1 = d1
  d2 = d2
  q1 = q1
  q2 = q2
  w1 = w1
  w2 = w2
  red = red
  nil = nil
  Session <- TwoSessions
  Code <- TwoCodes
  Thread <- TwoThreads
  Proc <- TwoProcesses
  Redis = red
  None = nil
  Limit = 2
  MaxRequests = 4
  MaxFaults = 1
SYMMETRY Interchangeable
INVARIANTS
  RevokedIsOut
  SignedInIsCurrent
  CodeIsSpentOnce
  AttemptsAreBounded
CHECK_DEADLOCK FALSE
