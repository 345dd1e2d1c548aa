SPECIFICATION FairSpec
CONSTANTS
  ann = ann
  bob = bob
  doc = doc
  c1 = c1
  c2 = c2
  t1 = t1
  t2 = t2
  t3 = t3
  p1 = p1
  p2 = p2
  a1 = a1
  a2 = a2
  v1 = v1
  platform = platform
  safe = safe
  zero = zero
  nohash = nohash
  none = none
  User <- OneUser
  Hash <- Documents
  Cred <- OneRow
  Thread <- TwoThreads
  Proc <- OneWorker
  Admin <- OneAdmin
  Viewer <- OneViewer
  Address <- Accounts
  ZeroAddress = zero
  ZeroHash = nohash
  Issuer = platform
  Deployer = platform
  Safe = safe
  None = none
  Governance <- HandOver
  MaxFaults = 1
PROPERTIES
  PageIsSound
  ThreadsEnd
  UploadsReachTheChain
  RevocationsReachTheChain
CHECK_DEADLOCK FALSE
