SPECIFICATION Spec
CONSTANTS
  ann = ann
  bob = bob
  doc = doc
  c1 = c1
  c2 = c2
  t1 = t1
  t2 = t2
  t3 = t3
  p1 = p1
  p2 = p2
  a1 = a1
  a2 = a2
  v1 = v1
  platform = platform
  safe = safe
  zero = zero
  nohash = nohash
  none = none
  User <- Users
  Hash <- Documents
  Cred <- TwoRows
  Thread <- ThreeThreads
  Proc <- TwoWorkers
  Admin <- OneAdmin
  Viewer <- Nobody
  Address <- Accounts
  ZeroAddress = zero
  ZeroHash = nohash
  Issuer = platform
  Deployer = platform
  Safe = safe
  None = none
  Governance <- Accreditation
  MaxFaults = 1
SYMMETRY Symmetric
INVARIANTS
  ConfirmationsAreBacked
  OneConfirmationPerDocument
  RevokedByAdmin
CHECK_DEADLOCK FALSE
