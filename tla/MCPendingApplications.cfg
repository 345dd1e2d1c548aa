SPECIFICATION Spec
CONSTANTS
  ann = ann
  bob = bob
  post = post
  r1 = r1
  r2 = r2
  sync = sync
  s1 = s1
  file1 = file1
  file2 = file2
  none = none
  User <- Users
  Job <- OneJob
  Name <- Names
  CvName <- CvNames
  SupportingName <- SupportingNames
  Request <- Requests
  Client <- OneScreen
  Sync = sync
  ScreenUser <- Ann
  PortalUser <- Ann
  ErasableUser <- Ann
  AgainErasable <- Nobody
  None = none
  MaxSecond = 2
  MaxEntry = 1
  MaxFaults = 1
INVARIANTS
  TypeOK
  UploadsKept
  NoOrphans
  OwnDocuments
PROPERTIES
  LeavesWhenDelivered
SYMMETRY Symmetric
CHECK_DEADLOCK FALSE
