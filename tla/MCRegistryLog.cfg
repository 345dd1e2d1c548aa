SPECIFICATION Spec
CONSTANTS
  deployer = deployer
  bank = bank
  zero = zero
  doc = doc
  nohash = nohash
  Address <- TwoAccounts
  Hash <- OneDocument
  ZeroAddress = zero
  ZeroHash = nohash
  InitialOwner = deployer
  MaxBlock = 3
  MaxEvents = 4
PROPERTIES
  ListingIsCurrent
  LedgerSpec
CHECK_DEADLOCK FALSE
