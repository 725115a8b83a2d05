SPECIFICATION FairSpec
CONSTANTS
  SlaveCount = 2
  Limit = 2
  MaxCount = 3
INVARIANTS
  TypeOK
  ArrayBound
  ScanIsComplete
PROPERTIES
  ScanReturns
