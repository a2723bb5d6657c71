SPECIFICATION ReadSpec
CONSTANTS
  o1 = o1
  Nobody = Nobody
  Read = Read
  Owners <- TwoOwners
  Ids <- OneRead
  MaxOffset = 2
  MaxRecords = 2
  FlowCapacity = 2
  MaxSize = 2
  MaxRecord = 1
  Window = 1
  MayError = FALSE
  UpCap = 1
  LaneCap = 2
  o2 = o2
INVARIANT OwnerIsolation
CHECK_DEADLOCK FALSE
