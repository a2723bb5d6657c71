SPECIFICATION ReadSpec
CONSTANTS
  o1 = o1
  Nobody = Nobody
  Read = Read
  Owners <- OneOwner
  Ids <- OneRead
  MaxOffset = 3
  MaxRecords = 2
  FlowCapacity = 2
  MaxSize = 3
  MaxRecord = 2
  Window = 2
  MayError = FALSE
  UpCap = 2
  LaneCap = 3
  o2 = o2
INVARIANT LateCreditHarmless
CHECK_DEADLOCK FALSE
