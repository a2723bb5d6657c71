SPECIFICATION FairReadSpec
CONSTANTS
  o1 = o1
  Nobody = Nobody
  Read = Read
  Owners <- OneOwner
  Ids <- OneRead
  MaxOffset = 3
  MaxRecords = 2
  FlowCapacity = 2
  MaxSize = 3
  MaxRecord = 2
  Window = 2
  MayError = TRUE
  UpCap = 2
  LaneCap = 3
  o2 = o2
INVARIANTS LanesAgree StreamValid ReadExact
PROPERTIES ReadEnds DropReleases SlotReturns
CHECK_DEADLOCK FALSE
