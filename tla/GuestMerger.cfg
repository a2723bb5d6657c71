SPECIFICATION Spec
CONSTANTS
  o1 = o1
  o2 = o2
  Nobody = Nobody
  Owners <- TwoOwners
  Ids <- OneId
  MaxOffset = 5
  MaxRecords = 3
  FlowCapacity = 4
INVARIANTS HeldApart WithinBudget WaitsForGap
PROPERTIES InOrderStream TerminalAfterFinish
CHECK_DEADLOCK FALSE
