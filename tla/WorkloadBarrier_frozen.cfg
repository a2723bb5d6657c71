SPECIFICATION Spec
CONSTANTS
  a1 = a1
  a2 = a2
  None = None
  Attempts = {a1}
  DualPort = FALSE
  Freezers = {TRUE}
  FlowExec = TRUE
  Window <- OneCredit
  Queue <- OneData
  MaxCommands = 1
  MaxOutput = 0
CHECK_DEADLOCK FALSE
INVARIANTS FrozenIsLast
