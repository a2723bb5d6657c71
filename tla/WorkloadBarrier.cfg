SPECIFICATION Spec
CONSTANTS
  a1 = a1
  a2 = a2
  None = None
  Attempts = {a1, a2}
  DualPort = FALSE
  Freezers = {TRUE, FALSE}
  FlowExec = TRUE
  Window <- OneCredit
  Queue <- Mixed
  MaxCommands = 2
  MaxOutput = 0
CHECK_DEADLOCK FALSE
INVARIANTS NoCrossing LedgersOrdered OwnReply
PROPERTIES AdmitsWhileRunning
