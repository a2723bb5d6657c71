SPECIFICATION FairSpec
CONSTANTS
  a1 = a1
  a2 = a2
  None = None
  Attempts = {a1}
  DualPort = TRUE
  Freezers = {TRUE}
  FlowExec = TRUE
  Window <- OneCredit
  Queue <- TwoBulk
  MaxCommands = 1
  MaxOutput = 1
CHECK_DEADLOCK FALSE
INVARIANT CutExact
PROPERTIES AttemptSettles InputMoves
