\* Two clients lease one slot in turn: output, kills, dropped readers, stale frames.
SPECIFICATION FairFlow
CONSTANTS
  c1 = c1
  x1 = x1
  Clients = {c1}
  Ids = {x1}
  Owner <- OneCall
  Listed <- InSomeOrder
  MaxExecutions = 1
  InputLimit = 1
  OutputLimit = 3
  StdinChunk = 1
  OutputChunk = 1
  Overhead = 1
  MaxOffset = 4
  DualPort = TRUE
  SocketCap = 1
  RingCap = 1
  MaxStdin = 0
  MaxOutput = 4
  MayKill = TRUE
  MaxLives = 2
CHECK_DEADLOCK FALSE
INVARIANTS OwnFramesOnly GuestHoldsSlot ChecksPass ExitAfterOutput
PROPERTIES SlotReclaimed ExitReleasesSlot
