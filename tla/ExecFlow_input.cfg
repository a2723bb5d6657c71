\* Stdin of one execution: partial writes, merging, cancelled writes, EOF.
SPECIFICATION FairFlow
CONSTANTS
  c1 = c1
  x1 = x1
  Clients = {c1}
  Ids = {x1}
  Owner <- OneCall
  Listed <- InSomeOrder
  MaxExecutions = 1
  InputLimit = 3
  OutputLimit = 2
  StdinChunk = 2
  OutputChunk = 1
  Overhead = 1
  MaxOffset = 4
  DualPort = FALSE
  SocketCap = 1
  RingCap = 1
  MaxStdin = 4
  MaxOutput = 0
  MayKill = FALSE
  MaxLives = 1
CHECK_DEADLOCK FALSE
INVARIANTS
  CountersOrdered
  PermitsConserved
  EofComplete
PROPERTIES StdinSettles
