\* One client, three executions for two slots: limits, cancellation, the round robin.
SPECIFICATION TurnsSpec
CONSTANTS
  c1 = c1
  x1 = x1
  x2 = x2
  x3 = x3
  Clients = {c1}
  Ids = {x1, x2, x3}
  Owner <- OneClient
  MaxExecutions = 2
  InputLimit = 1
  OutputLimit = 3
  StdinChunk = 1
  OutputChunk = 1
  Overhead = 2
  MaxOffset = 2
SYMMETRY Alike
VIEW Seen
INVARIANTS
  SlotsBounded
  WithinAllowances
  StdinContiguous
  EveryQueueScheduledOnce
  NobodyOvertaken
PROPERTIES
  CancelledInputStops

