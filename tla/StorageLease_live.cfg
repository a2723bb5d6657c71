\* One process whose readers come back for ever.
SPECIFICATION FairSpec
CONSTANTS
  s1 = s1
  a1 = a1
  x1 = x1
  w1 = w1
  d1 = d1
  p1 = p1
  p2 = p2
  None = None
  SyncReaders = {s1}
  AsyncReaders = {a1}
  SyncWriters = {x1}
  AsyncWriters = {w1}
  Deleters = {}
  Procs = {p1}
  ProcOf <- OneHome
  Again = {s1, a1}
  MayFail = FALSE
  MayCancel = FALSE
  MayDie = FALSE
CHECK_DEADLOCK FALSE
PROPERTY WriterServed
