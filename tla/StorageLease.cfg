\* Two processes with every kind of caller, failures, cancellation and death.
SPECIFICATION Spec
CONSTANTS
  s1 = s1
  a1 = a1
  x1 = x1
  w1 = w1
  d1 = d1
  p1 = p1
  p2 = p2
  None = None
  SyncReaders = {s1}
  AsyncReaders = {a1}
  SyncWriters = {x1}
  AsyncWriters = {w1}
  Deleters = {d1}
  Procs = {p1, p2}
  ProcOf <- Home
  Again = {s1, a1}
  MayFail = TRUE
  MayCancel = TRUE
  MayDie = TRUE
CHECK_DEADLOCK FALSE
INVARIANTS Exclusion OneDescriptor WriterFirst SleepersTold
