SPECIFICATION Spec
CONSTANTS
  t1 = t1  t2 = t2  d1 = d1  d2 = d2  f1 = f1  c1 = c1
  Tracers = {t1, t2}
  Dumpers = {}
  Followers = {f1}
  Configurers = {c1}
  PoolSizes <- RingsAndWrong
  PrintArgs <- AnyBuffer
  CounterMod = 64
  MaxTracepts = 6
  Kernel = TRUE
  AllocMayFail = TRUE
  ReconfigureAnyTime = FALSE
  NoTicket <- Unwritten
  Uninit <- Garbled
  NoThread = NoThread
SYMMETRY TracerSymmetry
INVARIANTS TypeOK SnapshotIsNewest TracerNeverDangles NullNeverTouched
PROPERTIES KeepsLog
\* a failed runtrace_reconfigure stops every thread for good
CHECK_DEADLOCK FALSE
