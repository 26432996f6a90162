SPECIFICATION FairSpec
CONSTANTS
  t1 = t1  t2 = t2  d1 = d1  d2 = d2  f1 = f1  c1 = c1
  Tracers = {t1}
  Dumpers = {d1}
  Followers = {}
  Configurers = {}
  PoolSizes <- SmallestRing
  PrintArgs <- AnyBuffer
  CounterMod = 8
  MaxTracepts = 8
  Kernel = FALSE
  AllocMayFail = FALSE
  ReconfigureAnyTime = FALSE
  NoTicket <- Unwritten
  Uninit <- Garbled
  NoThread = NoThread
INVARIANTS PrintsItsPosition
PROPERTIES PrintReturns
