SPECIFICATION FollowSpec
CONSTANTS
  t1 = t1  t2 = t2  d1 = d1  d2 = d2  f1 = f1  c1 = c1
  Tracers = {t1}
  Dumpers = {}
  Followers = {f1}
  Configurers = {}
  PoolSizes <- SmallestRing
  PrintArgs <- SmallBuffers
  CounterMod = 32
  MaxTracepts = 10
  Kernel = FALSE
  AllocMayFail = FALSE
  ReconfigureAnyTime = FALSE
  NoTicket <- Unwritten
  Uninit <- Garbled
  NoThread = NoThread
INVARIANTS AtMostOnce
PROPERTIES SkipsOnlyTheOverwritten LapIsNoticed CatchesUp
