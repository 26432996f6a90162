SPECIFICATION CdevSpec
CONSTANTS
  t1 = t1  f1 = f1  w1 = w1  w2 = w2
  Tracers = {t1}
  Dumpers = {}
  Followers = {f1}
  Configurers = {}
  Writers = {w1, w2}
  MaxRefs = 3
  PoolSizes <- SmallestRing
  PrintArgs <- SmallBuffers
  CounterMod = 32
  MaxTracepts = 4
  Kernel = TRUE
  AllocMayFail = FALSE
  ReconfigureAnyTime = FALSE
  NoTicket <- Unwritten
  Uninit <- Garbled
  NoThread = NoThread
INVARIANTS AtMostTwoOpen ReadersCounted
PROPERTIES FirstReadMissesNothing EndOnlyWhenSwitchedOff SleeperAnswered
\* refused opens use up the bounded references to the module
CHECK_DEADLOCK FALSE
