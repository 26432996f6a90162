SPECIFICATION FairSpec
CONSTANTS
  t1 = t1  t2 = t2  b1 = b1  b2 = b2
  Threads = {t1, t2}
  Sites <- OneSite
  Blocks = {b1}
  Sizes = {1}
  Half = 4
  Overlap = FALSE
  RecordMayFail = TRUE
  NoThread = NoThread
  NoBlock = NoBlock
PROPERTIES ExitEnds
CHECK_DEADLOCK FALSE
