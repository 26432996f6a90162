SPECIFICATION Spec
CONSTANTS
  t1 = t1  t2 = t2  b1 = b1  b2 = b2
  Threads = {t1, t2}
  Sites <- TwoSites
  Blocks = {b1, b2}
  Sizes = {1, 3}
  Half = 4
  Overlap = FALSE
  RecordMayFail = TRUE
  NoThread = NoThread
  NoBlock = NoBlock
SYMMETRY Symmetry
INVARIANTS ListSorted CountIsLive AllocsAtCounts MemTotalExact CleanIsPrinted
PROPERTIES KeepsLedger
CHECK_DEADLOCK FALSE
