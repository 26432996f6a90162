SPECIFICATION FairSpec
CONSTANTS
  t1 = t1  t2 = t2  t3 = t3
  Threads = {t1, t2, t3}
  Counts = {0, 1, 2, 3, 4, 5}
  Kernel = FALSE
  ReconfigureAnyTime = FALSE
  Nobody = Nobody
INVARIANTS TypeOK TextIsOwn NoticeNeedsCrowd
PROPERTIES CallReturns
