SPECIFICATION Spec
CONSTANTS
  t1 = t1  t2 = t2  t3 = t3  main = main
  Workers = {t1}
  Main = main
  StackDepth = 2
  NoThread = NoThread
PROPERTIES FlushShows
\* the process may end
CHECK_DEADLOCK FALSE
