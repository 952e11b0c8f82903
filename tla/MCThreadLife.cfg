\* Main wraps itself, as under XplMain. The run ends with the shutdown.
SPECIFICATION FairSpec
CONSTANTS
  w1 = w1
  w2 = w2
  t1 = t1
  t2 = t2
  t3 = t3
  g1 = g1
  g2 = g2
  Workers <- MCWorkers
  Main = Main
  Groups <- MCGroups
  Threads <- MCThreads
  Null = Null
  Wrapped = TRUE
  MaxStarts = 2
INVARIANTS
  GroupSafe
  CountsAgree
  RefsSound
PROPERTY
  DestroyReturns
CHECK_DEADLOCK FALSE
