\* Creations may fail up to twice, after which stats.lock is never free again
\* and the pool stops: deadlock is not an error here.
SPECIFICATION FairSpec
CONSTANTS
  t1 = t1
  t2 = t2
  t3 = t3
  c1 = c1
  c2 = c2
  Threads <- MCThreads
  Callers <- MCCallers
  Wrappers <- MCOneCaller
  MaxDepth = 3
  NoThread = NoThread
  NoCaller = NoCaller
INVARIANTS
  CountersSound
  WorkFound
  PoolBounded
PROPERTIES
  ExecutorSpec
  RunsWhileOthersStart
CHECK_DEADLOCK FALSE
