\* One caller: the workers retire, and work is left in the queue.
SPECIFICATION FairSpec
CONSTANTS
  t1 = t1
  t2 = t2
  t3 = t3
  c1 = c1
  c2 = c2
  Threads <- MCThreads
  Callers <- MCOneCaller
  Wrappers <- MCNone
  MaxDepth = 0
  NoThread = NoThread
  NoCaller = NoCaller
PROPERTY
  EveryThreadRuns
