\* Three threads: two readers and a writer, two writers and a reader.
CONSTANTS
  t1 = t1
  t2 = t2
  t3 = t3
  Threads <- MCThreads
SPECIFICATION FairSpec
INVARIANTS
  Exclusion
PROPERTIES
  ReadersWritersSpec
  NoBarging
  GetsIn
