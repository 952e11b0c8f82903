\* Two threads, two slabs of two nodes, chunks of two.
CONSTANTS
  t1 = t1
  t2 = t2
  s1 = s1
  s2 = s2
  Threads <- MCThreads
  Slabs <- MCSlabs
  NodesPerSlab = 2
  NoSlab = NoSlab
  ChunkSizes <- MCChunkSizes
  MaxHeld = 2
  MaxChunks = 1
SPECIFICATION FairSpec
INVARIANTS
  NodesExclusive
  AllocatedMark
  CountersSound
  CallbackContract
  SlabListIntact
PROPERTIES
  NodePoolSpec
  AllocProgress
