--------------------------- MODULE SlabPoolProofs ---------------------------
(***************************************************************************)
(* What holds of SlabPool for any number of threads, slabs and nodes: the  *)
(* lists are well formed, no node is in two places or lost, and node->slab *)
(* marks exactly the allocated nodes.  On the invariant that says this     *)
(* rest those that follow: the counters beside the lists never promise a   *)
(* node that is not there, the callbacks see every node at the right time, *)
(* and the chain of slabs never loses one.                                 *)
(***************************************************************************)
EXTENDS SlabPool, FiniteSetTheorems, TLAPS

\* The inductive invariant, node by node.

\* No node is on both lists of a slab.
OneList == \A s \in Slabs, n \in Node : ~(n \in freeList[s] /\ n \in allocList[s])

\* No node is in two of a thread's three places.
OneHand == \A t \in Threads, n \in Node :
             /\ ~(n \in held[t] /\ n \in local[t])
             /\ ~(n \in held[t] /\ n \in chunk[t])
             /\ ~(n \in local[t] /\ n \in chunk[t])

\* A node is on the lists or with one thread, and it is one or the other if
\* and only if its slab is mapped.
Places ==
  /\ \A t \in Threads, n \in Node : n \in Out(t) => n \notin Avail
  /\ \A t, u \in Threads, n \in Node : n \in Out(t) /\ n \in Out(u) => t = u
  /\ \A n \in Node : n[1] \in mapped <=> n \in Avail \/ \E t \in Threads : n \in Out(t)

\* What the local variables of thread t are good for at each of its steps.
LocalsOf(t) ==
  /\ pc[t] \in {"free_list", "alloc_list", "publish"} => cursor[t] \in Slabs
  /\ pc[t] = "push" => cursor[t] \in Slabs /\ \A n \in local[t] : n[1] = cursor[t]
  /\ pc[t] \notin {"push", "prepare"} => local[t] = {}
  /\ pc[t] = "idle" => want[t] = 1
  /\ want[t] # 1 => chunk[t] = {}
  /\ chunkSlab[t] = NoSlab => chunk[t] = {}

Locals == \A t \in Threads : LocalsOf(t)

IInv == /\ PoolType /\ ListType /\ ClientType /\ ThreadType
        /\ AllocatedMark /\ OneList /\ OneHand /\ Places /\ Locals
-----------------------------------------------------------------------------
\* What a step may do to the nodes as the callers see them.
Takes(t, S) == /\ S \subseteq Avail
               /\ Avail' = Avail \ S
               /\ \A u \in Threads : Out(u)' = IF u = t THEN Out(u) \cup S ELSE Out(u)
               /\ mapped' = mapped

Returns(t, S) == /\ S \subseteq Out(t)
                 /\ Avail' = Avail \cup S
                 /\ \A u \in Threads : Out(u)' = IF u = t THEN Out(u) \ S ELSE Out(u)
                 /\ mapped' = mapped

Adds(S) == /\ \A n \in Node : n \in S <=> n[1] \in mapped' \ mapped
           /\ mapped \subseteq mapped'
           /\ Avail' = Avail \cup S
           /\ \A u \in Threads : Out(u)' = Out(u)

Stays == /\ Avail' = Avail
         /\ \A u \in Threads : Out(u)' = Out(u)
         /\ mapped' = mapped

Clears == /\ Avail' = {}
          /\ \A u \in Threads : Out(u)' = {}
          /\ mapped' = {}

Moves == \/ \E t \in Threads, S \in SUBSET Node : S # {} /\ (Takes(t, S) \/ Returns(t, S))
         \/ \E S \in SUBSET Node : Adds(S)
         \/ Stays
         \/ Clears
-----------------------------------------------------------------------------
\* A node is a pair of its slab and an index; nothing else is used of it.
LEMMA NodeFacts ==
  /\ \A n \in Node : n[1] \in Slabs
  /\ \A s \in Slabs, n \in Node : n \in NodesOf(s) <=> n[1] = s
  /\ \A s \in Slabs : NodesOf(s) \subseteq Node
  BY DEF Node, NodesOf

LEMMA WantFacts == {1} \cup ChunkSizes \subseteq Nat \ {0}
  BY ConstantsAssumption

LEMMA NodeFinite == IsFiniteSet(Node)
  <1>1. NodesPerSlab \in Int
    BY ConstantsAssumption
  <1>2. IsFiniteSet(1..NodesPerSlab)
    BY <1>1, FS_Interval
  <1>. QED
    BY <1>2, FS_Product, ConstantsAssumption DEF Node

LEMMA AvailFacts ==
  /\ \A n : n \in Avail <=> \E s \in Slabs : n \in freeList[s] \/ n \in allocList[s]
  /\ \A n : n \in Avail' <=> \E s \in Slabs : n \in freeList'[s] \/ n \in allocList'[s]
  BY DEF Avail

LEMMA ListFacts ==
  ASSUME ListType
  PROVE  /\ Avail \subseteq Node
         /\ \A s \in Slabs : \A n \in freeList[s] \cup allocList[s] : n \in Node /\ n[1] = s
  <1>1. ASSUME NEW s \in Slabs, NEW n \in freeList[s] \cup allocList[s]
        PROVE  n \in Node /\ n[1] = s
    BY <1>1, NodeFacts DEF ListType
  <1>. QED
    BY <1>1, AvailFacts

\* _GetNode removes nodes of the list it is given, and at least one.
LEMMA CutsFacts ==
  ASSUME NEW list \in SUBSET Node, NEW n \in Nat \ {0}, NEW c \in Cuts(list, n)
  PROVE  /\ c[1] \subseteq list /\ c[2] \subseteq list
         /\ Cardinality(c[1]) \in Nat
         /\ c[2] # {}
  <1>1. /\ c[1] \subseteq list /\ c[2] \subseteq list
    BY DEF Cuts
  <1>2. IsFiniteSet(c[1])
    BY <1>1, NodeFinite, FS_Subset
  <1>3. c[2] # {}
    <2>1. CASE n = 1 \/ list = {}
      BY <2>1 DEF Cuts
    <2>2. CASE ~(n = 1 \/ list = {}) /\ Cardinality(list) < n
      BY <2>2 DEF Cuts
    <2>3. CASE ~(n = 1 \/ list = {}) /\ ~(Cardinality(list) < n)
      <3>1. Cardinality(c[2]) = n - 1
        BY <2>3 DEF Cuts
      <3>. QED
        BY <2>3, <3>1, FS_EmptySet
    <2>. QED
      BY <2>1, <2>2, <2>3
  <1>. QED
    BY <1>1, <1>2, <1>3, FS_CardinalityType

\* The moves keep every node in one place.
LEMMA PlacesKept ==
  ASSUME Places, Moves
  PROVE  Places'
  <1>1. ASSUME NEW t \in Threads, NEW S \in SUBSET Node, Takes(t, S)
        PROVE  Places'
    BY <1>1 DEF Places, Takes
  <1>2. ASSUME NEW t \in Threads, NEW S \in SUBSET Node, Returns(t, S)
        PROVE  Places'
    BY <1>2 DEF Places, Returns
  <1>3. ASSUME NEW S \in SUBSET Node, Adds(S)
        PROVE  Places'
    BY <1>3 DEF Places, Adds
  <1>4. ASSUME Stays
        PROVE  Places'
    BY <1>4 DEF Places, Stays
  <1>5. ASSUME Clears
        PROVE  Places'
    BY <1>5 DEF Places, Clears
  <1>. QED
    BY <1>1, <1>2, <1>3, <1>4, <1>5 DEF Moves

\* An invariant that talks of other variables is not touched by the steps of
\* the search for a slab.
LEMMA SearchIInv ==
  ASSUME IInv, UNCHANGED <<mapped, lists, history, clients, local>>,
         PoolType', ThreadType', Locals'
  PROVE  IInv' /\ Stays
  <1>. USE DEF IInv, lists, history, clients
  <1>1. ListType'
    BY DEF ListType
  <1>2. ClientType'
    BY DEF ClientType
  <1>3. Stays
    BY DEF Stays, Avail, Out
  <1>4. Places'
    BY <1>3, PlacesKept DEF Moves
  <1>5. AllocatedMark' /\ OneList' /\ OneHand'
    BY DEF AllocatedMark, OneList, OneHand
  <1>. QED
    BY <1>1, <1>2, <1>3, <1>4, <1>5
-----------------------------------------------------------------------------
LEMMA InitIInv == Init => IInv
  <1>. SUFFICES ASSUME Init PROVE IInv
    OBVIOUS
  <1>. USE DEF Init, FreshPool
  <1>1. PoolType
    BY DEF PoolType, SlabOrNull
  <1>2. ListType
    BY DEF ListType, SlabOrNull
  <1>3. ClientType
    BY DEF ClientType, SlabOrNull
  <1>4. ThreadType
    BY DEF ThreadType, SlabOrNull
  <1>5. AllocatedMark
    BY DEF AllocatedMark
  <1>6. OneList /\ OneHand
    BY DEF OneList, OneHand
  <1>7. Places
    BY AvailFacts DEF Places, Out
  <1>8. Locals
    BY DEF Locals, LocalsOf
  <1>. QED
    BY <1>1, <1>2, <1>3, <1>4, <1>5, <1>6, <1>7, <1>8 DEF IInv

-----------------------------------------------------------------------------
\* A step of the search sets the program counter p, the cursor c and the
\* number of nodes w wanted by one thread, which has nothing in its hands.
LEMMA SearchLocals ==
  ASSUME IInv, UNCHANGED <<mapped, lists, history, clients, local>>, PoolType',
         NEW t \in Threads, local[t] = {},
         NEW p \in InPoolAlloc \ {"prepare"},
         NEW c \in SlabOrNull, NEW w \in {1} \cup ChunkSizes,
         pc' = [pc EXCEPT ![t] = p],
         cursor' = [cursor EXCEPT ![t] = c],
         want' = [want EXCEPT ![t] = w],
         p \in {"free_list", "alloc_list", "publish"} => c \in Slabs,
         w # 1 => chunk[t] = {}
  PROVE  IInv' /\ Stays
  <1>1. ThreadType'
    BY DEF IInv, ThreadType
  <1>2. ASSUME NEW u \in Threads
        PROVE  LocalsOf(u)'
    <2>1. /\ LocalsOf(u)
          /\ chunk'[u] = chunk[u] /\ chunkSlab'[u] = chunkSlab[u]
          /\ local'[u] = local[u]
      BY DEF IInv, Locals, clients
    <2>2. CASE u = t
      <3>1. pc'[u] = p /\ cursor'[u] = c /\ want'[u] = w
        BY <2>2 DEF IInv, ThreadType
      <3>. QED
        BY <2>1, <2>2, <3>1 DEF LocalsOf, InPoolAlloc
    <2>3. CASE u # t
      <3>1. pc'[u] = pc[u] /\ cursor'[u] = cursor[u] /\ want'[u] = want[u]
        BY <2>3 DEF IInv, ThreadType
      <3>. QED
        BY <2>1, <3>1 DEF LocalsOf
    <2>. QED
      BY <2>2, <2>3
  <1>. QED
    BY <1>1, <1>2, SearchIInv DEF Locals

LEMMA SearchScan ==
  ASSUME IInv, UNCHANGED <<mapped, lists, history, clients, local>>, PoolType',
         NEW t \in Threads, local[t] = {},
         NEW c \in SlabOrNull, NEW w \in {1} \cup ChunkSizes,
         Scan(t, c),
         want' = [want EXCEPT ![t] = w],
         w # 1 => chunk[t] = {}
  PROVE  IInv' /\ Stays
  <1>1. CASE c = NoSlab
    <2>1. /\ "grow" \in InPoolAlloc \ {"prepare"}
         /\ "grow" \notin {"free_list", "alloc_list", "publish"}
      BY DEF InPoolAlloc
    <2>2. pc' = [pc EXCEPT ![t] = "grow"] /\ cursor' = [cursor EXCEPT ![t] = c]
      BY <1>1 DEF Scan, Goto
    <2>. QED
      BY <2>1, <2>2, SearchLocals
  <1>2. CASE c # NoSlab
    <2>1. "free_list" \in InPoolAlloc \ {"prepare"} /\ c \in Slabs
      BY <1>2 DEF InPoolAlloc, SlabOrNull
    <2>2. pc' = [pc EXCEPT ![t] = "free_list"] /\ cursor' = [cursor EXCEPT ![t] = c]
      BY <1>2 DEF Scan, Goto
    <2>. QED
      BY <2>1, <2>2, SearchLocals
  <1>. QED
    BY <1>1, <1>2

\* The steps by which a thread looks for a slab that has a node.
Search(t) == \/ MMPoolGet(t) \/ MMPoolGetChunk(t)
             \/ SkipFree(t) \/ SkipAlloc(t)
             \/ Grow(t) \/ Waited(t) \/ SysAllocFails(t) \/ Publish(t) \/ Ungrow(t)

LEMMA SearchStep ==
  ASSUME IInv, NEW t \in Threads, Search(t)
  PROVE  IInv' /\ Stays
  <1>1. /\ cursor[t] \in SlabOrNull /\ want[t] \in {1} \cup ChunkSizes
        /\ slabList \in SlabOrNull
        /\ 1 \in {1} \cup ChunkSizes
        /\ LocalsOf(t)
        /\ PoolType
    BY DEF IInv, ThreadType, PoolType, Locals
  <1>2. /\ cursor = [cursor EXCEPT ![t] = cursor[t]]
        /\ want = [want EXCEPT ![t] = want[t]]
    BY DEF IInv, ThreadType
  <1>3. want[t] # 1 => chunk[t] = {}
    BY <1>1 DEF LocalsOf
  <1>. USE DEF pool, chain, lists, history, clients
  <1>4. CASE MMPoolGet(t)
    <2>1. PoolType' /\ local[t] = {}
      BY <1>1, <1>4 DEF MMPoolGet, PoolType, LocalsOf
    <2>. QED
      BY <1>1, <1>4, <2>1, SearchScan DEF MMPoolGet
  <1>5. CASE MMPoolGetChunk(t)
    <2>1. PoolType' /\ local[t] = {} /\ chunk[t] = {}
      BY <1>1, <1>5 DEF MMPoolGetChunk, PoolType, LocalsOf
    <2>2. PICK n \in ChunkSizes : want' = [want EXCEPT ![t] = n]
      BY <1>5 DEF MMPoolGetChunk
    <2>. QED
      BY <1>1, <1>5, <2>1, <2>2, SearchScan DEF MMPoolGetChunk
  <1>6. CASE SkipFree(t)
    <2>1. PoolType' /\ local[t] = {} /\ cursor[t] \in Slabs
      BY <1>1, <1>6 DEF SkipFree, PoolType, LocalsOf
    <2>2. CASE prepareCB
      <3>1. "alloc_list" \in InPoolAlloc \ {"prepare"}
        BY DEF InPoolAlloc
      <3>2. pc' = [pc EXCEPT ![t] = "alloc_list"] /\ cursor' = cursor /\ want' = want
        BY <1>6, <2>2 DEF SkipFree, Goto
      <3>3. UNCHANGED <<mapped, lists, history, clients, local>>
        BY <1>6 DEF SkipFree
      <3>. HIDE DEF pool, chain, lists, history, clients
      <3>. QED
        BY <1>1, <1>2, <1>3, <2>1, <3>1, <3>2, <3>3, SearchLocals
    <2>3. CASE ~prepareCB
      <3>1. next[cursor[t]] \in SlabOrNull
        BY <1>1, <2>1 DEF PoolType
      <3>2. Scan(t, next[cursor[t]]) /\ want' = want
        BY <1>6, <2>3 DEF SkipFree
      <3>. QED
        BY <1>1, <1>2, <1>3, <1>6, <2>1, <3>1, <3>2, SearchScan DEF SkipFree
    <2>. QED
      BY <2>2, <2>3
  <1>7. CASE SkipAlloc(t)
    <2>1. PoolType' /\ local[t] = {} /\ cursor[t] \in Slabs
      BY <1>1, <1>7 DEF SkipAlloc, PoolType, LocalsOf
    <2>2. next[cursor[t]] \in SlabOrNull
      BY <1>1, <2>1 DEF PoolType
    <2>. QED
      BY <1>1, <1>2, <1>3, <1>7, <2>1, <2>2, SearchScan DEF SkipAlloc
  <1>8. CASE Grow(t)
    <2>1. PoolType' /\ local[t] = {}
      BY <1>1, <1>8 DEF Grow, PoolType, LocalsOf
    <2>2. PICK p \in {"wait", "cut"} : pc' = [pc EXCEPT ![t] = p]
      BY <1>8 DEF Grow, Goto
    <2>3. p \in InPoolAlloc \ {"prepare"} /\ p \notin {"free_list", "alloc_list", "publish"}
      BY DEF InPoolAlloc
    <2>. QED
      BY <1>1, <1>2, <1>3, <1>8, <2>1, <2>2, <2>3, SearchLocals DEF Grow
  <1>9. CASE Waited(t)
    <2>1. PoolType' /\ local[t] = {}
      BY <1>1, <1>9 DEF Waited, PoolType, LocalsOf
    <2>. QED
      BY <1>1, <1>2, <1>3, <1>9, <2>1, SearchScan DEF Waited
  <1>10. CASE SysAllocFails(t)
    <2>1. PoolType' /\ local[t] = {}
      BY <1>1, <1>10 DEF SysAllocFails, PoolType, LocalsOf
    <2>2. /\ "ungrow" \in InPoolAlloc \ {"prepare"}
         /\ "ungrow" \notin {"free_list", "alloc_list", "publish"}
      BY DEF InPoolAlloc
    <2>. QED
      BY <1>1, <1>2, <1>3, <1>10, <2>1, <2>2, SearchLocals DEF SysAllocFails, Goto
  <1>11. CASE Publish(t)
    <2>1. PoolType' /\ local[t] = {}
      BY <1>1, <1>11 DEF Publish, PoolType, LocalsOf, SlabOrNull
    <2>2. /\ "ungrow" \in InPoolAlloc \ {"prepare"}
         /\ "ungrow" \notin {"free_list", "alloc_list", "publish"}
      BY DEF InPoolAlloc
    <2>. QED
      BY <1>1, <1>2, <1>3, <1>11, <2>1, <2>2, SearchLocals DEF Publish, Goto
  <1>12. CASE Ungrow(t)
    <2>1. PoolType' /\ local[t] = {}
      BY <1>1, <1>12 DEF Ungrow, PoolType, LocalsOf
    <2>. QED
      BY <1>1, <1>2, <1>3, <1>12, <2>1, SearchScan DEF Ungrow
  <1>. QED
    BY <1>4, <1>5, <1>6, <1>7, <1>8, <1>9, <1>10, <1>11, <1>12 DEF Search

-----------------------------------------------------------------------------
\* What a step has to show when it moves nodes: the invariant of the thread
\* that takes it; the other threads keep theirs with their variables.
LEMMA MoveStep ==
  ASSUME IInv, Moves, NEW t \in Threads,
         PoolType', ListType', ClientType', ThreadType',
         AllocatedMark', OneList', OneHand', LocalsOf(t)',
         \A u \in Threads \ {t} : /\ pc'[u] = pc[u] /\ cursor'[u] = cursor[u]
                                  /\ want'[u] = want[u] /\ local'[u] = local[u]
                                  /\ chunk'[u] = chunk[u] /\ chunkSlab'[u] = chunkSlab[u]
  PROVE  IInv'
  <1>1. Locals'
    <2>1. ASSUME NEW u \in Threads \ {t}
          PROVE  LocalsOf(u)'
      BY <2>1 DEF IInv, Locals, LocalsOf
    <2>. QED
      BY <2>1 DEF Locals
  <1>2. Places'
    BY PlacesKept DEF IInv
  <1>. QED
    BY <1>1, <1>2 DEF IInv

\* The nodes that leave a free list go to the client or into the chunk.
LEMMA TakeFreeStep ==
  ASSUME IInv, NEW t \in Threads, TakeFree(t)
  PROVE  IInv' /\ Moves
  <1>. DEFINE s == cursor[t]
  <1>0. PoolType /\ ListType /\ ClientType /\ ThreadType /\ OneList /\ OneHand /\ Places
    BY DEF IInv
  <1>1. PICK c \in Cuts(freeList[s], want[t]) :
          /\ freeList'  = [freeList EXCEPT ![s] = @ \ c[2]]
          /\ freeNodes' = [freeNodes EXCEPT ![s] = @ - Cardinality(c[1])]
          /\ IF want[t] = 1
             THEN /\ held' = [held EXCEPT ![t] = @ \cup c[2]]
                  /\ nodeSlab' = [n \in Node |-> IF n \in c[2] THEN s ELSE nodeSlab[n]]
                  /\ UNCHANGED <<chunk, chunkSlab, chunks>>
             ELSE /\ chunk' = [chunk EXCEPT ![t] = c[2]]
                  /\ chunkSlab' = [chunkSlab EXCEPT ![t] = s]
                  /\ chunks' = [chunks EXCEPT ![s] = @ + 1]
                  /\ UNCHANGED <<held, nodeSlab>>
    BY DEF TakeFree
  <1>2. /\ s \in Slabs /\ pc[t] = "free_list" /\ local[t] = {}
        /\ want[t] # 1 => chunk[t] = {}
    BY DEF TakeFree, IInv, Locals, LocalsOf
  <1>3. PICK mv \in SUBSET freeList[s] :
          /\ mv = c[2] /\ mv # {}
          /\ Cardinality(c[1]) \in Nat
          /\ \A n \in mv : n \in Node /\ n[1] = s
    <2>1. freeList[s] \in SUBSET Node /\ freeList[s] \subseteq NodesOf(s)
      BY <1>0, <1>2 DEF ListType
    <2>2. want[t] \in Nat \ {0}
      <3>1. want[t] \in {1} \cup ChunkSizes
        BY <1>0 DEF ThreadType
      <3>. QED
        BY <3>1, WantFacts
    <2>3. /\ c[1] \subseteq freeList[s] /\ c[2] \subseteq freeList[s]
          /\ Cardinality(c[1]) \in Nat /\ c[2] # {}
      BY <1>1, <2>1, <2>2, CutsFacts
    <2>. QED
      BY <1>2, <2>1, <2>3, NodeFacts
  <1>4. /\ UNCHANGED <<open, prepareCB, slabList, next, mapped, growing,
                       allocList, allocNodes, prepared, raw, local>>
        /\ pc' = [pc EXCEPT ![t] = "idle"]
        /\ cursor' = [cursor EXCEPT ![t] = NoSlab]
        /\ want' = [want EXCEPT ![t] = 1]
    BY DEF TakeFree, Return, Goto, pool, chain
  <1>. HIDE DEF s
  <1>5. /\ \A u \in Threads : held'[u] = IF u = t /\ want[t] = 1 THEN held[u] \cup mv
                                                                ELSE held[u]
        /\ \A u \in Threads : chunk'[u] = IF u = t /\ want[t] # 1 THEN mv ELSE chunk[u]
        /\ \A x \in Slabs : freeList'[x] = freeList[x] \ mv
    <2>1. \A x \in Slabs : x # s => freeList[x] \cap mv = {}
      BY <1>0, <1>2, <1>3, ListFacts
    <2>2. \A x \in Slabs : freeList'[x] = IF x = s THEN freeList[x] \ mv ELSE freeList[x]
      BY <1>0, <1>1, <1>3 DEF ListType
    <2>3. \A u \in Threads : held'[u] = IF u = t /\ want[t] = 1 THEN held[u] \cup mv
                                                              ELSE held[u]
      BY <1>0, <1>1, <1>3 DEF ClientType
    <2>4. \A u \in Threads : chunk'[u] = IF u = t /\ want[t] # 1 THEN mv ELSE chunk[u]
      BY <1>0, <1>1, <1>3 DEF ClientType
    <2>. QED
      BY <2>1, <2>2, <2>3, <2>4
  <1>6. PoolType'
    BY <1>0, <1>4 DEF PoolType
  <1>7. ListType'
    <2>. USE <1>0, <1>1, <1>2, <1>3, <1>4 DEF ListType
    <2>1. CASE want[t] = 1
      BY <2>1 DEF SlabOrNull
    <2>2. CASE want[t] # 1
      BY <2>2
    <2>. QED
      BY <2>1, <2>2
  <1>8. ClientType'
    <2>1. CASE want[t] = 1
      BY <2>1, <1>0, <1>1, <1>2, <1>3, <1>4 DEF ClientType
    <2>2. CASE want[t] # 1
      BY <2>2, <1>0, <1>1, <1>2, <1>3, <1>4 DEF ClientType, SlabOrNull
    <2>. QED
      BY <2>1, <2>2
  <1>9. ThreadType'
    BY <1>0, <1>4 DEF ThreadType, SlabOrNull
  <1>10. Takes(t, mv)
    <2>1. mv \subseteq Avail
      BY <1>2, <1>3, AvailFacts
    <2>2. Avail' = Avail \ mv
      <3>1. \A n : n \in Avail' <=> n \in Avail \ mv
        <4>1. \A x \in Slabs : allocList'[x] = allocList[x] /\ allocList[x] \cap mv = {}
          BY <1>0, <1>2, <1>3, <1>4, ListFacts DEF OneList
        <4>. QED
          BY <4>1, <1>5, AvailFacts
      <3>. QED
        BY <3>1
    <2>3. \A u \in Threads : Out(u)' = IF u = t THEN Out(u) \cup mv ELSE Out(u)
      BY <1>2, <1>4, <1>5 DEF Out
    <2>. QED
      BY <2>1, <2>2, <2>3, <1>4 DEF Takes
  <1>11. OneList' /\ OneHand'
    <2>1. \A n \in mv : n \notin Out(t)
      BY <1>0, <1>3, <1>10 DEF Places, Takes
    <2>. QED
      BY <2>1, <1>0, <1>2, <1>3, <1>4, <1>5 DEF OneList, OneHand, Out
  <1>12. AllocatedMark'
    <2>1. CASE want[t] = 1
      <3>1. \A n \in Node : (\E u \in Threads : n \in held'[u] \cup local'[u])
              <=> n \in mv \/ (\E u \in Threads : n \in held[u] \cup local[u])
        BY <2>1, <1>4, <1>5
      <3>2. \A n \in Node : nodeSlab'[n] = IF n \in mv THEN s ELSE nodeSlab[n]
        BY <2>1, <1>1, <1>3
      <3>. QED
        BY <3>1, <3>2, <1>2, ConstantsAssumption DEF IInv, AllocatedMark
    <2>2. CASE want[t] # 1
      BY <2>2, <1>1, <1>4, <1>5 DEF IInv, AllocatedMark
    <2>. QED
      BY <2>1, <2>2
  <1>13. LocalsOf(t)'
    <2>1. /\ pc'[t] = "idle" /\ want'[t] = 1 /\ local'[t] = {}
      BY <1>0, <1>2, <1>4 DEF ThreadType
    <2>2. chunkSlab'[t] = NoSlab => chunk'[t] = {}
      BY <1>0, <1>1, <1>2, <1>5, ConstantsAssumption DEF IInv, Locals, LocalsOf, ClientType
    <2>. QED
      BY <2>1, <2>2 DEF LocalsOf
  <1>14. \A u \in Threads \ {t} : /\ pc'[u] = pc[u] /\ cursor'[u] = cursor[u]
                                  /\ want'[u] = want[u] /\ local'[u] = local[u]
                                  /\ chunk'[u] = chunk[u] /\ chunkSlab'[u] = chunkSlab[u]
    BY <1>0, <1>1, <1>4, <1>5 DEF ThreadType, ClientType
  <1>15. Moves
    <2>1. mv \in SUBSET Node
      BY <1>3
    <2>. QED
      BY <1>3, <1>10, <2>1 DEF Moves
  <1>. QED
    BY <1>6, <1>7, <1>8, <1>9, <1>11, <1>12, <1>13, <1>14, <1>15, MoveStep

\* The node that leaves an alloc list is in the hands of the thread until it
\* is prepared; a chunk is not prepared.
LEMMA TakeAllocStep ==
  ASSUME IInv, NEW t \in Threads, TakeAlloc(t)
  PROVE  IInv' /\ Moves
  <1>. DEFINE s == cursor[t]
  <1>0. PoolType /\ ListType /\ ClientType /\ ThreadType /\ OneList /\ OneHand /\ Places
    BY DEF IInv
  <1>1. PICK c \in Cuts(allocList[s], want[t]) :
          /\ allocList'  = [allocList EXCEPT ![s] = @ \ c[2]]
          /\ allocNodes' = [allocNodes EXCEPT ![s] = @ - Cardinality(c[1])]
          /\ IF want[t] = 1
             THEN /\ local' = [local EXCEPT ![t] = c[2]]
                  /\ nodeSlab' = [n \in Node |-> IF n \in c[2] THEN s ELSE nodeSlab[n]]
                  /\ pc' = [pc EXCEPT ![t] = "prepare"]
                  /\ UNCHANGED <<chunk, chunkSlab, chunks, raw, want, cursor>>
             ELSE /\ chunk' = [chunk EXCEPT ![t] = c[2]]
                  /\ raw' = raw \cup c[2]
                  /\ chunkSlab' = [chunkSlab EXCEPT ![t] = s]
                  /\ chunks' = [chunks EXCEPT ![s] = @ + 1]
                  /\ pc' = [pc EXCEPT ![t] = "idle"]
                  /\ cursor' = [cursor EXCEPT ![t] = NoSlab]
                  /\ want' = [want EXCEPT ![t] = 1]
                  /\ UNCHANGED <<local, nodeSlab>>
    BY DEF TakeAlloc, Return, Goto
  <1>2. /\ s \in Slabs /\ pc[t] = "alloc_list" /\ local[t] = {}
        /\ want[t] # 1 => chunk[t] = {}
    BY DEF TakeAlloc, IInv, Locals, LocalsOf
  <1>3. PICK mv \in SUBSET allocList[s] :
          /\ mv = c[2] /\ mv # {}
          /\ Cardinality(c[1]) \in Nat
          /\ \A n \in mv : n \in Node /\ n[1] = s
    <2>1. allocList[s] \in SUBSET Node /\ allocList[s] \subseteq NodesOf(s)
      BY <1>0, <1>2 DEF ListType
    <2>2. want[t] \in Nat \ {0}
      <3>1. want[t] \in {1} \cup ChunkSizes
        BY <1>0 DEF ThreadType
      <3>. QED
        BY <3>1, WantFacts
    <2>3. /\ c[1] \subseteq allocList[s] /\ c[2] \subseteq allocList[s]
          /\ Cardinality(c[1]) \in Nat /\ c[2] # {}
      BY <1>1, <2>1, <2>2, CutsFacts
    <2>. QED
      BY <1>2, <2>1, <2>3, NodeFacts
  <1>4. /\ UNCHANGED <<open, prepareCB, slabList, next, mapped, growing,
                       freeList, freeNodes, prepared, held>>
    BY DEF TakeAlloc, pool, chain
  <1>. HIDE DEF s
  <1>5. /\ \A u \in Threads : local'[u] = IF u = t /\ want[t] = 1 THEN mv ELSE local[u]
        /\ \A u \in Threads : chunk'[u] = IF u = t /\ want[t] # 1 THEN mv ELSE chunk[u]
        /\ \A x \in Slabs : allocList'[x] = allocList[x] \ mv
    <2>1. \A x \in Slabs : x # s => allocList[x] \cap mv = {}
      BY <1>0, <1>2, <1>3, ListFacts
    <2>2. \A x \in Slabs : allocList'[x] = IF x = s THEN allocList[x] \ mv ELSE allocList[x]
      BY <1>0, <1>1, <1>3 DEF ListType
    <2>3. \A u \in Threads : local'[u] = IF u = t /\ want[t] = 1 THEN mv ELSE local[u]
      BY <1>0, <1>1, <1>3 DEF ThreadType
    <2>4. \A u \in Threads : chunk'[u] = IF u = t /\ want[t] # 1 THEN mv ELSE chunk[u]
      BY <1>0, <1>1, <1>3 DEF ClientType
    <2>. QED
      BY <2>1, <2>2, <2>3, <2>4
  <1>6. PoolType'
    BY <1>0, <1>4 DEF PoolType
  <1>7. ListType'
    <2>. USE <1>0, <1>1, <1>2, <1>3, <1>4 DEF ListType
    <2>1. CASE want[t] = 1
      BY <2>1 DEF SlabOrNull
    <2>2. CASE want[t] # 1
      BY <2>2
    <2>. QED
      BY <2>1, <2>2
  <1>8. ClientType'
    <2>1. CASE want[t] = 1
      BY <2>1, <1>0, <1>1, <1>2, <1>3, <1>4 DEF ClientType
    <2>2. CASE want[t] # 1
      BY <2>2, <1>0, <1>1, <1>2, <1>3, <1>4 DEF ClientType, SlabOrNull
    <2>. QED
      BY <2>1, <2>2
  <1>9. ThreadType'
    <2>1. CASE want[t] = 1
      BY <2>1, <1>0, <1>1, <1>3 DEF ThreadType, InPoolAlloc
    <2>2. CASE want[t] # 1
      BY <2>2, <1>0, <1>1 DEF ThreadType, SlabOrNull
    <2>. QED
      BY <2>1, <2>2
  <1>10. Takes(t, mv)
    <2>1. mv \subseteq Avail
      BY <1>2, <1>3, AvailFacts
    <2>2. Avail' = Avail \ mv
      <3>1. \A n : n \in Avail' <=> n \in Avail \ mv
        <4>1. \A x \in Slabs : freeList'[x] = freeList[x] /\ freeList[x] \cap mv = {}
          BY <1>0, <1>2, <1>3, <1>4, ListFacts DEF OneList
        <4>. QED
          BY <4>1, <1>5, AvailFacts
      <3>. QED
        BY <3>1
    <2>3. \A u \in Threads : Out(u)' = IF u = t THEN Out(u) \cup mv ELSE Out(u)
      BY <1>2, <1>4, <1>5 DEF Out
    <2>. QED
      BY <2>1, <2>2, <2>3, <1>4 DEF Takes
  <1>11. OneList' /\ OneHand'
    <2>1. \A n \in mv : n \notin Out(t)
      BY <1>0, <1>3, <1>10 DEF Places, Takes
    <2>. QED
      BY <2>1, <1>0, <1>2, <1>3, <1>4, <1>5 DEF OneList, OneHand, Out
  <1>12. AllocatedMark'
    <2>1. CASE want[t] = 1
      <3>1. \A n \in Node : (\E u \in Threads : n \in held'[u] \cup local'[u])
              <=> n \in mv \/ (\E u \in Threads : n \in held[u] \cup local[u])
        BY <2>1, <1>2, <1>4, <1>5
      <3>2. \A n \in Node : nodeSlab'[n] = IF n \in mv THEN s ELSE nodeSlab[n]
        BY <2>1, <1>1, <1>3
      <3>. QED
        BY <3>1, <3>2, <1>2, ConstantsAssumption DEF IInv, AllocatedMark
    <2>2. CASE want[t] # 1
      BY <2>2, <1>1, <1>4, <1>5 DEF IInv, AllocatedMark
    <2>. QED
      BY <2>1, <2>2
  <1>13. LocalsOf(t)'
    <2>1. CASE want[t] = 1
      <3>1. pc'[t] = "prepare" /\ want'[t] = 1
        BY <2>1, <1>0, <1>1 DEF ThreadType
      <3>2. chunk'[t] = chunk[t] /\ chunkSlab'[t] = chunkSlab[t]
        BY <2>1, <1>1
      <3>3. LocalsOf(t)
        BY DEF IInv, Locals
      <3>. QED
        BY <3>1, <3>2, <3>3, <2>1 DEF LocalsOf
    <2>2. CASE want[t] # 1
      <3>1. pc'[t] = "idle" /\ want'[t] = 1 /\ local'[t] = {}
        BY <2>2, <1>0, <1>1, <1>2 DEF ThreadType
      <3>2. chunkSlab'[t] # NoSlab
        BY <2>2, <1>0, <1>1, <1>2, ConstantsAssumption DEF ClientType
      <3>. QED
        BY <3>1, <3>2 DEF LocalsOf
    <2>. QED
      BY <2>1, <2>2
  <1>14. \A u \in Threads \ {t} : /\ pc'[u] = pc[u] /\ cursor'[u] = cursor[u]
                                  /\ want'[u] = want[u] /\ local'[u] = local[u]
                                  /\ chunk'[u] = chunk[u] /\ chunkSlab'[u] = chunkSlab[u]
    <2>1. CASE want[t] = 1
      BY <2>1, <1>0, <1>1, <1>5 DEF ThreadType, ClientType
    <2>2. CASE want[t] # 1
      BY <2>2, <1>0, <1>1, <1>5 DEF ThreadType, ClientType
    <2>. QED
      BY <2>1, <2>2
  <1>15. Moves
    <2>1. mv \in SUBSET Node
      BY <1>3
    <2>. QED
      BY <1>3, <1>10, <2>1 DEF Moves
  <1>. QED
    BY <1>6, <1>7, <1>8, <1>9, <1>11, <1>12, <1>13, <1>14, <1>15, MoveStep

-----------------------------------------------------------------------------
\* The new slab's nodes come from nowhere and go on one of its lists.
LEMMA NewSlabStep ==
  ASSUME IInv, NEW t \in Threads, NewSlab(t)
  PROVE  IInv' /\ Moves
  <1>0. PoolType /\ ListType /\ ClientType /\ ThreadType /\ OneList /\ OneHand /\ Places
    BY DEF IInv
  <1>1. PICK s \in Slabs \ mapped :
          /\ mapped' = mapped \cup {s}
          /\ next' = [next EXCEPT ![s] = slabList]
          /\ cursor' = [cursor EXCEPT ![t] = s]
          /\ IF prepareCB
             THEN /\ allocList' = [allocList EXCEPT ![s] = NodesOf(s)]
                  /\ allocNodes' = [allocNodes EXCEPT ![s] = NodesPerSlab]
                  /\ UNCHANGED <<freeList, freeNodes>>
             ELSE /\ freeList' = [freeList EXCEPT ![s] = NodesOf(s)]
                  /\ freeNodes' = [freeNodes EXCEPT ![s] = NodesPerSlab]
                  /\ UNCHANGED <<allocList, allocNodes>>
    BY DEF NewSlab
  <1>2. /\ pc[t] = "cut" /\ pc' = [pc EXCEPT ![t] = "publish"]
        /\ UNCHANGED <<open, prepareCB, slabList, growing, nodeSlab, prepared, raw, chunks,
                       held, chunk, chunkSlab, want, local>>
    BY DEF NewSlab, Goto, pool, history, clients
  <1>3. LocalsOf(t) /\ local[t] = {}
    BY <1>2 DEF IInv, Locals, LocalsOf
  <1>4. /\ \A n \in Node : n[1] = s => n \notin Avail /\ \A u \in Threads : n \notin Out(u)
        /\ freeList[s] = {} /\ allocList[s] = {}
    <2>1. \A n \in Node : n[1] = s => n \notin Avail /\ \A u \in Threads : n \notin Out(u)
      BY <1>0, <1>1 DEF Places
    <2>. QED
      BY <1>0, <1>1, <2>1, ListFacts, AvailFacts
  <1>5. \A x \in Slabs :
          /\ freeList'[x] = IF x = s /\ ~prepareCB THEN NodesOf(s) ELSE freeList[x]
          /\ allocList'[x] = IF x = s /\ prepareCB THEN NodesOf(s) ELSE allocList[x]
    BY <1>0, <1>1 DEF ListType
  <1>6. PoolType'
    BY <1>0, <1>1, <1>2 DEF PoolType
  <1>7. ListType'
    <2>1. NodesOf(s) \in SUBSET Node /\ NodesPerSlab \in Int
      BY <1>1, NodeFacts, ConstantsAssumption
    <2>2. /\ freeList' \in [Slabs -> SUBSET Node] /\ allocList' \in [Slabs -> SUBSET Node]
          /\ freeNodes' \in [Slabs -> Int] /\ allocNodes' \in [Slabs -> Int]
      BY <1>0, <1>1, <2>1 DEF ListType
    <2>3. \A x \in Slabs : freeList'[x] \cup allocList'[x] \subseteq NodesOf(x)
      BY <1>0, <1>5 DEF ListType
    <2>. QED
      BY <1>0, <1>2, <2>2, <2>3 DEF ListType
  <1>8. ClientType'
    BY <1>0, <1>2 DEF ClientType
  <1>9. ThreadType'
    BY <1>0, <1>1, <1>2 DEF ThreadType, InPoolAlloc, SlabOrNull
  <1>10. OneList' /\ OneHand'
    <2>1. OneList'
      BY <1>0, <1>4, <1>5 DEF OneList
    <2>2. OneHand'
      BY <1>0, <1>2 DEF OneHand
    <2>. QED
      BY <2>1, <2>2
  <1>11. Adds(NodesOf(s))
    <2>1. \A n \in Node : n \in NodesOf(s) <=> n[1] \in mapped' \ mapped
      BY <1>1, NodeFacts
    <2>2. Avail' = Avail \cup NodesOf(s)
      <3>1. \A n : n \in Avail' <=> n \in Avail \cup NodesOf(s)
        BY <1>1, <1>4, <1>5, AvailFacts
      <3>. QED
        BY <3>1
    <2>3. \A u \in Threads : Out(u)' = Out(u)
      BY <1>2 DEF Out
    <2>. QED
      BY <1>1, <2>1, <2>2, <2>3 DEF Adds
  <1>12. AllocatedMark'
    BY <1>2 DEF IInv, AllocatedMark
  <1>13. LocalsOf(t)'
    <2>1. pc'[t] = "publish" /\ cursor'[t] \in Slabs
      BY <1>0, <1>1, <1>2 DEF ThreadType
    <2>. QED
      BY <1>2, <1>3, <2>1 DEF LocalsOf
  <1>14. \A u \in Threads \ {t} : /\ pc'[u] = pc[u] /\ cursor'[u] = cursor[u]
                                  /\ want'[u] = want[u] /\ local'[u] = local[u]
                                  /\ chunk'[u] = chunk[u] /\ chunkSlab'[u] = chunkSlab[u]
    BY <1>0, <1>1, <1>2 DEF ThreadType
  <1>15. Moves
    <2>1. NodesOf(s) \in SUBSET Node
      BY <1>1, NodeFacts
    <2>. QED
      BY <1>11, <2>1 DEF Moves
  <1>. QED
    BY <1>6, <1>7, <1>8, <1>9, <1>10, <1>12, <1>13, <1>14, <1>15, MoveStep

\* Prepare, MMFree and MMChunkGet move a node from one of a thread's places
\* to another.
LEMMA PrepareStep ==
  ASSUME IInv, NEW t \in Threads, Prepare(t)
  PROVE  IInv' /\ Moves
  <1>0. PoolType /\ ListType /\ ClientType /\ ThreadType /\ OneList /\ OneHand /\ Places
    BY DEF IInv
  <1>1. /\ pc[t] = "prepare"
        /\ prepared' = prepared \cup local[t]
        /\ raw' = raw \ local[t]
        /\ held' = [held EXCEPT ![t] = @ \cup local[t]]
        /\ local' = [local EXCEPT ![t] = {}]
        /\ pc' = [pc EXCEPT ![t] = "idle"]
        /\ cursor' = [cursor EXCEPT ![t] = NoSlab]
        /\ want' = [want EXCEPT ![t] = 1]
        /\ UNCHANGED <<pool, chain, lists, chunks, chunk, chunkSlab>>
    BY DEF Prepare, Return, Goto
  <1>. USE DEF pool, chain, lists
  <1>2. \A u \in Threads :
          /\ held'[u] = IF u = t THEN held[u] \cup local[u] ELSE held[u]
          /\ local'[u] = IF u = t THEN {} ELSE local[u]
          /\ chunk'[u] = chunk[u]
    BY <1>0, <1>1 DEF ClientType, ThreadType
  <1>3. PoolType'
    BY <1>0, <1>1 DEF PoolType
  <1>4. ListType'
    BY <1>0, <1>1 DEF ListType, ThreadType
  <1>5. ClientType'
    BY <1>0, <1>1 DEF ClientType, ThreadType
  <1>6. ThreadType'
    BY <1>0, <1>1 DEF ThreadType, SlabOrNull
  <1>7. OneList' /\ OneHand'
    BY <1>0, <1>1, <1>2 DEF OneList, OneHand
  <1>8. Stays
    BY <1>1, <1>2 DEF Stays, Avail, Out
  <1>9. AllocatedMark'
    <2>1. \A u \in Threads : held'[u] \cup local'[u] = held[u] \cup local[u]
      BY <1>2
    <2>. QED
      BY <1>1, <2>1 DEF IInv, AllocatedMark
  <1>10. LocalsOf(t)'
    <2>1. /\ pc'[t] = "idle" /\ want'[t] = 1 /\ local'[t] = {}
          /\ chunk'[t] = chunk[t] /\ chunkSlab'[t] = chunkSlab[t]
      BY <1>0, <1>1 DEF ThreadType
    <2>. QED
      BY <2>1 DEF IInv, Locals, LocalsOf
  <1>11. \A u \in Threads \ {t} : /\ pc'[u] = pc[u] /\ cursor'[u] = cursor[u]
                                  /\ want'[u] = want[u] /\ local'[u] = local[u]
                                  /\ chunk'[u] = chunk[u] /\ chunkSlab'[u] = chunkSlab[u]
    BY <1>0, <1>1 DEF ThreadType
  <1>12. Moves
    BY <1>8 DEF Moves
  <1>. QED
    BY <1>3, <1>4, <1>5, <1>6, <1>7, <1>9, <1>10, <1>11, <1>12, MoveStep

LEMMA MMFreeStep ==
  ASSUME IInv, NEW t \in Threads, MMFree(t)
  PROVE  IInv' /\ Moves
  <1>0. PoolType /\ ListType /\ ClientType /\ ThreadType /\ OneList /\ OneHand /\ Places
    BY DEF IInv
  <1>1. PICK n \in held[t] : /\ held' = [held EXCEPT ![t] = @ \ {n}]
                             /\ local' = [local EXCEPT ![t] = {n}]
                             /\ cursor' = [cursor EXCEPT ![t] = nodeSlab[n]]
    BY DEF MMFree
  <1>2. /\ pc[t] = "idle" /\ pc' = [pc EXCEPT ![t] = "push"]
        /\ UNCHANGED <<pool, chain, lists, history, chunk, chunkSlab, want>>
    BY DEF MMFree, Goto
  <1>. USE DEF pool, chain, lists, history
  <1>3. LocalsOf(t) /\ local[t] = {} /\ n \in Node
    BY <1>0, <1>2 DEF IInv, Locals, LocalsOf, ClientType
  <1>4. nodeSlab[n] = n[1] /\ n[1] \in Slabs
    <2>1. nodeSlab[n] # NoSlab
      BY <1>3 DEF IInv, AllocatedMark
    <2>. QED
      BY <1>0, <1>3, <2>1, NodeFacts DEF ListType
  <1>5. \A u \in Threads :
          /\ held'[u] = IF u = t THEN held[u] \ {n} ELSE held[u]
          /\ local'[u] = IF u = t THEN {n} ELSE local[u]
          /\ chunk'[u] = chunk[u]
    BY <1>0, <1>1, <1>2 DEF ClientType, ThreadType
  <1>6. PoolType'
    BY <1>0, <1>2 DEF PoolType
  <1>7. ListType'
    BY <1>0, <1>2 DEF ListType
  <1>8. ClientType'
    BY <1>0, <1>1, <1>2 DEF ClientType
  <1>9. ThreadType'
    BY <1>0, <1>1, <1>2, <1>3, <1>4 DEF ThreadType, SlabOrNull
  <1>10. OneList' /\ OneHand'
    BY <1>0, <1>1, <1>2, <1>5 DEF OneList, OneHand
  <1>11. Stays
    <2>1. ASSUME NEW u \in Threads
          PROVE  Out(u)' = Out(u)
      <3>1. held'[u] \cup local'[u] = held[u] \cup local[u] /\ chunk'[u] = chunk[u]
        <4>1. CASE u = t
          BY <4>1, <1>3, <1>5
        <4>2. CASE u # t
          BY <4>2, <1>5
        <4>. QED
          BY <4>1, <4>2
      <3>. QED
        BY <3>1 DEF Out
    <2>. QED
      BY <1>2, <2>1 DEF Stays, Avail
  <1>12. AllocatedMark'
    <2>1. \A u \in Threads : held'[u] \cup local'[u] = held[u] \cup local[u]
      BY <1>1, <1>3, <1>5
    <2>. QED
      BY <1>2, <2>1 DEF IInv, AllocatedMark
  <1>13. LocalsOf(t)'
    <2>1. /\ pc'[t] = "push" /\ cursor'[t] = nodeSlab[n] /\ local'[t] = {n}
          /\ chunk'[t] = chunk[t] /\ chunkSlab'[t] = chunkSlab[t] /\ want'[t] = want[t]
      BY <1>0, <1>1, <1>2 DEF ThreadType
    <2>. QED
      BY <1>3, <1>4, <2>1 DEF LocalsOf
  <1>14. \A u \in Threads \ {t} : /\ pc'[u] = pc[u] /\ cursor'[u] = cursor[u]
                                  /\ want'[u] = want[u] /\ local'[u] = local[u]
                                  /\ chunk'[u] = chunk[u] /\ chunkSlab'[u] = chunkSlab[u]
    BY <1>0, <1>1, <1>2 DEF ThreadType
  <1>15. Moves
    BY <1>11 DEF Moves
  <1>. QED
    BY <1>6, <1>7, <1>8, <1>9, <1>10, <1>12, <1>13, <1>14, <1>15, MoveStep

LEMMA MMChunkGetStep ==
  ASSUME IInv, NEW t \in Threads, MMChunkGet(t)
  PROVE  IInv' /\ Moves
  <1>0. PoolType /\ ListType /\ ClientType /\ ThreadType /\ OneList /\ OneHand /\ Places
    BY DEF IInv
  <1>1. PICK n \in chunk[t] : /\ chunk' = [chunk EXCEPT ![t] = @ \ {n}]
                              /\ held' = [held EXCEPT ![t] = @ \cup {n}]
                              /\ nodeSlab' = [nodeSlab EXCEPT ![n] = chunkSlab[t]]
    BY DEF MMChunkGet
  <1>2. /\ pc[t] = "idle"
        /\ UNCHANGED <<pool, chain, freeList, freeNodes, allocList, allocNodes, history,
                       chunkSlab, pc, want, cursor, local>>
    BY DEF MMChunkGet, threadVs
  <1>. USE DEF pool, chain, history
  <1>3. LocalsOf(t) /\ n \in Node /\ chunkSlab[t] = n[1] /\ n[1] \in Slabs
    BY <1>0, NodeFacts DEF IInv, Locals, ClientType
  <1>4. \A u \in Threads :
          /\ held'[u] = IF u = t THEN held[u] \cup {n} ELSE held[u]
          /\ local'[u] = local[u]
          /\ chunk'[u] = IF u = t THEN chunk[u] \ {n} ELSE chunk[u]
    BY <1>0, <1>1, <1>2 DEF ClientType
  <1>5. PoolType'
    BY <1>0, <1>2 DEF PoolType
  <1>6. ListType'
    BY <1>0, <1>1, <1>2, <1>3 DEF ListType, SlabOrNull
  <1>7. ClientType'
    BY <1>0, <1>1, <1>2, <1>3 DEF ClientType
  <1>8. ThreadType'
    BY <1>0, <1>2 DEF ThreadType
  <1>9. OneList' /\ OneHand'
    <2>1. OneList'
      BY <1>0, <1>2 DEF OneList
    <2>2. n \notin held[t] /\ n \notin local[t]
      BY <1>0, <1>3 DEF OneHand
    <2>3. OneHand'
      BY <1>0, <1>4, <2>2 DEF OneHand
    <2>. QED
      BY <2>1, <2>3
  <1>10. Stays
    <2>1. ASSUME NEW u \in Threads
          PROVE  Out(u)' = Out(u)
      <3>1. held'[u] \cup chunk'[u] = held[u] \cup chunk[u] /\ local'[u] = local[u]
        <4>1. CASE u = t
          BY <4>1, <1>4
        <4>2. CASE u # t
          BY <4>2, <1>4
        <4>. QED
          BY <4>1, <4>2
      <3>. QED
        BY <3>1 DEF Out
    <2>. QED
      BY <1>2, <2>1 DEF Stays, Avail
  <1>11. AllocatedMark'
    <2>1. \A m \in Node : (\E u \in Threads : m \in held'[u] \cup local'[u])
              <=> m = n \/ (\E u \in Threads : m \in held[u] \cup local[u])
      BY <1>4
    <2>2. \A m \in Node : nodeSlab'[m] = IF m = n THEN n[1] ELSE nodeSlab[m]
      BY <1>0, <1>1, <1>3 DEF ListType
    <2>. QED
      BY <1>3, <2>1, <2>2, ConstantsAssumption DEF IInv, AllocatedMark
  <1>12. LocalsOf(t)'
    <2>1. chunk[t] = {} => chunk'[t] = {}
      BY <1>4
    <2>. QED
      BY <1>2, <1>3, <2>1 DEF LocalsOf
  <1>13. \A u \in Threads \ {t} : /\ pc'[u] = pc[u] /\ cursor'[u] = cursor[u]
                                  /\ want'[u] = want[u] /\ local'[u] = local[u]
                                  /\ chunk'[u] = chunk[u] /\ chunkSlab'[u] = chunkSlab[u]
    BY <1>2, <1>4
  <1>14. Moves
    BY <1>10 DEF Moves
  <1>. QED
    BY <1>5, <1>6, <1>7, <1>8, <1>9, <1>11, <1>12, <1>13, <1>14, MoveStep

-----------------------------------------------------------------------------
\* PoolFreePush, MMDiscard and FreeChunk give nodes back to a list.
LEMMA PoolFreePushStep ==
  ASSUME IInv, NEW t \in Threads, PoolFreePush(t)
  PROVE  IInv' /\ Moves
  <1>. DEFINE s == cursor[t]
  <1>0. PoolType /\ ListType /\ ClientType /\ ThreadType /\ OneList /\ OneHand /\ Places
    BY DEF IInv
  <1>1. /\ freeList' = [freeList EXCEPT ![s] = @ \cup local[t]]
        /\ freeNodes' = [freeNodes EXCEPT ![s] = @ + 1]
        /\ nodeSlab' = [n \in Node |-> IF n \in local[t] THEN NoSlab ELSE nodeSlab[n]]
        /\ local' = [local EXCEPT ![t] = {}]
        /\ pc' = [pc EXCEPT ![t] = "idle"]
        /\ cursor' = [cursor EXCEPT ![t] = NoSlab]
        /\ want' = [want EXCEPT ![t] = 1]
        /\ pc[t] = "push"
    BY DEF PoolFreePush, Return, Goto
  <1>2. UNCHANGED <<pool, chain, allocList, allocNodes, history, clients>>
    BY DEF PoolFreePush
  <1>. USE DEF pool, chain, history, clients
  <1>3. /\ LocalsOf(t) /\ s \in Slabs
        /\ \A n \in local[t] : n \in Node /\ n[1] = s
    BY <1>0, <1>1 DEF IInv, Locals, LocalsOf, ThreadType
  <1>. HIDE DEF s
  <1>4. /\ \A x \in Slabs : freeList'[x] = IF x = s THEN freeList[x] \cup local[t]
                                                   ELSE freeList[x]
        /\ \A u \in Threads : local'[u] = IF u = t THEN {} ELSE local[u]
    BY <1>0, <1>1 DEF ListType, ThreadType
  <1>5. PoolType'
    BY <1>0, <1>2 DEF PoolType
  <1>6. ListType'
    <2>1. freeList' \in [Slabs -> SUBSET Node] /\ freeNodes' \in [Slabs -> Int]
      BY <1>0, <1>1, <1>3 DEF ListType
    <2>2. \A x \in Slabs : freeList'[x] \cup allocList'[x] \subseteq NodesOf(x)
      <3>1. local[t] \subseteq NodesOf(s)
        BY <1>3, NodeFacts
      <3>2. ASSUME NEW x \in Slabs
            PROVE  freeList[x] \subseteq NodesOf(x) /\ allocList[x] \subseteq NodesOf(x)
        BY <1>0 DEF ListType
      <3>. QED
        BY <1>2, <1>4, <3>1, <3>2
    <2>3. /\ nodeSlab' \in [Node -> SlabOrNull]
          /\ \A n \in Node : nodeSlab'[n] \in {n[1], NoSlab}
      BY <1>0, <1>1 DEF ListType, SlabOrNull
    <2>. QED
      BY <1>0, <1>2, <2>1, <2>2, <2>3 DEF ListType
  <1>7. ClientType'
    BY <1>0, <1>2 DEF ClientType
  <1>8. ThreadType'
    BY <1>0, <1>1 DEF ThreadType, SlabOrNull
  <1>9. Returns(t, local[t])
    <2>1. Avail' = Avail \cup local[t]
      <3>1. \A n : n \in Avail' <=> n \in Avail \cup local[t]
        BY <1>2, <1>3, <1>4, AvailFacts
      <3>. QED
        BY <3>1
    <2>2. \A u \in Threads : Out(u)' = IF u = t THEN Out(u) \ local[t] ELSE Out(u)
      <3>1. ASSUME NEW u \in Threads
            PROVE  Out(u)' = IF u = t THEN Out(u) \ local[t] ELSE Out(u)
        <4>1. CASE u = t
          <5>1. \A n \in local[t] : n \notin held[t] /\ n \notin chunk[t]
            BY <1>0, <1>3 DEF OneHand
          <5>. QED
            BY <4>1, <5>1, <1>2, <1>4 DEF Out
        <4>2. CASE u # t
          BY <4>2, <1>2, <1>4 DEF Out
        <4>. QED
          BY <4>1, <4>2
      <3>. QED
        BY <3>1
    <2>. QED
      BY <1>2, <2>1, <2>2 DEF Returns, Out
  <1>10. OneList' /\ OneHand'
    <2>1. \A n \in local[t] : n \notin allocList[s]
      BY <1>0, <1>3, AvailFacts DEF Places, Out
    <2>2. OneList'
      BY <2>1, <1>0, <1>2, <1>4 DEF OneList
    <2>3. OneHand'
      BY <1>0, <1>2, <1>4 DEF OneHand
    <2>. QED
      BY <2>2, <2>3
  <1>11. AllocatedMark'
    <2>1. \A n \in Node : (\E u \in Threads : n \in held'[u] \cup local'[u])
              <=> n \notin local[t] /\ (\E u \in Threads : n \in held[u] \cup local[u])
      <3>1. \A n \in local[t], u \in Threads : n \notin held[u] /\ (u # t => n \notin local[u])
        BY <1>0, <1>3 DEF Places, Out, OneHand
      <3>. QED
        BY <3>1, <1>2, <1>4
    <2>2. \A n \in Node : nodeSlab'[n] = IF n \in local[t] THEN NoSlab ELSE nodeSlab[n]
      BY <1>1
    <2>. QED
      BY <2>1, <2>2 DEF IInv, AllocatedMark
  <1>12. LocalsOf(t)'
    <2>1. /\ pc'[t] = "idle" /\ want'[t] = 1 /\ local'[t] = {}
          /\ chunk'[t] = chunk[t] /\ chunkSlab'[t] = chunkSlab[t]
      BY <1>0, <1>1, <1>2 DEF ThreadType
    <2>. QED
      BY <1>3, <2>1 DEF LocalsOf
  <1>13. \A u \in Threads \ {t} : /\ pc'[u] = pc[u] /\ cursor'[u] = cursor[u]
                                  /\ want'[u] = want[u] /\ local'[u] = local[u]
                                  /\ chunk'[u] = chunk[u] /\ chunkSlab'[u] = chunkSlab[u]
    BY <1>0, <1>1, <1>2 DEF ThreadType
  <1>14. Moves
    <2>1. CASE local[t] = {}
      <3>1. \A u \in Threads : Out(u)' = Out(u)
        BY <2>1, <1>9 DEF Returns
      <3>. QED
        BY <2>1, <3>1, <1>9 DEF Moves, Stays, Returns
    <2>2. CASE local[t] # {}
      BY <2>2, <1>0, <1>9 DEF Moves, ThreadType
    <2>. QED
      BY <2>1, <2>2
  <1>. QED
    BY <1>5, <1>6, <1>7, <1>8, <1>10, <1>11, <1>12, <1>13, <1>14, MoveStep

LEMMA MMDiscardStep ==
  ASSUME IInv, NEW t \in Threads, MMDiscard(t)
  PROVE  IInv' /\ Moves
  <1>0. PoolType /\ ListType /\ ClientType /\ ThreadType /\ OneList /\ OneHand /\ Places
    BY DEF IInv
  <1>1. PICK n \in held[t] :
          /\ held' = [held EXCEPT ![t] = @ \ {n}]
          /\ allocList' = [allocList EXCEPT ![nodeSlab[n]] = @ \cup {n}]
          /\ allocNodes' = [allocNodes EXCEPT ![nodeSlab[n]] = @ + 1]
          /\ nodeSlab' = [nodeSlab EXCEPT ![n] = NoSlab]
          /\ prepared' = prepared \ {n}
          /\ raw' = raw \ {n}
    BY DEF MMDiscard
  <1>2. UNCHANGED <<pool, chain, freeList, freeNodes, chunks, chunk, chunkSlab,
                    pc, want, cursor, local>>
    BY DEF MMDiscard, threadVs
  <1>. USE DEF pool, chain
  <1>. DEFINE s == nodeSlab[n]
  <1>3. n \in Node /\ s = n[1] /\ s \in Slabs
    <2>1. n \in Node /\ n[1] \in Slabs
      BY <1>0, NodeFacts DEF ClientType
    <2>2. s # NoSlab
      BY <2>1 DEF IInv, AllocatedMark
    <2>. QED
      BY <1>0, <2>1, <2>2 DEF ListType
  <1>. HIDE DEF s
  <1>4. /\ \A x \in Slabs : allocList'[x] = IF x = s THEN allocList[x] \cup {n}
                                                    ELSE allocList[x]
        /\ \A u \in Threads : held'[u] = IF u = t THEN held[u] \ {n} ELSE held[u]
    BY <1>0, <1>1 DEF ListType, ClientType, s
  <1>5. PoolType'
    BY <1>0, <1>2 DEF PoolType
  <1>6. ListType'
    <2>1. allocList' \in [Slabs -> SUBSET Node] /\ allocNodes' \in [Slabs -> Int]
      BY <1>0, <1>1, <1>3 DEF ListType, s
    <2>2. \A x \in Slabs : freeList'[x] \cup allocList'[x] \subseteq NodesOf(x)
      <3>1. n \in NodesOf(s)
        BY <1>3, NodeFacts
      <3>2. ASSUME NEW x \in Slabs
            PROVE  freeList[x] \subseteq NodesOf(x) /\ allocList[x] \subseteq NodesOf(x)
        BY <1>0 DEF ListType
      <3>. QED
        BY <1>2, <1>4, <3>1, <3>2
    <2>3. /\ nodeSlab' \in [Node -> SlabOrNull]
          /\ \A m \in Node : nodeSlab'[m] \in {m[1], NoSlab}
      BY <1>0, <1>1 DEF ListType, SlabOrNull
    <2>. QED
      BY <1>0, <1>1, <1>2, <2>1, <2>2, <2>3 DEF ListType
  <1>7. ClientType'
    BY <1>0, <1>1, <1>2 DEF ClientType
  <1>8. ThreadType'
    BY <1>0, <1>2 DEF ThreadType
  <1>9. n \notin local[t] /\ n \notin chunk[t]
    BY <1>0, <1>3 DEF OneHand
  <1>10. Returns(t, {n})
    <2>1. Avail' = Avail \cup {n}
      <3>1. \A m : m \in Avail' <=> m \in Avail \cup {n}
        <4>1. freeList' = freeList
          BY <1>2
        <4>2. \A m : \A x \in Slabs : m \in allocList'[x] <=> m \in allocList[x] \/ (x = s /\ m = n)
          BY <1>4
        <4>. QED
          BY <1>3, <4>1, <4>2, AvailFacts
      <3>. QED
        BY <3>1
    <2>2. ASSUME NEW u \in Threads
          PROVE  Out(u)' = IF u = t THEN Out(u) \ {n} ELSE Out(u)
      <3>1. CASE u = t
        BY <3>1, <1>2, <1>4, <1>9 DEF Out
      <3>2. CASE u # t
        BY <3>2, <1>2, <1>4 DEF Out
      <3>. QED
        BY <3>1, <3>2
    <2>. QED
      BY <1>2, <2>1, <2>2 DEF Returns, Out
  <1>11. OneList' /\ OneHand'
    <2>1. n \notin freeList[s]
      BY <1>0, <1>3, AvailFacts DEF Places, Out
    <2>2. OneList'
      BY <2>1, <1>0, <1>2, <1>4 DEF OneList
    <2>3. OneHand'
      BY <1>0, <1>2, <1>4 DEF OneHand
    <2>. QED
      BY <2>2, <2>3
  <1>12. AllocatedMark'
    <2>1. \A m \in Node : (\E u \in Threads : m \in held'[u] \cup local'[u])
              <=> m # n /\ (\E u \in Threads : m \in held[u] \cup local[u])
      <3>1. \A u \in Threads : (u # t => n \notin held[u]) /\ n \notin local[u]
        BY <1>0, <1>3, <1>9 DEF Places, Out
      <3>. QED
        BY <3>1, <1>2, <1>4
    <2>2. \A m \in Node : nodeSlab'[m] = IF m = n THEN NoSlab ELSE nodeSlab[m]
      BY <1>0, <1>1 DEF ListType
    <2>. QED
      BY <2>1, <2>2 DEF IInv, AllocatedMark
  <1>13. LocalsOf(t)'
    BY <1>2 DEF IInv, Locals, LocalsOf
  <1>14. \A u \in Threads \ {t} : /\ pc'[u] = pc[u] /\ cursor'[u] = cursor[u]
                                  /\ want'[u] = want[u] /\ local'[u] = local[u]
                                  /\ chunk'[u] = chunk[u] /\ chunkSlab'[u] = chunkSlab[u]
    BY <1>2
  <1>15. Moves
    <2>1. {n} \in SUBSET Node /\ {n} # {}
      BY <1>3
    <2>. QED
      BY <1>10, <2>1 DEF Moves
  <1>. QED
    BY <1>5, <1>6, <1>7, <1>8, <1>11, <1>12, <1>13, <1>14, <1>15, MoveStep

LEMMA FreeChunkStep ==
  ASSUME IInv, NEW t \in Threads, FreeChunk(t)
  PROVE  IInv' /\ Moves
  <1>. DEFINE s == chunkSlab[t]
  <1>0. PoolType /\ ListType /\ ClientType /\ ThreadType /\ OneList /\ OneHand /\ Places
    BY DEF IInv
  <1>1. /\ pc[t] = "idle" /\ s # NoSlab
        /\ freeList' = [freeList EXCEPT ![s] = @ \cup chunk[t]]
        /\ freeNodes' = [freeNodes EXCEPT ![s] = @ + Cardinality(chunk[t])]
        /\ chunk' = [chunk EXCEPT ![t] = {}]
        /\ chunkSlab' = [chunkSlab EXCEPT ![t] = NoSlab]
    BY DEF FreeChunk
  <1>2. UNCHANGED <<pool, chain, allocList, allocNodes, nodeSlab, history, held,
                    pc, want, cursor, local>>
    BY DEF FreeChunk, threadVs
  <1>. USE DEF pool, chain, history
  <1>3. /\ LocalsOf(t) /\ s \in Slabs
        /\ \A n \in chunk[t] : n \in Node /\ n[1] = s
        /\ Cardinality(chunk[t]) \in Nat
    <2>1. s \in Slabs
      BY <1>0, <1>1 DEF ClientType, SlabOrNull
    <2>2. \A n \in chunk[t] : n \in Node /\ n[1] = s
      BY <1>0 DEF ClientType
    <2>3. IsFiniteSet(chunk[t])
      BY <2>2, NodeFinite, FS_Subset
    <2>. QED
      BY <2>1, <2>2, <2>3, FS_CardinalityType DEF IInv, Locals
  <1>. HIDE DEF s
  <1>4. /\ \A x \in Slabs : freeList'[x] = IF x = s THEN freeList[x] \cup chunk[t]
                                                   ELSE freeList[x]
        /\ \A u \in Threads : chunk'[u] = IF u = t THEN {} ELSE chunk[u]
    BY <1>0, <1>1 DEF ListType, ClientType
  <1>5. PoolType'
    BY <1>0, <1>2 DEF PoolType
  <1>6. ListType'
    <2>1. freeList' \in [Slabs -> SUBSET Node] /\ freeNodes' \in [Slabs -> Int]
      BY <1>0, <1>1, <1>3 DEF ListType
    <2>2. \A x \in Slabs : freeList'[x] \cup allocList'[x] \subseteq NodesOf(x)
      <3>1. chunk[t] \subseteq NodesOf(s)
        BY <1>3, NodeFacts
      <3>2. ASSUME NEW x \in Slabs
            PROVE  freeList[x] \subseteq NodesOf(x) /\ allocList[x] \subseteq NodesOf(x)
        BY <1>0 DEF ListType
      <3>. QED
        BY <1>2, <1>4, <3>1, <3>2
    <2>. QED
      BY <1>0, <1>2, <2>1, <2>2 DEF ListType
  <1>7. ClientType'
    BY <1>0, <1>1, <1>2, <1>4 DEF ClientType, SlabOrNull
  <1>8. ThreadType'
    BY <1>0, <1>2 DEF ThreadType
  <1>9. Returns(t, chunk[t])
    <2>1. Avail' = Avail \cup chunk[t]
      <3>1. \A n : n \in Avail' <=> n \in Avail \cup chunk[t]
        BY <1>2, <1>3, <1>4, AvailFacts
      <3>. QED
        BY <3>1
    <2>2. ASSUME NEW u \in Threads
          PROVE  Out(u)' = IF u = t THEN Out(u) \ chunk[t] ELSE Out(u)
      <3>1. CASE u = t
        <4>1. \A n \in chunk[t] : n \notin held[t] /\ n \notin local[t]
          BY <1>0, <1>3 DEF OneHand
        <4>. QED
          BY <3>1, <4>1, <1>2, <1>4 DEF Out
      <3>2. CASE u # t
        BY <3>2, <1>2, <1>4 DEF Out
      <3>. QED
        BY <3>1, <3>2
    <2>. QED
      BY <1>2, <2>1, <2>2 DEF Returns, Out
  <1>10. OneList' /\ OneHand'
    <2>1. \A n \in chunk[t] : n \notin allocList[s]
      BY <1>0, <1>3, AvailFacts DEF Places, Out
    <2>2. OneList'
      BY <2>1, <1>0, <1>2, <1>4 DEF OneList
    <2>3. OneHand'
      BY <1>0, <1>2, <1>4 DEF OneHand
    <2>. QED
      BY <2>2, <2>3
  <1>11. AllocatedMark'
    BY <1>2 DEF IInv, AllocatedMark
  <1>12. LocalsOf(t)'
    BY <1>1, <1>2, <1>3, <1>4 DEF LocalsOf
  <1>13. \A u \in Threads \ {t} : /\ pc'[u] = pc[u] /\ cursor'[u] = cursor[u]
                                  /\ want'[u] = want[u] /\ local'[u] = local[u]
                                  /\ chunk'[u] = chunk[u] /\ chunkSlab'[u] = chunkSlab[u]
    BY <1>0, <1>1, <1>2 DEF ClientType
  <1>14. Moves
    <2>1. CASE chunk[t] = {}
      <3>1. \A u \in Threads : Out(u)' = Out(u)
        BY <2>1, <1>9 DEF Returns
      <3>. QED
        BY <2>1, <3>1, <1>9 DEF Moves, Stays, Returns
    <2>2. CASE chunk[t] # {}
      BY <2>2, <1>0, <1>9 DEF Moves, ClientType
    <2>. QED
      BY <2>1, <2>2
  <1>. QED
    BY <1>5, <1>6, <1>7, <1>8, <1>10, <1>11, <1>12, <1>13, <1>14, MoveStep

-----------------------------------------------------------------------------
LEMMA FreePoolStep ==
  ASSUME IInv, FreePool
  PROVE  IInv' /\ Moves
  <1>0. PoolType /\ ListType /\ ClientType /\ ThreadType /\ Locals
    BY DEF IInv
  <1>. USE DEF FreePool, threadVs
  <1>1. PoolType'
    BY <1>0 DEF PoolType, SlabOrNull
  <1>2. ListType'
    <2>1. prepared' \in SUBSET Node /\ raw' \in SUBSET Node
      BY <1>0 DEF ListType
    <2>. QED
      BY <2>1 DEF ListType, SlabOrNull
  <1>3. ClientType'
    BY DEF ClientType, SlabOrNull
  <1>4. ThreadType'
    BY <1>0 DEF ThreadType
  <1>5. \A u \in Threads : local[u] = {} /\ want[u] = 1
    BY <1>0 DEF Locals, LocalsOf
  <1>6. Clears
    <2>1. Avail' = {}
      <3>1. \A n : n \notin Avail'
        BY AvailFacts
      <3>. QED
        BY <3>1
    <2>2. \A u \in Threads : Out(u)' = {}
      BY <1>5 DEF Out
    <2>. QED
      BY <2>1, <2>2 DEF Clears
  <1>7. Moves
    BY <1>6 DEF Moves
  <1>8. Places'
    BY <1>7, PlacesKept DEF IInv
  <1>9. AllocatedMark' /\ OneList' /\ OneHand'
    BY <1>5 DEF AllocatedMark, OneList, OneHand
  <1>10. Locals'
    BY <1>0, <1>5 DEF Locals, LocalsOf
  <1>. QED
    BY <1>1, <1>2, <1>3, <1>4, <1>7, <1>8, <1>9, <1>10 DEF IInv

LEMMA MMPoolAllocStep ==
  ASSUME IInv, MMPoolAlloc
  PROVE  IInv' /\ Moves
  <1>. USE DEF IInv, MMPoolAlloc, chain, lists, history, clients, threadVs
  <1>1. PoolType'
    BY DEF PoolType
  <1>2. ThreadType' /\ Locals'
    BY DEF ThreadType, Locals, LocalsOf
  <1>. QED
    BY <1>1, <1>2, SearchIInv DEF Moves

-----------------------------------------------------------------------------
\* Every step keeps the inductive invariant and moves nodes as the callers
\* expect.
LEMMA NextStep ==
  ASSUME IInv, [Next]_vars
  PROVE  IInv' /\ Moves
  <1>1. CASE UNCHANGED vars
    <2>1. UNCHANGED <<pool, chain, lists, history, clients, threadVs>>
      BY <1>1 DEF vars
    <2>. USE DEF IInv, pool, chain, lists, history, clients, threadVs
    <2>2. PoolType'
      BY <2>1 DEF PoolType
    <2>3. ThreadType' /\ Locals'
      BY <2>1 DEF ThreadType, Locals, LocalsOf
    <2>. QED
      BY <2>1, <2>2, <2>3, SearchIInv DEF Moves
  <1>2. CASE Next
    <2>1. ASSUME NEW t \in Threads, Step(t) \/ Call(t)
          PROVE  IInv' /\ Moves
      <3>1. CASE Search(t)
        BY <3>1, SearchStep DEF Moves
      <3>2. CASE TakeFree(t) \/ TakeAlloc(t) \/ NewSlab(t)
        BY <3>2, TakeFreeStep, TakeAllocStep, NewSlabStep
      <3>3. CASE Prepare(t) \/ MMFree(t) \/ MMChunkGet(t)
        BY <3>3, PrepareStep, MMFreeStep, MMChunkGetStep
      <3>4. CASE PoolFreePush(t) \/ MMDiscard(t) \/ FreeChunk(t)
        BY <3>4, PoolFreePushStep, MMDiscardStep, FreeChunkStep
      <3>. QED
        BY <2>1, <3>1, <3>2, <3>3, <3>4 DEF Step, Call, Search
    <2>. QED
      BY <1>2, <2>1, FreePoolStep, MMPoolAllocStep DEF Next
  <1>. QED
    BY <1>1, <1>2

THEOREM InductiveInvariant == Spec => []IInv
  <1>1. IInv /\ [Next]_vars => IInv'
    BY NextStep
  <1>. QED
    BY <1>1, InitIInv, PTL DEF Spec

\* Lists hold nodes of their own slab and counters are integers, whatever the
\* number of threads, slabs and nodes (slab.c:219-227).
THEOREM TypeCorrect == Spec => []TypeOK
  <1>1. IInv => TypeOK
    BY DEF IInv, TypeOK
  <1>. QED
    BY <1>1, InductiveInvariant, PTL

\* No node is handed out twice and none is lost (slab.c:483-532, 544-603).
THEOREM NodesAreExclusive == Spec => []NodesExclusive
  <1>1. IInv => NodesExclusive
    <2>. SUFFICES ASSUME IInv PROVE NodesExclusive
      OBVIOUS
    <2>0. ListType /\ ClientType /\ ThreadType /\ OneList /\ OneHand /\ Places
      BY DEF IInv
    <2>1. \A t \in Threads : Out(t) \subseteq Node /\ held[t] \subseteq Node
                             /\ local[t] \subseteq Node /\ chunk[t] \subseteq Node
      BY <2>0 DEF Out, ClientType, ThreadType
    <2>2. \A s \in Slabs : freeList[s] \cap allocList[s] = {}
      BY <2>0, ListFacts DEF OneList
    <2>3. ASSUME NEW t \in Threads
          PROVE  /\ held[t] \cap local[t] = {}
                 /\ held[t] \cap chunk[t] = {}
                 /\ local[t] \cap chunk[t] = {}
                 /\ Out(t) \cap Avail = {}
      BY <2>0, <2>1 DEF OneHand, Places
    <2>4. ASSUME NEW t \in Threads, NEW u \in Threads, t # u
          PROVE  Out(t) \cap Out(u) = {}
      BY <2>0, <2>1, <2>4 DEF Places
    <2>5. ASSUME NEW s \in mapped, NEW n \in NodesOf(s)
          PROVE  n \in Avail \cup UNION {Out(t) : t \in Threads}
      <3>1. n \in Node /\ n[1] = s
        BY NodeFacts DEF IInv, PoolType
      <3>. QED
        BY <3>1, <2>0 DEF Places
    <2>. QED
      BY <2>2, <2>3, <2>4, <2>5 DEF NodesExclusive
  <1>. QED
    BY <1>1, InductiveInvariant, PTL

\* node->slab marks the allocated nodes, and no others (slab.c:327, 815, 946).
THEOREM MarksAreRight == Spec => []AllocatedMark
  <1>1. IInv => AllocatedMark
    BY DEF IInv
  <1>. QED
    BY <1>1, InductiveInvariant, PTL

-----------------------------------------------------------------------------
\* Slabs, lists, counters, locks and the growth of the pool together do what
\* NodePool says: every step of a pool takes available nodes to one caller,
\* gives a caller's nodes back, adds fresh ones or drains the pool
\* (slab.c:483-670, 1188-1256, 2090-2227).
THEOREM ImplementsNodePool == Spec => NodePoolSpec
  <1>. DEFINE out == [t \in Threads |-> Out(t)]
  <1>1. Init => Abstract!Init
    <2>. SUFFICES ASSUME Init PROVE Avail = {} /\ out = [t \in Threads |-> {}]
      BY DEF Abstract!Init
    <2>1. Avail = {}
      BY DEF Init, FreshPool, Avail
    <2>2. \A t \in Threads : Out(t) = {}
      BY DEF Init, FreshPool, Out
    <2>. QED
      BY <2>1, <2>2
  <1>2. IInv /\ [Next]_vars => [Abstract!Next]_(Abstract!vars)
    <2>. SUFFICES ASSUME IInv, [Next]_vars
                  PROVE  [Abstract!Next]_(Abstract!vars)
      OBVIOUS
    <2>0. Moves /\ Places
      BY NextStep DEF IInv
    <2>1. ASSUME NEW t \in Threads, NEW S \in SUBSET Node, S # {}, Takes(t, S)
          PROVE  Abstract!Take(t, S)
      <3>1. out' = [out EXCEPT ![t] = @ \cup S]
        BY <2>1 DEF Takes
      <3>. QED
        BY <2>1, <3>1 DEF Takes, Abstract!Take
    <2>2. ASSUME NEW t \in Threads, NEW S \in SUBSET Node, S # {}, Returns(t, S)
          PROVE  Abstract!Return(t, S)
      <3>1. out' = [out EXCEPT ![t] = @ \ S]
        BY <2>2 DEF Returns
      <3>. QED
        BY <2>2, <3>1 DEF Returns, Abstract!Return
    <2>3. ASSUME NEW S \in SUBSET Node, Adds(S)
          PROVE  Abstract!Add(S)
      <3>1. \A n \in S : n \in Node /\ n \notin Avail /\ \A t \in Threads : n \notin Out(t)
        BY <2>0, <2>3 DEF Adds, Places
      <3>2. out' = out
        BY <2>3 DEF Adds
      <3>3. S \cap Avail = {} /\ \A t \in Threads : S \cap out[t] = {}
        BY <3>1
      <3>. QED
        BY <2>3, <3>2, <3>3 DEF Adds, Abstract!Add
    <2>4. ASSUME Stays
          PROVE  UNCHANGED Abstract!vars
      <3>1. out' = out
        BY <2>4 DEF Stays
      <3>. QED
        BY <2>4, <3>1 DEF Stays, Abstract!vars
    <2>5. ASSUME Clears
          PROVE  Abstract!Drain
      <3>1. out' = [t \in Threads |-> {}]
        BY <2>5 DEF Clears
      <3>. QED
        BY <2>5, <3>1 DEF Clears, Abstract!Drain
    <2>. QED
      BY <2>0, <2>1, <2>2, <2>3, <2>4, <2>5 DEF Moves, Abstract!Next
  <1>. QED
    BY <1>1, <1>2, InductiveInvariant, PTL DEF Spec, NodePoolSpec, Abstract!Spec
-----------------------------------------------------------------------------
(* The counters of the lists *)

\* A thread on its way to a free list has one node in its hands.
PushOne == \A t \in Threads : pc[t] = "push" => Cardinality(local[t]) = 1

CountersInv == CountersSound /\ PushOne

\* The nodes of a set are finitely many.
LEMMA FiniteNodes ==
  ASSUME NEW S \in SUBSET Node
  PROVE  IsFiniteSet(S) /\ Cardinality(S) \in Nat
  BY NodeFinite, FS_Subset, FS_CardinalityType

\* _GetNode counts every node that it removes, and at most one that it leaves
\* on the list: the n-th of a chunk.
LEMMA CutsCount ==
  ASSUME NEW list \in SUBSET Node, NEW n \in Nat \ {0}, NEW c \in Cuts(list, n)
  PROVE  /\ Cardinality(c[1]) \in Nat
         /\ Cardinality(list \ c[2]) \in Nat
         /\ Cardinality(list \ c[2]) >= Cardinality(list) - Cardinality(c[1])
         /\ n = 1 => Cardinality(list \ c[2]) = Cardinality(list) - Cardinality(c[1])
         /\ Cardinality(list \ c[2]) <= Cardinality(list) - Cardinality(c[1]) + 1
  <1>1. c[1] \subseteq list /\ c[2] \subseteq list
    BY DEF Cuts
  <1>2. /\ Cardinality(list) \in Nat /\ Cardinality(c[1]) \in Nat
        /\ Cardinality(c[2]) \in Nat /\ Cardinality(list \ c[2]) \in Nat
    BY <1>1, FiniteNodes
  <1>3. Cardinality(list \ c[2]) = Cardinality(list) - Cardinality(c[2])
    <2>1. list \cap c[2] = c[2]
      BY <1>1
    <2>. QED
      BY <2>1, FiniteNodes, FS_Difference
  <1>4. /\ Cardinality(c[2]) <= Cardinality(c[1]) /\ Cardinality(c[1]) <= Cardinality(c[2]) + 1
        /\ n = 1 => Cardinality(c[2]) = Cardinality(c[1])
    <2>1. CASE (n = 1 \/ list = {}) \/ Cardinality(list) < n
      <3>1. c[1] = c[2]
        BY <2>1 DEF Cuts
      <3>. QED
        BY <1>2, <3>1
    <2>2. CASE ~(n = 1 \/ list = {}) /\ ~(Cardinality(list) < n)
      <3>1. Cardinality(c[1]) = n /\ Cardinality(c[2]) = n - 1
        BY <2>2 DEF Cuts
      <3>. QED
        BY <2>2, <3>1
    <2>. QED
      BY <2>1, <2>2
  <1>. QED
    BY <1>2, <1>3, <1>4

\* Nodes that are put on a list they are not on add up.
LEMMA AddCount ==
  ASSUME NEW list \in SUBSET Node, NEW S \in SUBSET Node, list \cap S = {}
  PROVE  Cardinality(list \cup S) = Cardinality(list) + Cardinality(S)
  <1>1. /\ IsFiniteSet(list) /\ IsFiniteSet(S)
        /\ Cardinality(list) \in Nat /\ Cardinality(S) \in Nat
    BY FiniteNodes
  <1>2. Cardinality(list \cap S) = 0
    BY FS_EmptySet
  <1>3. Cardinality(list \cup S)
          = Cardinality(list) + Cardinality(S) - Cardinality(list \cap S)
    BY <1>1, FS_Union
  <1>. QED
    BY <1>1, <1>2, <1>3

\* A slab has NodesPerSlab nodes.
LEMMA SlabCount ==
  ASSUME NEW s \in Slabs
  PROVE  Cardinality(NodesOf(s)) = NodesPerSlab
  <1>1. NodesPerSlab \in Nat /\ 1 \in Int /\ NodesPerSlab \in Int
    BY ConstantsAssumption
  <1>2. IsFiniteSet(1..NodesPerSlab) /\ Cardinality(1..NodesPerSlab) = NodesPerSlab
    BY <1>1, FS_Interval
  <1>3. IsFiniteSet({s}) /\ Cardinality({s}) = 1
    BY FS_Singleton
  <1>4. Cardinality({s} \X (1..NodesPerSlab)) = Cardinality({s}) * Cardinality(1..NodesPerSlab)
    BY <1>2, <1>3, FS_Product
  <1>. QED
    BY <1>1, <1>2, <1>3, <1>4 DEF NodesOf

-----------------------------------------------------------------------------
\* Steps that leave the lists alone, and the threads on their way to one.
LEMMA CountersStay ==
  ASSUME CountersInv,
         UNCHANGED <<freeList, freeNodes, allocList, allocNodes, chunks>>,
         \A t \in Threads : \/ pc'[t] # "push"
                            \/ pc'[t] = pc[t] /\ local'[t] = local[t]
  PROVE  CountersInv'
  BY DEF CountersInv, CountersSound, PushOne

\* What CountersSound says of one slab.
Sound(s) ==
  /\ freeNodes[s] <= Cardinality(freeList[s])
  /\ allocNodes[s] <= Cardinality(allocList[s])
  /\ freeNodes[s] + allocNodes[s] + chunks[s]
       >= Cardinality(freeList[s]) + Cardinality(allocList[s])

\* The numbers that the counters of a slab are compared with.
LEMMA SlabNumbers ==
  ASSUME ListType, NEW s \in Slabs
  PROVE  /\ freeNodes[s] \in Int /\ allocNodes[s] \in Int /\ chunks[s] \in Nat
         /\ Cardinality(freeList[s]) \in Nat /\ Cardinality(allocList[s]) \in Nat
         /\ freeList[s] \in SUBSET Node /\ allocList[s] \in SUBSET Node
  <1>1. freeList[s] \in SUBSET Node /\ allocList[s] \in SUBSET Node
    BY DEF ListType
  <1>. QED
    BY <1>1, FiniteNodes DEF ListType

\* A step that changes one slab only has to show that slab.
LEMMA SlabStep ==
  ASSUME CountersInv, ListType, ListType', NEW s \in Slabs, Sound(s)', PushOne',
         \A x \in Slabs \ {s} : /\ freeList'[x] = freeList[x] /\ freeNodes'[x] = freeNodes[x]
                                /\ allocList'[x] = allocList[x]
                                /\ allocNodes'[x] = allocNodes[x]
                                /\ chunks'[x] = chunks[x]
  PROVE  CountersInv'
  <1>1. ASSUME NEW x \in Slabs
        PROVE  Sound(x)'
    <2>1. CASE x # s
      BY <2>1 DEF Sound, CountersInv, CountersSound
    <2>. QED
      BY <2>1
  <1>. QED
    BY <1>1 DEF CountersInv, CountersSound, Sound

LEMMA PushStays ==
  ASSUME PushOne, NEW t \in Threads, NEW p, p # "push",
         ThreadType, pc' = [pc EXCEPT ![t] = p],
         \A u \in Threads \ {t} : local'[u] = local[u]
  PROVE  PushOne'
  BY DEF PushOne, ThreadType

\* _PoolAlloc from a list: the counter pays for the nodes that it gave and for
\* the one that a chunk left behind, which chunks accounts for.
LEMMA TakeFreeCount ==
  ASSUME IInv, IInv', CountersInv, NEW t \in Threads, TakeFree(t)
  PROVE  CountersInv'
  <1>s. PICK s \in Slabs : s = cursor[t]
    BY DEF TakeFree, IInv, Locals, LocalsOf
  <1>0. ListType /\ ListType' /\ ThreadType /\ PushOne
    BY DEF IInv, CountersInv
  <1>1. PICK c \in Cuts(freeList[s], want[t]) :
          /\ freeList'  = [freeList EXCEPT ![s] = @ \ c[2]]
          /\ freeNodes' = [freeNodes EXCEPT ![s] = @ - Cardinality(c[1])]
          /\ IF want[t] = 1 THEN chunks' = chunks
                            ELSE chunks' = [chunks EXCEPT ![s] = @ + 1]
    BY <1>s DEF TakeFree
  <1>2. /\ UNCHANGED <<allocList, allocNodes, local>>
        /\ pc' = [pc EXCEPT ![t] = "idle"]
    BY DEF TakeFree, Return, Goto
  <1>3. want[t] \in Nat \ {0}
    BY <1>0, WantFacts DEF ThreadType
  <1>4. /\ freeNodes[s] \in Int /\ allocNodes[s] \in Int /\ chunks[s] \in Nat
        /\ Cardinality(freeList[s]) \in Nat /\ Cardinality(allocList[s]) \in Nat
        /\ freeList[s] \in SUBSET Node
    BY <1>0, <1>2, SlabNumbers
  <1>5. /\ Cardinality(c[1]) \in Nat
        /\ Cardinality(freeList[s] \ c[2]) \in Nat
        /\ Cardinality(freeList[s] \ c[2]) >= Cardinality(freeList[s]) - Cardinality(c[1])
        /\ want[t] = 1 =>
             Cardinality(freeList[s] \ c[2]) = Cardinality(freeList[s]) - Cardinality(c[1])
        /\ Cardinality(freeList[s] \ c[2]) <= Cardinality(freeList[s]) - Cardinality(c[1]) + 1
    BY <1>1, <1>3, <1>4, CutsCount
  <1>6. /\ freeList'[s] = freeList[s] \ c[2]
        /\ freeNodes'[s] = freeNodes[s] - Cardinality(c[1])
        /\ chunks'[s] = IF want[t] = 1 THEN chunks[s] ELSE chunks[s] + 1
        /\ allocList'[s] = allocList[s] /\ allocNodes'[s] = allocNodes[s]
    BY <1>0, <1>1, <1>2 DEF ListType
  <1>7. Sound(s)
    BY <1>2 DEF CountersInv, CountersSound, Sound
  <1>8. Sound(s)'
    BY <1>4, <1>5, <1>6, <1>7 DEF Sound
  <1>9. PushOne'
    BY <1>0, <1>2, PushStays
  <1>10. \A x \in Slabs \ {s} : /\ freeList'[x] = freeList[x] /\ freeNodes'[x] = freeNodes[x]
                                /\ allocList'[x] = allocList[x]
                                /\ allocNodes'[x] = allocNodes[x]
                                /\ chunks'[x] = chunks[x]
    BY <1>0, <1>1, <1>2 DEF ListType
  <1>. QED
    BY <1>0, <1>2, <1>8, <1>9, <1>10, SlabStep

LEMMA TakeAllocCount ==
  ASSUME IInv, IInv', CountersInv, NEW t \in Threads, TakeAlloc(t)
  PROVE  CountersInv'
  <1>s. PICK s \in Slabs : s = cursor[t]
    BY DEF TakeAlloc, IInv, Locals, LocalsOf
  <1>0. ListType /\ ListType' /\ ThreadType /\ PushOne
    BY DEF IInv, CountersInv
  <1>1. PICK c \in Cuts(allocList[s], want[t]) :
          /\ allocList'  = [allocList EXCEPT ![s] = @ \ c[2]]
          /\ allocNodes' = [allocNodes EXCEPT ![s] = @ - Cardinality(c[1])]
          /\ IF want[t] = 1
             THEN /\ chunks' = chunks /\ local' = [local EXCEPT ![t] = c[2]]
                  /\ pc' = [pc EXCEPT ![t] = "prepare"]
             ELSE /\ chunks' = [chunks EXCEPT ![s] = @ + 1] /\ local' = local
                  /\ pc' = [pc EXCEPT ![t] = "idle"]
    BY <1>s DEF TakeAlloc, Return, Goto
  <1>2. UNCHANGED <<freeList, freeNodes>>
    BY DEF TakeAlloc
  <1>3. want[t] \in Nat \ {0}
    BY <1>0, WantFacts DEF ThreadType
  <1>4. /\ freeNodes[s] \in Int /\ allocNodes[s] \in Int /\ chunks[s] \in Nat
        /\ Cardinality(freeList[s]) \in Nat /\ Cardinality(allocList[s]) \in Nat
        /\ allocList[s] \in SUBSET Node
    BY <1>0, <1>2, SlabNumbers
  <1>5. /\ Cardinality(c[1]) \in Nat
        /\ Cardinality(allocList[s] \ c[2]) \in Nat
        /\ Cardinality(allocList[s] \ c[2]) >= Cardinality(allocList[s]) - Cardinality(c[1])
        /\ want[t] = 1 =>
             Cardinality(allocList[s] \ c[2]) = Cardinality(allocList[s]) - Cardinality(c[1])
        /\ Cardinality(allocList[s] \ c[2]) <= Cardinality(allocList[s]) - Cardinality(c[1]) + 1
    BY <1>1, <1>3, <1>4, CutsCount
  <1>6. /\ allocList'[s] = allocList[s] \ c[2]
        /\ allocNodes'[s] = allocNodes[s] - Cardinality(c[1])
        /\ chunks'[s] = IF want[t] = 1 THEN chunks[s] ELSE chunks[s] + 1
        /\ freeList'[s] = freeList[s] /\ freeNodes'[s] = freeNodes[s]
    BY <1>0, <1>1, <1>2 DEF ListType
  <1>7. Sound(s)
    BY <1>2 DEF CountersInv, CountersSound, Sound
  <1>8. Sound(s)'
    BY <1>4, <1>5, <1>6, <1>7 DEF Sound
  <1>9. PushOne'
    <2>1. \A u \in Threads \ {t} : local'[u] = local[u]
      BY <1>0, <1>1 DEF ThreadType
    <2>2. PICK p \in {"prepare", "idle"} : pc' = [pc EXCEPT ![t] = p]
      BY <1>1
    <2>. QED
      BY <1>0, <2>1, <2>2, PushStays
  <1>10. \A x \in Slabs \ {s} : /\ freeList'[x] = freeList[x] /\ freeNodes'[x] = freeNodes[x]
                                /\ allocList'[x] = allocList[x]
                                /\ allocNodes'[x] = allocNodes[x]
                                /\ chunks'[x] = chunks[x]
    BY <1>0, <1>1, <1>2 DEF ListType
  <1>. QED
    BY <1>0, <1>2, <1>8, <1>9, <1>10, SlabStep

\* A new slab comes with all of its nodes counted.
LEMMA NewSlabCount ==
  ASSUME IInv, IInv', CountersInv, NEW t \in Threads, NewSlab(t)
  PROVE  CountersInv'
  <1>0. ListType /\ ListType' /\ ThreadType /\ PushOne /\ Places
    BY DEF IInv, CountersInv
  <1>1. PICK s \in Slabs \ mapped :
          IF prepareCB
          THEN /\ allocList' = [allocList EXCEPT ![s] = NodesOf(s)]
               /\ allocNodes' = [allocNodes EXCEPT ![s] = NodesPerSlab]
               /\ UNCHANGED <<freeList, freeNodes>>
          ELSE /\ freeList' = [freeList EXCEPT ![s] = NodesOf(s)]
               /\ freeNodes' = [freeNodes EXCEPT ![s] = NodesPerSlab]
               /\ UNCHANGED <<allocList, allocNodes>>
    BY DEF NewSlab
  <1>2. /\ chunks' = chunks /\ local' = local
        /\ pc' = [pc EXCEPT ![t] = "publish"]
    BY DEF NewSlab, Goto, history
  <1>3. freeList[s] = {} /\ allocList[s] = {}
    BY <1>0, <1>1, ListFacts, AvailFacts DEF Places
  <1>4. /\ freeNodes[s] \in Int /\ allocNodes[s] \in Int /\ chunks[s] \in Nat
    BY <1>0, <1>1, SlabNumbers
  <1>5. /\ Cardinality(NodesOf(s)) = NodesPerSlab /\ Cardinality({}) = 0
        /\ NodesPerSlab \in Nat
    BY <1>1, SlabCount, FS_EmptySet, ConstantsAssumption
  <1>6. Sound(s)
    BY <1>1 DEF CountersInv, CountersSound, Sound
  <1>7. Sound(s)'
    <2>1. CASE prepareCB
      <3>1. /\ allocList'[s] = NodesOf(s) /\ allocNodes'[s] = NodesPerSlab
            /\ freeList'[s] = {} /\ freeNodes'[s] = freeNodes[s] /\ chunks'[s] = chunks[s]
        BY <2>1, <1>0, <1>1, <1>2, <1>3 DEF ListType
      <3>. QED
        BY <3>1, <1>3, <1>4, <1>5, <1>6 DEF Sound
    <2>2. CASE ~prepareCB
      <3>1. /\ freeList'[s] = NodesOf(s) /\ freeNodes'[s] = NodesPerSlab
            /\ allocList'[s] = {} /\ allocNodes'[s] = allocNodes[s] /\ chunks'[s] = chunks[s]
        BY <2>2, <1>0, <1>1, <1>2, <1>3 DEF ListType
      <3>. QED
        BY <3>1, <1>3, <1>4, <1>5, <1>6 DEF Sound
    <2>. QED
      BY <2>1, <2>2
  <1>8. PushOne'
    BY <1>0, <1>2, PushStays
  <1>9. \A x \in Slabs \ {s} : /\ freeList'[x] = freeList[x] /\ freeNodes'[x] = freeNodes[x]
                               /\ allocList'[x] = allocList[x]
                               /\ allocNodes'[x] = allocNodes[x]
                               /\ chunks'[x] = chunks[x]
    BY <1>0, <1>1, <1>2 DEF ListType
  <1>. QED
    BY <1>0, <1>1, <1>7, <1>8, <1>9, SlabStep

\* Nodes that come back to a list are counted as many as they are.
LEMMA PoolFreePushCount ==
  ASSUME IInv, IInv', CountersInv, NEW t \in Threads, PoolFreePush(t)
  PROVE  CountersInv'
  <1>s. PICK s \in Slabs : s = cursor[t]
    BY DEF PoolFreePush, IInv, Locals, LocalsOf
  <1>0. ListType /\ ListType' /\ ThreadType /\ PushOne /\ Places
    BY DEF IInv, CountersInv
  <1>1. /\ pc[t] = "push" /\ pc' = [pc EXCEPT ![t] = "idle"]
        /\ local' = [local EXCEPT ![t] = {}]
        /\ freeList' = [freeList EXCEPT ![s] = @ \cup local[t]]
        /\ freeNodes' = [freeNodes EXCEPT ![s] = @ + 1]
        /\ UNCHANGED <<allocList, allocNodes, chunks>>
    BY <1>s DEF PoolFreePush, Return, Goto, history
  <1>2. Cardinality(local[t]) = 1 /\ local[t] \in SUBSET Node
    BY <1>0, <1>1 DEF PushOne, ThreadType
  <1>3. freeList[s] \cap local[t] = {}
    BY <1>0, <1>2, AvailFacts DEF Places, Out
  <1>4. /\ freeNodes[s] \in Int /\ allocNodes[s] \in Int /\ chunks[s] \in Nat
        /\ Cardinality(freeList[s]) \in Nat /\ Cardinality(allocList[s]) \in Nat
        /\ freeList[s] \in SUBSET Node
    BY <1>0, <1>2, SlabNumbers
  <1>5. Cardinality(freeList[s] \cup local[t]) = Cardinality(freeList[s]) + 1
    BY <1>2, <1>3, <1>4, AddCount
  <1>6. /\ freeList'[s] = freeList[s] \cup local[t] /\ freeNodes'[s] = freeNodes[s] + 1
        /\ allocList'[s] = allocList[s] /\ allocNodes'[s] = allocNodes[s]
        /\ chunks'[s] = chunks[s]
    BY <1>0, <1>1, <1>2 DEF ListType
  <1>7. Sound(s)
    BY <1>2 DEF CountersInv, CountersSound, Sound
  <1>8. Sound(s)'
    BY <1>4, <1>5, <1>6, <1>7 DEF Sound
  <1>9. PushOne'
    BY <1>0, <1>1, PushStays DEF ThreadType
  <1>10. \A x \in Slabs \ {s} : /\ freeList'[x] = freeList[x] /\ freeNodes'[x] = freeNodes[x]
                                /\ allocList'[x] = allocList[x]
                                /\ allocNodes'[x] = allocNodes[x]
                                /\ chunks'[x] = chunks[x]
    BY <1>0, <1>1 DEF ListType
  <1>. QED
    BY <1>0, <1>2, <1>8, <1>9, <1>10, SlabStep

LEMMA MMDiscardCount ==
  ASSUME IInv, IInv', CountersInv, NEW t \in Threads, MMDiscard(t)
  PROVE  CountersInv'
  <1>0. ListType /\ ListType' /\ ClientType /\ PushOne /\ Places
    BY DEF IInv, CountersInv
  <1>1. PICK n \in held[t] :
          /\ allocList' = [allocList EXCEPT ![nodeSlab[n]] = @ \cup {n}]
          /\ allocNodes' = [allocNodes EXCEPT ![nodeSlab[n]] = @ + 1]
    BY DEF MMDiscard
  <1>2. UNCHANGED <<freeList, freeNodes, chunks, pc, local>>
    BY DEF MMDiscard, threadVs
  <1>3. n \in Node /\ n \notin Avail
    BY <1>0 DEF ClientType, Places, Out
  <1>4. PICK s \in Slabs : s = nodeSlab[n]
    <2>1. nodeSlab[n] # NoSlab
      BY <1>3 DEF IInv, AllocatedMark
    <2>. QED
      BY <1>0, <1>3, <2>1, NodeFacts DEF ListType
  <1>5. /\ freeNodes[s] \in Int /\ allocNodes[s] \in Int /\ chunks[s] \in Nat
        /\ Cardinality(freeList[s]) \in Nat /\ Cardinality(allocList[s]) \in Nat
        /\ allocList[s] \in SUBSET Node
    BY <1>0, <1>4, SlabNumbers
  <1>6. Cardinality(allocList[s] \cup {n}) = Cardinality(allocList[s]) + 1
    <2>1. {n} \in SUBSET Node /\ allocList[s] \cap {n} = {}
      BY <1>3, <1>4, AvailFacts
    <2>2. Cardinality({n}) = 1
      BY FS_Singleton
    <2>. QED
      BY <1>5, <2>1, <2>2, AddCount
  <1>7. /\ allocList'[s] = allocList[s] \cup {n} /\ allocNodes'[s] = allocNodes[s] + 1
        /\ freeList'[s] = freeList[s] /\ freeNodes'[s] = freeNodes[s]
        /\ chunks'[s] = chunks[s]
    BY <1>0, <1>1, <1>2, <1>4 DEF ListType
  <1>8. Sound(s)
    BY <1>4 DEF CountersInv, CountersSound, Sound
  <1>9. Sound(s)'
    BY <1>5, <1>6, <1>7, <1>8 DEF Sound
  <1>10. PushOne'
    BY <1>0, <1>2 DEF PushOne
  <1>11. \A x \in Slabs \ {s} : /\ freeList'[x] = freeList[x] /\ freeNodes'[x] = freeNodes[x]
                                /\ allocList'[x] = allocList[x]
                                /\ allocNodes'[x] = allocNodes[x]
                                /\ chunks'[x] = chunks[x]
    BY <1>0, <1>1, <1>2, <1>4 DEF ListType
  <1>. QED
    BY <1>0, <1>4, <1>9, <1>10, <1>11, SlabStep

LEMMA FreeChunkCount ==
  ASSUME IInv, IInv', CountersInv, NEW t \in Threads, FreeChunk(t)
  PROVE  CountersInv'
  <1>s. PICK s \in Slabs : s = chunkSlab[t]
    BY DEF FreeChunk, IInv, ClientType, SlabOrNull
  <1>0. ListType /\ ListType' /\ ClientType /\ PushOne /\ Places
    BY DEF IInv, CountersInv
  <1>1. /\ freeList' = [freeList EXCEPT ![s] = @ \cup chunk[t]]
        /\ freeNodes' = [freeNodes EXCEPT ![s] = @ + Cardinality(chunk[t])]
        /\ UNCHANGED <<allocList, allocNodes, chunks, pc, local>>
    BY <1>s DEF FreeChunk, history, threadVs
  <1>2. chunk[t] \in SUBSET Node
    BY <1>0 DEF ClientType
  <1>3. freeList[s] \cap chunk[t] = {}
    BY <1>0, <1>2, AvailFacts DEF Places, Out
  <1>4. /\ freeNodes[s] \in Int /\ allocNodes[s] \in Int /\ chunks[s] \in Nat
        /\ Cardinality(freeList[s]) \in Nat /\ Cardinality(allocList[s]) \in Nat
        /\ freeList[s] \in SUBSET Node /\ Cardinality(chunk[t]) \in Nat
    BY <1>0, <1>2, SlabNumbers, FiniteNodes
  <1>5. Cardinality(freeList[s] \cup chunk[t]) = Cardinality(freeList[s]) + Cardinality(chunk[t])
    BY <1>2, <1>3, <1>4, AddCount
  <1>6. /\ freeList'[s] = freeList[s] \cup chunk[t]
        /\ freeNodes'[s] = freeNodes[s] + Cardinality(chunk[t])
        /\ allocList'[s] = allocList[s] /\ allocNodes'[s] = allocNodes[s]
        /\ chunks'[s] = chunks[s]
    BY <1>0, <1>1, <1>2 DEF ListType
  <1>7. Sound(s)
    BY <1>2 DEF CountersInv, CountersSound, Sound
  <1>8. Sound(s)'
    BY <1>4, <1>5, <1>6, <1>7 DEF Sound
  <1>9. PushOne'
    BY <1>0, <1>1 DEF PushOne
  <1>10. \A x \in Slabs \ {s} : /\ freeList'[x] = freeList[x] /\ freeNodes'[x] = freeNodes[x]
                                /\ allocList'[x] = allocList[x]
                                /\ allocNodes'[x] = allocNodes[x]
                                /\ chunks'[x] = chunks[x]
    BY <1>0, <1>1 DEF ListType
  <1>. QED
    BY <1>0, <1>2, <1>8, <1>9, <1>10, SlabStep

\* The other steps: the lists stay, and only MMFree sets out for one.
LEMMA OtherCount ==
  ASSUME IInv, CountersInv, NEW t \in Threads,
         Search(t) \/ Prepare(t) \/ MMFree(t) \/ MMChunkGet(t)
  PROVE  CountersInv'
  <1>0. ThreadType /\ PushOne
    BY DEF IInv, CountersInv
  <1>1. CASE Search(t) \/ Prepare(t) \/ MMChunkGet(t)
    <2>1. UNCHANGED <<freeList, freeNodes, allocList, allocNodes, chunks>>
      BY <1>1 DEF Search, MMPoolGet, MMPoolGetChunk, SkipFree, SkipAlloc, Grow, Waited,
                  SysAllocFails, Publish, Ungrow, Prepare, MMChunkGet, lists, history
    <2>2. \A u \in Threads : u # t => pc'[u] = pc[u] /\ local'[u] = local[u]
      BY <1>0, <1>1
         DEF Search, MMPoolGet, MMPoolGetChunk, SkipFree, SkipAlloc, Grow, Waited,
             SysAllocFails, Publish, Ungrow, Prepare, MMChunkGet, Scan, Goto, Return,
             ThreadType, threadVs
    <2>3. \/ pc'[t] # "push"
          \/ pc'[t] = pc[t] /\ local'[t] = local[t]
      BY <1>0, <1>1
         DEF Search, MMPoolGet, MMPoolGetChunk, SkipFree, SkipAlloc, Grow, Waited,
             SysAllocFails, Publish, Ungrow, Prepare, MMChunkGet, Scan, Goto, Return,
             ThreadType, threadVs
    <2>. QED
      BY <2>1, <2>2, <2>3, CountersStay
  <1>2. CASE MMFree(t)
    <2>1. UNCHANGED <<freeList, freeNodes, allocList, allocNodes, chunks>>
      BY <1>2 DEF MMFree, lists, history
    <2>2. PICK n : local' = [local EXCEPT ![t] = {n}]
      BY <1>2 DEF MMFree
    <2>3. pc' = [pc EXCEPT ![t] = "push"]
      BY <1>2 DEF MMFree, Goto
    <2>4. PushOne'
      BY <1>0, <2>2, <2>3, FS_Singleton DEF PushOne, ThreadType
    <2>. QED
      BY <2>1, <2>4 DEF CountersInv, CountersSound
  <1>. QED
    BY <1>1, <1>2

LEMMA PoolCount ==
  ASSUME IInv, IInv', CountersInv, FreePool \/ MMPoolAlloc
  PROVE  CountersInv'
  <1>1. CASE FreePool
    <2>1. \A s \in Slabs : Sound(s)'
      BY <1>1, FS_EmptySet DEF FreePool, Sound
    <2>2. PushOne'
      BY <1>1 DEF FreePool, threadVs, CountersInv, PushOne
    <2>. QED
      BY <2>1, <2>2 DEF CountersInv, CountersSound, Sound
  <1>2. CASE MMPoolAlloc
    BY <1>2, CountersStay DEF MMPoolAlloc, lists, history, threadVs
  <1>. QED
    BY <1>1, <1>2

LEMMA CountersStep ==
  ASSUME IInv, CountersInv, [Next]_vars
  PROVE  CountersInv'
  <1>0. IInv'
    BY NextStep
  <1>1. CASE UNCHANGED vars
    BY <1>1, CountersStay DEF vars, lists, history, threadVs
  <1>2. ASSUME NEW t \in Threads, Step(t) \/ Call(t)
        PROVE  CountersInv'
    <2>1. CASE TakeFree(t) \/ TakeAlloc(t) \/ NewSlab(t)
      BY <2>1, <1>0, TakeFreeCount, TakeAllocCount, NewSlabCount
    <2>2. CASE PoolFreePush(t) \/ MMDiscard(t) \/ FreeChunk(t)
      BY <2>2, <1>0, PoolFreePushCount, MMDiscardCount, FreeChunkCount
    <2>3. CASE Search(t) \/ Prepare(t) \/ MMFree(t) \/ MMChunkGet(t)
      BY <2>3, OtherCount
    <2>. QED
      BY <1>2, <2>1, <2>2, <2>3 DEF Step, Call, Search
  <1>. QED
    BY <1>0, <1>1, <1>2, PoolCount DEF Next

\* Whatever threads and chunks do to a slab, the counter that _PoolAlloc reads
\* never promises a node that the list does not have, and forgets at most one
\* node for every chunk (slab.c:483-532, 545, 561, 659-664, 2160-2168).
THEOREM CountersAreSound == Spec => []CountersSound
  <1>1. Init => CountersInv
    BY FS_EmptySet DEF Init, FreshPool, CountersInv, CountersSound, PushOne
  <1>2. IInv /\ CountersInv /\ [Next]_vars => CountersInv'
    BY CountersStep
  <1>3. CountersInv => CountersSound
    BY DEF CountersInv
  <1>. QED
    BY <1>1, <1>2, <1>3, InductiveInvariant, PTL DEF Spec

-----------------------------------------------------------------------------
(* The callbacks *)
\* A pool that is not open has no slabs, no prepared nodes and no thread inside;
\* in a pool without prepareCB nothing is ever prepared; in one with it what
\* clients hold, chunks and free lists have and threads push was prepared or cut
\* raw from an alloc list.
Known == prepared \cup raw

Closed == ~open => /\ mapped = {}
                   /\ \A t \in Threads : pc[t] = "idle" /\ chunkSlab[t] = NoSlab

KnownOnlyIf == (~open \/ ~prepareCB) => Known = {}

PreparesOf(t) ==
  /\ pc[t] \in {"alloc_list", "prepare"} => prepareCB
  /\ prepareCB => /\ \A n \in held[t] : n \in Known
                  /\ \A n \in chunk[t] : n \in Known
                  /\ pc[t] = "push" => \A n \in local[t] : n \in Known
  /\ pc[t] = "prepare" => \A n \in local[t] : n \notin prepared

FreeKnown == prepareCB => \A s \in Slabs, n \in Node : n \in freeList[s] => n \in Known

\* A known node is free or with a thread, never on an alloc list.
KnownPlace ==
  \A n \in Node : n \in Known => \/ \E s \in Slabs : n \in freeList[s]
                                 \/ \E t \in Threads : n \in held[t] \cup local[t] \cup chunk[t]

CallbackInv == /\ Closed /\ KnownOnlyIf /\ FreeKnown /\ KnownPlace
               /\ prepared \cap raw = {}
               /\ \A t \in Threads : PreparesOf(t)

\* What a step inside an open pool leaves to the threads that do not take it.
OthersStay(t) ==
  \A u \in Threads \ {t} : /\ pc'[u] = pc[u] /\ local'[u] = local[u]
                           /\ chunk'[u] = chunk[u] /\ held'[u] = held[u]

\* A step inside an open pool shows the invariant of its own thread.
LEMMA CallbackStep ==
  ASSUME IInv, CallbackInv, NEW t \in Threads,
         open, UNCHANGED <<open, prepareCB>>,
         FreeKnown', KnownPlace', PreparesOf(t)', prepareCB,
         prepared' \cap raw' = {}, OthersStay(t),
         \A u \in Threads \ {t} :
           /\ \A n \in held[u] \cup local[u] \cup chunk[u] : n \in Known => n \in Known'
           /\ pc[u] = "prepare" => \A n \in local[u] : n \in prepared' => n \in prepared
  PROVE  CallbackInv'
  <1>1. Closed' /\ KnownOnlyIf'
    BY DEF Closed, KnownOnlyIf
  <1>2. ASSUME NEW u \in Threads
        PROVE  PreparesOf(u)'
    <2>1. CASE u # t
      BY <2>1 DEF CallbackInv, PreparesOf, OthersStay
    <2>. QED
      BY <2>1
  <1>. QED
    BY <1>1, <1>2 DEF CallbackInv

\* Most steps call nobody back.
LEMMA CallbackSame ==
  ASSUME IInv, CallbackInv, NEW t \in Threads,
         open, UNCHANGED <<open, prepareCB, prepared, raw>>, prepareCB,
         FreeKnown', KnownPlace', PreparesOf(t)', OthersStay(t)
  PROVE  CallbackInv' /\ Known' = Known
  <1>1. Known' = Known /\ prepared' \cap raw' = {}
    BY DEF Known, CallbackInv
  <1>. QED
    BY <1>1, CallbackStep

\* A thread that is inside, or has a node or a chunk, is inside an open pool.
LEMMA OpenInside ==
  ASSUME IInv, CallbackInv, NEW t \in Threads,
         pc[t] # "idle" \/ held[t] # {} \/ chunk[t] # {} \/ chunkSlab[t] # NoSlab
  PROVE  open
  <1>. SUFFICES ASSUME ~open PROVE FALSE
    OBVIOUS
  <1>1. mapped = {} /\ pc[t] = "idle" /\ chunkSlab[t] = NoSlab
    BY DEF CallbackInv, Closed
  <1>2. PICK n \in Node : n \in Out(t)
    BY <1>1 DEF IInv, ClientType, Out
  <1>. QED
    BY <1>1, <1>2 DEF IInv, Places

\* Steps and calls happen in an open pool and leave it open.
LEMMA InOpenPool ==
  ASSUME IInv, CallbackInv, NEW t \in Threads, Step(t) \/ Call(t)
  PROVE  open /\ UNCHANGED <<open, prepareCB>>
  <1>1. open
    BY OpenInside
       DEF Step, Call, TakeFree, SkipFree, TakeAlloc, SkipAlloc, Prepare, Grow, Waited,
           NewSlab, SysAllocFails, Publish, Ungrow, PoolFreePush, MMPoolGet,
           MMPoolGetChunk, MMFree, MMDiscard, MMChunkGet, FreeChunk
  <1>2. UNCHANGED pool
    BY DEF Step, Call, TakeFree, SkipFree, TakeAlloc, SkipAlloc, Prepare, Grow, Waited,
           NewSlab, SysAllocFails, Publish, Ungrow, PoolFreePush, MMPoolGet,
           MMPoolGetChunk, MMFree, MMDiscard, MMChunkGet, FreeChunk
  <1>. QED
    BY <1>1, <1>2 DEF pool

\* In a pool without prepareCB nothing is prepared, by any step.
LEMMA PlainStep ==
  ASSUME IInv, CallbackInv, NEW t \in Threads, Step(t) \/ Call(t), ~prepareCB
  PROVE  CallbackInv'
  <1>. USE DEF Step, Call, TakeFree, SkipFree, TakeAlloc, SkipAlloc, Prepare, Grow, Waited,
               NewSlab, SysAllocFails, Publish, Ungrow, PoolFreePush, MMPoolGet,
               MMPoolGetChunk, MMFree, MMDiscard, MMChunkGet, FreeChunk
  <1>1. open /\ ~prepareCB' /\ open' = open
    BY InOpenPool
  <1>2. prepared = {} /\ raw = {} /\ pc[t] \notin {"alloc_list", "prepare"}
    BY DEF CallbackInv, KnownOnlyIf, Known, PreparesOf
  <1>3. prepared' = {} /\ raw' = {}
    BY <1>2 DEF history
  <1>4. /\ pc'[t] \notin {"alloc_list", "prepare"}
        /\ \A u \in Threads \ {t} : pc'[u] = pc[u]
    BY <1>2 DEF IInv, ThreadType, Scan, Goto, Return, threadVs
  <1>. HIDE DEF Step, Call
  <1>5. Known' = {}
    BY <1>3 DEF Known
  <1>6. Closed' /\ KnownOnlyIf' /\ FreeKnown' /\ KnownPlace'
    BY <1>1, <1>5 DEF Closed, KnownOnlyIf, FreeKnown, KnownPlace
  <1>7. \A u \in Threads : pc'[u] \notin {"alloc_list", "prepare"}
    BY <1>4 DEF CallbackInv, PreparesOf
  <1>8. \A u \in Threads : PreparesOf(u)'
    BY <1>1, <1>7 DEF PreparesOf
  <1>. QED
    BY <1>3, <1>6, <1>8 DEF CallbackInv

\* In a pool with prepareCB, the search for a slab touches no node.
LEMMA PreparedSearch ==
  ASSUME IInv, CallbackInv, NEW t \in Threads, Search(t), prepareCB
  PROVE  CallbackInv'
  <1>. USE DEF Search, MMPoolGet, MMPoolGetChunk, SkipFree, SkipAlloc, Grow, Waited,
               SysAllocFails, Publish, Ungrow
  <1>1. open /\ UNCHANGED <<open, prepareCB>>
    BY InOpenPool DEF Step, Call
  <1>2. UNCHANGED <<freeList, prepared, raw, held, chunk, local>>
    BY DEF lists, history, clients
  <1>3. PreparesOf(t)
    BY DEF CallbackInv
  <1>4. pc'[t] \notin {"push", "prepare"}
    BY DEF IInv, ThreadType, Scan, Goto
  <1>5. \A u \in Threads \ {t} : pc'[u] = pc[u]
    BY DEF IInv, ThreadType, Scan, Goto
  <1>. HIDE DEF Search
  <1>6. Known' = Known
    BY <1>2 DEF Known
  <1>7. PreparesOf(t)'
    BY <1>1, <1>2, <1>3, <1>4, <1>6 DEF PreparesOf
  <1>8. FreeKnown' /\ KnownPlace'
    BY <1>1, <1>2, <1>6 DEF CallbackInv, FreeKnown, KnownPlace
  <1>9. OthersStay(t)
    BY <1>2, <1>5 DEF OthersStay
  <1>. QED
    BY <1>1, <1>2, <1>7, <1>8, <1>9, CallbackSame

\* A node from a free list was prepared or cut raw before it came there.
LEMMA PreparedTakeFree ==
  ASSUME IInv, CallbackInv, NEW t \in Threads, TakeFree(t), prepareCB
  PROVE  CallbackInv'
  <1>0. ListType /\ ClientType /\ ThreadType /\ PreparesOf(t)
    BY DEF IInv, CallbackInv
  <1>1. open /\ UNCHANGED <<open, prepareCB>>
    BY InOpenPool DEF Step
  <1>2. PICK s \in Slabs : s = cursor[t]
    BY DEF TakeFree, IInv, Locals, LocalsOf
  <1>3. want[t] # 1 => chunk[t] = {}
    BY DEF IInv, Locals, LocalsOf
  <1>4. PICK c \in Cuts(freeList[s], want[t]) :
          /\ freeList' = [freeList EXCEPT ![s] = @ \ c[2]]
          /\ IF want[t] = 1
             THEN held' = [held EXCEPT ![t] = @ \cup c[2]] /\ chunk' = chunk
             ELSE chunk' = [chunk EXCEPT ![t] = c[2]] /\ held' = held
    BY <1>2 DEF TakeFree
  <1>5. /\ UNCHANGED <<prepared, raw, local>>
        /\ pc' = [pc EXCEPT ![t] = "idle"]
    BY DEF TakeFree, Return, Goto
  <1>6. PICK mv \in SUBSET freeList[s] : mv = c[2]
    BY DEF Cuts
  <1>7. /\ \A x \in Slabs : freeList'[x] = IF x = s THEN freeList[x] \ mv ELSE freeList[x]
        /\ \A u \in Threads \ {t} : held'[u] = held[u] /\ chunk'[u] = chunk[u]
        /\ \A n : n \in held'[t] \/ n \in chunk'[t]
                    <=> n \in held[t] \/ n \in chunk[t] \/ n \in mv
        /\ \A n \in mv : n \in Node /\ n \in Known
    <2>1. \A n \in mv : n \in Node /\ n \in Known
      BY <1>0, <1>6 DEF ListType, CallbackInv, FreeKnown
    <2>2. \A x \in Slabs : freeList'[x] = IF x = s THEN freeList[x] \ mv ELSE freeList[x]
      BY <1>0, <1>4, <1>6 DEF ListType
    <2>3. CASE want[t] = 1
      BY <1>0, <1>4, <1>6, <2>1, <2>2, <2>3 DEF ClientType
    <2>4. CASE want[t] # 1
      BY <1>0, <1>3, <1>4, <1>6, <2>1, <2>2, <2>4 DEF ClientType
    <2>. QED
      BY <2>3, <2>4
  <1>8. Known' = Known
    BY <1>5 DEF Known
  <1>9. FreeKnown' /\ KnownPlace'
    BY <1>1, <1>5, <1>7, <1>8 DEF CallbackInv, FreeKnown, KnownPlace
  <1>10. PreparesOf(t)'
    BY <1>0, <1>1, <1>5, <1>7, <1>8 DEF PreparesOf, ThreadType
  <1>11. OthersStay(t)
    BY <1>0, <1>5, <1>7 DEF ThreadType, OthersStay
  <1>. QED
    BY <1>1, <1>5, <1>9, <1>10, <1>11, CallbackSame

\* A node from an alloc list has yet to be prepared: one that is taken alone
\* will be, those of a chunk are raw.
LEMMA PreparedTakeAlloc ==
  ASSUME IInv, CallbackInv, NEW t \in Threads, TakeAlloc(t), prepareCB
  PROVE  CallbackInv'
  <1>0. ListType /\ ClientType /\ ThreadType /\ PreparesOf(t) /\ OneList /\ Places
    BY DEF IInv, CallbackInv
  <1>1. open /\ UNCHANGED <<open, prepareCB>>
    BY InOpenPool DEF Step
  <1>2. /\ local[t] = {}
        /\ want[t] # 1 => chunk[t] = {}
        /\ pc[t] = "alloc_list"
    BY DEF TakeAlloc, IInv, Locals, LocalsOf
  <1>3. PICK s \in Slabs : s = cursor[t]
    BY DEF TakeAlloc, IInv, Locals, LocalsOf
  <1>4. PICK c \in Cuts(allocList[s], want[t]) :
          IF want[t] = 1
          THEN /\ local' = [local EXCEPT ![t] = c[2]]
               /\ pc' = [pc EXCEPT ![t] = "prepare"] /\ UNCHANGED <<chunk, raw>>
          ELSE /\ chunk' = [chunk EXCEPT ![t] = c[2]]
               /\ raw' = raw \cup c[2]
               /\ pc' = [pc EXCEPT ![t] = "idle"] /\ UNCHANGED local
    BY <1>3 DEF TakeAlloc, Goto, Return
  <1>5. UNCHANGED <<freeList, prepared, held>>
    BY DEF TakeAlloc
  <1>6. PICK mv \in SUBSET allocList[s] : mv = c[2]
    BY DEF Cuts
  <1>7. \A n \in mv : n \in Node /\ n \notin Known
    <2>1. ASSUME NEW n \in mv
          PROVE  n \in Node /\ n \notin Known
      <3>1. n \in Node /\ n \in Avail
        BY <1>0, AvailFacts DEF ListType
      <3>2. \A u \in Threads : n \notin held[u] \cup local[u] \cup chunk[u]
        BY <1>0, <3>1 DEF Places, Out
      <3>3. \A x \in Slabs : n \notin freeList[x]
        BY <1>0, <3>1, ListFacts DEF OneList
      <3>. QED
        BY <3>1, <3>2, <3>3 DEF CallbackInv, KnownPlace
    <2>. QED
      BY <2>1
  <1>8. CASE want[t] = 1
    <2>1. Known' = Known /\ raw' = raw
      BY <1>4, <1>5, <1>8 DEF Known
    <2>2. \A u \in Threads : /\ local'[u] = IF u = t THEN mv ELSE local[u]
                             /\ pc'[u] = IF u = t THEN "prepare" ELSE pc[u]
                             /\ chunk'[u] = chunk[u]
      BY <1>0, <1>4, <1>6, <1>8 DEF ThreadType
    <2>3. FreeKnown' /\ KnownPlace'
      BY <1>1, <1>2, <1>5, <2>1, <2>2 DEF CallbackInv, FreeKnown, KnownPlace
    <2>4. \A n \in mv : n \notin prepared
      BY <1>7 DEF Known
    <2>5. PreparesOf(t)'
      BY <1>0, <1>1, <1>5, <2>1, <2>2, <2>4 DEF PreparesOf
    <2>6. OthersStay(t)
      BY <1>5, <2>2 DEF OthersStay
    <2>. QED
      BY <1>1, <1>5, <2>1, <2>3, <2>5, <2>6, CallbackSame
  <1>9. CASE want[t] # 1
    <2>1. Known' = Known \cup mv /\ prepared' \cap raw' = {}
      BY <1>4, <1>5, <1>6, <1>7, <1>9 DEF Known, CallbackInv
    <2>2. \A u \in Threads : /\ chunk'[u] = IF u = t THEN mv ELSE chunk[u]
                             /\ pc'[u] = IF u = t THEN "idle" ELSE pc[u]
                             /\ local'[u] = local[u]
      BY <1>0, <1>4, <1>6, <1>9 DEF ThreadType, ClientType
    <2>3. FreeKnown' /\ KnownPlace'
      BY <1>1, <1>2, <1>5, <1>9, <2>1, <2>2 DEF CallbackInv, FreeKnown, KnownPlace
    <2>4. PreparesOf(t)'
      BY <1>0, <1>1, <1>5, <2>1, <2>2 DEF PreparesOf
    <2>5. OthersStay(t)
      BY <1>5, <2>2 DEF OthersStay
    <2>. QED
      BY <1>1, <1>5, <2>1, <2>3, <2>4, <2>5, CallbackStep
  <1>. QED
    BY <1>8, <1>9

LEMMA PreparedPrepare ==
  ASSUME IInv, CallbackInv, NEW t \in Threads, Prepare(t), prepareCB
  PROVE  CallbackInv'
  <1>0. ClientType /\ ThreadType /\ PreparesOf(t) /\ Places
    BY DEF IInv, CallbackInv
  <1>1. open /\ UNCHANGED <<open, prepareCB>>
    BY InOpenPool DEF Step
  <1>2. /\ prepared' = prepared \cup local[t]
        /\ raw' = raw \ local[t]
        /\ held' = [held EXCEPT ![t] = @ \cup local[t]]
        /\ local' = [local EXCEPT ![t] = {}]
        /\ pc' = [pc EXCEPT ![t] = "idle"]
        /\ UNCHANGED <<freeList, chunk>>
    BY DEF Prepare, Return, Goto, lists
  <1>3. Known' = Known \cup local[t] /\ prepared' \cap raw' = {}
    BY <1>2 DEF Known, CallbackInv
  <1>4. \A u \in Threads : /\ held'[u] = IF u = t THEN held[u] \cup local[t] ELSE held[u]
                           /\ local'[u] = IF u = t THEN {} ELSE local[u]
                           /\ pc'[u] = IF u = t THEN "idle" ELSE pc[u]
    BY <1>0, <1>2 DEF ClientType, ThreadType
  <1>5. FreeKnown'
    BY <1>1, <1>2, <1>3 DEF CallbackInv, FreeKnown
  <1>6. KnownPlace'
    BY <1>2, <1>3, <1>4 DEF CallbackInv, KnownPlace
  <1>7. PreparesOf(t)'
    BY <1>0, <1>1, <1>2, <1>3, <1>4 DEF PreparesOf
  <1>8. OthersStay(t)
    BY <1>2, <1>4 DEF OthersStay
  <1>9. ASSUME NEW u \in Threads \ {t}, NEW n \in local[u], n \in prepared'
        PROVE  n \in prepared
    <2>1. n \in Node /\ n \in Out(u)
      BY <1>0 DEF ThreadType, Out
    <2>2. n \notin local[t]
      BY <1>0, <2>1 DEF Places, Out
    <2>. QED
      BY <1>2, <1>9, <2>2
  <1>. QED
    BY <1>1, <1>3, <1>5, <1>6, <1>7, <1>8, <1>9, CallbackStep

\* A new slab's nodes go on the alloc list.
LEMMA PreparedNewSlab ==
  ASSUME IInv, CallbackInv, NEW t \in Threads, NewSlab(t), prepareCB
  PROVE  CallbackInv'
  <1>0. ThreadType /\ PreparesOf(t)
    BY DEF IInv, CallbackInv
  <1>1. open /\ UNCHANGED <<open, prepareCB>>
    BY InOpenPool DEF Step
  <1>2. /\ UNCHANGED <<freeList, prepared, raw, held, chunk, local>>
        /\ pc' = [pc EXCEPT ![t] = "publish"]
    BY DEF NewSlab, Goto, history, clients
  <1>3. Known' = Known
    BY <1>2 DEF Known
  <1>4. FreeKnown' /\ KnownPlace'
    BY <1>1, <1>2, <1>3 DEF CallbackInv, FreeKnown, KnownPlace
  <1>5. \A u \in Threads : pc'[u] = IF u = t THEN "publish" ELSE pc[u]
    BY <1>0, <1>2 DEF ThreadType
  <1>6. PreparesOf(t)' /\ OthersStay(t)
    BY <1>0, <1>1, <1>2, <1>3, <1>5 DEF PreparesOf, OthersStay
  <1>. QED
    BY <1>1, <1>2, <1>4, <1>6, CallbackSame

\* A node that goes back to a free list was with a client before.
LEMMA PreparedFree ==
  ASSUME IInv, CallbackInv, NEW t \in Threads, MMFree(t) \/ PoolFreePush(t), prepareCB
  PROVE  CallbackInv'
  <1>0. ListType /\ ClientType /\ ThreadType /\ PreparesOf(t)
    BY DEF IInv, CallbackInv
  <1>1. open /\ UNCHANGED <<open, prepareCB>>
    BY InOpenPool DEF Step, Call
  <1>2. CASE MMFree(t)
    <2>1. PICK n \in held[t] : /\ held' = [held EXCEPT ![t] = @ \ {n}]
                               /\ local' = [local EXCEPT ![t] = {n}]
      BY <1>2 DEF MMFree
    <2>2. /\ UNCHANGED <<freeList, prepared, raw, chunk>>
          /\ pc' = [pc EXCEPT ![t] = "push"] /\ pc[t] = "idle"
      BY <1>2 DEF MMFree, Goto, lists, history
    <2>3. \A u \in Threads : /\ held'[u] = IF u = t THEN held[u] \ {n} ELSE held[u]
                             /\ local'[u] = IF u = t THEN {n} ELSE local[u]
                             /\ pc'[u] = IF u = t THEN "push" ELSE pc[u]
      BY <1>0, <2>1, <2>2 DEF ClientType, ThreadType
    <2>4. local[t] = {}
      BY <2>2 DEF IInv, Locals, LocalsOf
    <2>5. Known' = Known
      BY <2>2 DEF Known
    <2>6. FreeKnown' /\ KnownPlace'
      <3>1. FreeKnown'
        BY <1>1, <2>2, <2>5 DEF CallbackInv, FreeKnown
      <3>2. ASSUME NEW m \in Node, NEW u \in Threads, m \in held[u] \cup local[u] \cup chunk[u]
            PROVE  m \in held'[u] \cup local'[u] \cup chunk'[u]
        <4>1. CASE u = t
          <5>1. held'[t] = held[t] \ {n} /\ local'[t] = {n} /\ chunk'[t] = chunk[t]
            BY <2>2, <2>3
          <5>2. m \in held[t] \/ m \in chunk[t]
            BY <2>4, <3>2, <4>1
          <5>. QED
            BY <4>1, <5>1, <5>2
        <4>2. CASE u # t
          <5>1. held'[u] = held[u] /\ local'[u] = local[u] /\ chunk'[u] = chunk[u]
            BY <2>2, <2>3, <4>2
          <5>. QED
            BY <3>2, <5>1
        <4>. QED
          BY <4>1, <4>2
      <3>3. KnownPlace'
        BY <2>2, <2>5, <3>2 DEF CallbackInv, KnownPlace
      <3>. QED
        BY <3>1, <3>3
    <2>7. PreparesOf(t)'
      <3>1. /\ pc'[t] = "push" /\ chunk'[t] = chunk[t]
            /\ held'[t] = held[t] \ {n} /\ local'[t] = {n}
        BY <2>2, <2>3
      <3>2. /\ \A m \in held[t] : m \in Known
            /\ \A m \in chunk[t] : m \in Known
        BY <1>0 DEF PreparesOf
      <3>3. /\ \A m \in held'[t] : m \in Known'
            /\ \A m \in chunk'[t] : m \in Known'
            /\ \A m \in local'[t] : m \in Known'
        BY <2>1, <2>5, <3>1, <3>2
      <3>. QED
        BY <1>1, <3>1, <3>3 DEF PreparesOf
    <2>8. OthersStay(t)
      BY <2>2, <2>3 DEF OthersStay
    <2>. QED
      BY <1>1, <2>2, <2>6, <2>7, <2>8, CallbackSame
  <1>3. CASE PoolFreePush(t)
    <2>1. PICK s \in Slabs : freeList' = [freeList EXCEPT ![s] = @ \cup local[t]]
      BY <1>3 DEF PoolFreePush, IInv, Locals, LocalsOf
    <2>2. /\ UNCHANGED <<prepared, raw, held, chunk>>
          /\ local' = [local EXCEPT ![t] = {}]
          /\ pc' = [pc EXCEPT ![t] = "idle"]
          /\ \A n \in local[t] : n \in Known
      BY <1>0, <1>3 DEF PoolFreePush, Return, Goto, history, clients, PreparesOf
    <2>3. /\ \A x \in Slabs : freeList'[x] = IF x = s THEN freeList[x] \cup local[t]
                                                     ELSE freeList[x]
          /\ \A u \in Threads : /\ local'[u] = IF u = t THEN {} ELSE local[u]
                                /\ pc'[u] = IF u = t THEN "idle" ELSE pc[u]
      BY <1>0, <2>1, <2>2 DEF ListType, ThreadType
    <2>4. Known' = Known
      BY <2>2 DEF Known
    <2>5. FreeKnown' /\ KnownPlace'
      BY <1>1, <2>2, <2>3, <2>4 DEF CallbackInv, FreeKnown, KnownPlace
    <2>6. PreparesOf(t)'
      BY <1>0, <1>1, <2>2, <2>3, <2>4 DEF PreparesOf
    <2>7. OthersStay(t)
      BY <2>2, <2>3 DEF OthersStay
    <2>. QED
      BY <1>1, <2>2, <2>5, <2>6, <2>7, CallbackSame
  <1>. QED
    BY <1>2, <1>3

\* A discarded node is not prepared any more, and nobody else has it.
LEMMA PreparedDiscard ==
  ASSUME IInv, CallbackInv, NEW t \in Threads, MMDiscard(t), prepareCB
  PROVE  CallbackInv'
  <1>0. ClientType /\ ThreadType /\ PreparesOf(t) /\ OneHand /\ Places
    BY DEF IInv, CallbackInv
  <1>1. open /\ UNCHANGED <<open, prepareCB>>
    BY InOpenPool DEF Call
  <1>2. PICK n \in held[t] : /\ held' = [held EXCEPT ![t] = @ \ {n}]
                             /\ prepared' = prepared \ {n}
                             /\ raw' = raw \ {n}
    BY DEF MMDiscard
  <1>3. UNCHANGED <<freeList, chunk, pc, local>> /\ pc[t] = "idle"
    BY DEF MMDiscard, threadVs
  <1>4. n \in Node
    BY <1>0 DEF ClientType
  <1>5. \A u \in Threads : held'[u] = IF u = t THEN held[u] \ {n} ELSE held[u]
    BY <1>0, <1>2 DEF ClientType
  <1>6. /\ \A s \in Slabs : n \notin freeList[s]
        /\ \A u \in Threads : (u # t => n \notin held[u]) /\ n \notin local[u] \cup chunk[u]
    BY <1>0, <1>4, AvailFacts DEF Places, Out, OneHand
  <1>7. Known' = Known \ {n} /\ prepared' \cap raw' = {}
    BY <1>2 DEF Known, CallbackInv
  <1>8. FreeKnown'
    BY <1>1, <1>3, <1>6, <1>7 DEF CallbackInv, FreeKnown
  <1>9. KnownPlace'
    BY <1>3, <1>5, <1>7 DEF CallbackInv, KnownPlace
  <1>10. PreparesOf(t)'
    BY <1>0, <1>1, <1>3, <1>5, <1>6, <1>7 DEF PreparesOf
  <1>11. OthersStay(t)
    BY <1>3, <1>5 DEF OthersStay
  <1>12. \A u \in Threads \ {t} :
           /\ \A m \in held[u] \cup local[u] \cup chunk[u] : m \in Known => m \in Known'
           /\ \A m \in local[u] : m \in prepared' => m \in prepared
    BY <1>2, <1>6, <1>7
  <1>. QED
    BY <1>1, <1>7, <1>8, <1>9, <1>10, <1>11, <1>12, CallbackStep

\* The nodes of a chunk are known, wherever they go.
LEMMA PreparedChunk ==
  ASSUME IInv, CallbackInv, NEW t \in Threads, MMChunkGet(t) \/ FreeChunk(t), prepareCB
  PROVE  CallbackInv'
  <1>0. ListType /\ ClientType /\ PreparesOf(t)
    BY DEF IInv, CallbackInv
  <1>1. open /\ UNCHANGED <<open, prepareCB>>
    BY InOpenPool DEF Call
  <1>2. UNCHANGED <<prepared, raw, pc, local>>
    BY DEF MMChunkGet, FreeChunk, history, threadVs
  <1>3. Known' = Known
    BY <1>2 DEF Known
  <1>4. CASE MMChunkGet(t)
    <2>1. PICK n \in chunk[t] : /\ chunk' = [chunk EXCEPT ![t] = @ \ {n}]
                                /\ held' = [held EXCEPT ![t] = @ \cup {n}]
      BY <1>4 DEF MMChunkGet
    <2>2. freeList' = freeList /\ pc[t] = "idle"
      BY <1>4 DEF MMChunkGet
    <2>3. \A u \in Threads : /\ chunk'[u] = IF u = t THEN chunk[u] \ {n} ELSE chunk[u]
                             /\ held'[u] = IF u = t THEN held[u] \cup {n} ELSE held[u]
      BY <1>0, <2>1 DEF ClientType
    <2>4. FreeKnown' /\ KnownPlace'
      BY <1>1, <1>2, <1>3, <2>2, <2>3 DEF CallbackInv, FreeKnown, KnownPlace
    <2>5. PreparesOf(t)' /\ OthersStay(t)
      BY <1>0, <1>1, <1>2, <1>3, <2>2, <2>3 DEF PreparesOf, OthersStay
    <2>. QED
      BY <1>1, <1>2, <2>4, <2>5, CallbackSame
  <1>5. CASE FreeChunk(t)
    <2>1. PICK s : /\ s = chunkSlab[t] /\ s # NoSlab
                   /\ freeList' = [freeList EXCEPT ![s] = @ \cup chunk[t]]
                   /\ chunk' = [chunk EXCEPT ![t] = {}]
                   /\ held' = held /\ pc[t] = "idle"
      BY <1>5 DEF FreeChunk
    <2>2. s \in Slabs
      BY <1>0, <2>1 DEF ClientType, SlabOrNull
    <2>3. /\ \A u \in Threads : chunk'[u] = IF u = t THEN {} ELSE chunk[u]
          /\ \A x \in Slabs : freeList'[x] = IF x = s THEN freeList[x] \cup chunk[t]
                                                     ELSE freeList[x]
      BY <1>0, <2>1, <2>2 DEF ClientType, ListType
    <2>4. FreeKnown' /\ KnownPlace'
      <3>1. \A n \in chunk[t] : n \in Known
        BY <1>0 DEF PreparesOf
      <3>2. FreeKnown'
        BY <1>1, <1>3, <2>2, <2>3, <3>1 DEF CallbackInv, FreeKnown
      <3>3. ASSUME NEW m \in Node, NEW u \in Threads, m \in held[u] \cup local[u] \cup chunk[u]
            PROVE  m \in held'[u] \cup local'[u] \cup chunk'[u] \/ m \in freeList'[s]
        BY <1>2, <2>1, <2>2, <2>3, <3>3
      <3>4. \A x \in Slabs : freeList[x] \subseteq freeList'[x]
        BY <2>3
      <3>5. KnownPlace'
        BY <1>3, <2>2, <3>3, <3>4 DEF CallbackInv, KnownPlace
      <3>. QED
        BY <3>2, <3>5
    <2>5. PreparesOf(t)' /\ OthersStay(t)
      BY <1>0, <1>1, <1>2, <1>3, <2>1, <2>3 DEF PreparesOf, OthersStay
    <2>. QED
      BY <1>1, <1>2, <2>4, <2>5, CallbackSame
  <1>. QED
    BY <1>4, <1>5

\* _FreeSlab calls back for every node that is known, on a free list, in a
\* chunk or marked by its slab.
LEMMA CallbackPool ==
  ASSUME IInv, CallbackInv, FreePool \/ MMPoolAlloc
  PROVE  CallbackInv'
  <1>1. CASE FreePool
    <2>1. prepared' = {} /\ raw' = {}
      <3>1. ASSUME NEW n \in prepared
            PROVE  n \in Destroyed
        <4>1. n \in Node /\ n \in Known
          BY DEF IInv, ListType, Known
        <4>2. CASE \E s \in Slabs : n \in freeList[s]
          <5>1. PICK s \in Slabs : n \in freeList[s]
            BY <4>2
          <5>2. s \in mapped
            BY <4>1, <5>1, ListFacts, AvailFacts DEF IInv, Places
          <5>. QED
            BY <5>1, <5>2 DEF Destroyed
        <4>3. CASE \E t \in Threads : n \in held[t] \cup local[t]
          <5>1. nodeSlab[n] # NoSlab
            BY <4>1, <4>3 DEF IInv, AllocatedMark
          <5>2. n \in {m \in Node : nodeSlab[m] # NoSlab}
            BY <4>1, <5>1
          <5>. QED
            BY <5>2 DEF Destroyed
        <4>4. CASE \E t \in Threads : n \in chunk[t]
          BY <4>4 DEF Destroyed
        <4>. QED
          BY <4>1, <4>2, <4>3, <4>4 DEF CallbackInv, KnownPlace
      <3>. QED
        BY <1>1, <3>1 DEF FreePool
    <2>2. ~open' /\ Closed'
      BY <1>1 DEF FreePool, Closed, threadVs
    <2>3. Known' = {}
      BY <2>1 DEF Known
    <2>4. FreeKnown' /\ KnownOnlyIf' /\ KnownPlace'
      BY <1>1, <2>3 DEF FreePool, FreeKnown, KnownOnlyIf, KnownPlace
    <2>5. ASSUME NEW t \in Threads
          PROVE  PreparesOf(t)'
      <3>1. pc'[t] = "idle" /\ held'[t] = {} /\ chunk'[t] = {}
        BY <1>1 DEF FreePool, threadVs
      <3>. QED
        BY <3>1 DEF PreparesOf
    <2>. QED
      BY <2>1, <2>2, <2>4, <2>5 DEF CallbackInv
  <1>2. CASE MMPoolAlloc
    <2>1. /\ mapped = {} /\ Known = {} /\ \A t \in Threads : pc[t] = "idle"
      BY <1>2 DEF MMPoolAlloc, CallbackInv, Closed, KnownOnlyIf
    <2>2. UNCHANGED <<mapped, freeList, prepared, raw, held, chunk, chunkSlab, pc, local>>
      BY <1>2 DEF MMPoolAlloc, chain, lists, history, clients, threadVs
    <2>3. \A n \in Node : n \notin Avail /\ \A t \in Threads : n \notin Out(t)
      BY <2>1 DEF IInv, Places
    <2>4. /\ \A n \in Node, s \in Slabs : n \notin freeList[s]
          /\ \A t \in Threads : held[t] = {} /\ chunk[t] = {}
      BY <2>3, AvailFacts DEF IInv, ClientType, Out
    <2>5. Known' = {} /\ prepared' \cap raw' = {}
      BY <2>1, <2>2 DEF Known
    <2>6. Closed' /\ FreeKnown' /\ KnownOnlyIf' /\ KnownPlace'
      BY <1>2, <2>1, <2>2, <2>4, <2>5
         DEF MMPoolAlloc, Closed, FreeKnown, KnownOnlyIf, KnownPlace
    <2>7. \A t \in Threads : PreparesOf(t)'
      BY <2>1, <2>2, <2>4 DEF PreparesOf
    <2>. QED
      BY <2>5, <2>6, <2>7 DEF CallbackInv
  <1>. QED
    BY <1>1, <1>2

LEMMA CallbackNext ==
  ASSUME IInv, CallbackInv, [Next]_vars
  PROVE  CallbackInv'
  <1>1. CASE UNCHANGED vars
    BY <1>1
       DEF vars, pool, chain, lists, history, clients, threadVs, CallbackInv, Closed,
           KnownOnlyIf, FreeKnown, KnownPlace, Known, PreparesOf
  <1>2. ASSUME NEW t \in Threads, Step(t) \/ Call(t)
        PROVE  CallbackInv'
    <2>1. CASE ~prepareCB
      BY <1>2, <2>1, PlainStep
    <2>2. CASE prepareCB
      <3>1. CASE Search(t)
        BY <2>2, <3>1, PreparedSearch
      <3>2. CASE TakeFree(t) \/ TakeAlloc(t) \/ NewSlab(t) \/ Prepare(t)
        BY <2>2, <3>2, PreparedTakeFree, PreparedTakeAlloc, PreparedNewSlab, PreparedPrepare
      <3>3. CASE PoolFreePush(t) \/ MMFree(t) \/ MMDiscard(t) \/ FreeChunk(t) \/ MMChunkGet(t)
        BY <2>2, <3>3, PreparedFree, PreparedDiscard, PreparedChunk
      <3>. QED
        BY <1>2, <3>1, <3>2, <3>3 DEF Step, Call, Search
    <2>. QED
      BY <2>1, <2>2
  <1>. QED
    BY <1>1, <1>2, CallbackPool DEF Next

\* Nobody has a node that is on an alloc list, so none of those is known.
LEMMA ListedUnknown ==
  ASSUME IInv, CallbackInv, NEW s \in Slabs, NEW n \in allocList[s]
  PROVE  n \notin Known
  <1>1. n \in Node /\ n \in Avail /\ n[1] = s
    BY ListFacts, AvailFacts DEF IInv
  <1>2. \A u \in Threads : n \notin held[u] \cup local[u] \cup chunk[u]
    BY <1>1 DEF IInv, Places, Out
  <1>3. \A x \in Slabs : n \notin freeList[x]
    BY <1>1, ListFacts DEF IInv, OneList
  <1>. QED
    BY <1>1, <1>2, <1>3 DEF CallbackInv, KnownPlace

\* Chunks included: the only unprepared nodes that a client, a chunk or a free
\* list of a pool with prepareCB ever has are those that a chunk took from an
\* alloc list; a node is prepared once before it is discarded, and a pool that
\* is freed leaves no prepared node behind
\* (slab.c:316-357, 568-573, 640-643, 2138-2144).
THEOREM CallbacksAreKept == Spec => []CallbackContract
  <1>1. Init => CallbackInv
    BY DEF Init, FreshPool, CallbackInv, Closed, KnownOnlyIf, FreeKnown, Known,
           KnownPlace, PreparesOf
  <1>2. IInv /\ CallbackInv /\ [Next]_vars => CallbackInv'
    BY CallbackNext
  <1>3. ASSUME IInv, CallbackInv
        PROVE  CallbackContract
    <2>1. ASSUME open, prepareCB, NEW t \in Threads
          PROVE  held[t] \cup chunk[t] \subseteq prepared \cup raw
      BY <1>3, <2>1 DEF CallbackInv, PreparesOf, Known
    <2>2. ASSUME open, prepareCB, NEW s \in Slabs
          PROVE  /\ freeList[s] \subseteq prepared \cup raw
                 /\ allocList[s] \cap (prepared \cup raw) = {}
      <3>1. freeList[s] \subseteq Node
        BY <1>3 DEF IInv, ListType
      <3>. QED
        BY <1>3, <2>2, <3>1, ListedUnknown DEF CallbackInv, FreeKnown, Known
    <2>3. ASSUME NEW t \in Threads, pc[t] = "prepare"
          PROVE  local[t] \cap prepared = {}
      BY <1>3, <2>3 DEF CallbackInv, PreparesOf
    <2>4. prepared \cap raw = {} /\ (~open => prepared = {})
      BY <1>3 DEF CallbackInv, KnownOnlyIf, Known
    <2>. QED
      BY <2>1, <2>2, <2>3, <2>4 DEF CallbackContract
  <1>. QED
    BY <1>1, <1>2, <1>3, InductiveInvariant, PTL DEF Spec

-----------------------------------------------------------------------------
(* The chain of slabs *)
\* MEM_POOL_GROWING admits one thread to the steps from the cutting of a slab to
\* the end of the growth.
Growers == {"cut", "publish", "ungrow"}

OneGrower ==
  /\ \A t \in Threads : pc[t] \in Growers => growing
  /\ \A t, u \in Threads : pc[t] \in Growers /\ pc[u] \in Growers => t = u

\* The chain leads from mapped slab to mapped slab, and the slab that is about
\* to be published leads to the head.
Links ==
  /\ slabList \in mapped \cup {NoSlab}
  /\ \A s \in Slabs : next[s] \in mapped \cup {NoSlab}
  /\ \A t \in Threads : pc[t] = "publish" => cursor[t] \in mapped /\ next[cursor[t]] = slabList

ChainInv == OneGrower /\ Links /\ SlabListIntact

\* Steps that neither grow the pool nor change the chain.
LEMMA ChainStays ==
  ASSUME IInv, ChainInv, NEW t \in Threads,
         UNCHANGED <<slabList, next, mapped, growing>>,
         pc[t] \notin Growers, pc'[t] \notin Growers,
         \A u \in Threads \ {t} : pc'[u] = pc[u] /\ cursor'[u] = cursor[u]
  PROVE  ChainInv'
  <1>1. OneGrower'
    BY DEF ChainInv, OneGrower
  <1>2. \A u \in Threads : pc'[u] = "publish" <=> u # t /\ pc[u] = "publish"
    BY DEF Growers
  <1>3. Links'
    BY <1>2 DEF ChainInv, Links
  <1>4. Reachable' = Reachable
    BY DEF Reachable, WalkStaysIn
  <1>5. SlabListIntact'
    BY <1>4 DEF ChainInv, SlabListIntact, Growers
  <1>. QED
    BY <1>1, <1>3, <1>5 DEF ChainInv

\* A new slab is nobody's next yet: a walk that cannot leave a set cannot
\* leave it without the new slab either.
LEMMA NewSlabChain ==
  ASSUME IInv, ChainInv, NEW t \in Threads, NewSlab(t)
  PROVE  ChainInv'
  <1>0. PoolType /\ ThreadType
    BY DEF IInv
  <1>1. PICK s \in Slabs \ mapped : /\ mapped' = mapped \cup {s}
                                    /\ next' = [next EXCEPT ![s] = slabList]
                                    /\ cursor' = [cursor EXCEPT ![t] = s]
    BY DEF NewSlab
  <1>2. /\ pc[t] = "cut" /\ pc' = [pc EXCEPT ![t] = "publish"]
        /\ slabList' = slabList /\ growing' = growing
    BY DEF NewSlab, Goto
  <1>3. \A u \in Threads : /\ pc'[u] = IF u = t THEN "publish" ELSE pc[u]
                           /\ cursor'[u] = IF u = t THEN s ELSE cursor[u]
    BY <1>0, <1>1, <1>2 DEF ThreadType
  <1>4. \A u \in Threads : pc[u] # "publish"
    BY <1>2 DEF ChainInv, OneGrower, Growers
  <1>5. OneGrower'
    BY <1>2, <1>3 DEF ChainInv, OneGrower, Growers
  <1>6. \A x \in Slabs : next'[x] = IF x = s THEN slabList ELSE next[x]
    BY <1>0, <1>1 DEF PoolType
  <1>7. Links'
    <2>1. \A x \in Slabs : next'[x] \in mapped' \cup {NoSlab}
      BY <1>1, <1>6 DEF ChainInv, Links
    <2>2. \A u \in Threads : pc'[u] = "publish" => u = t
      BY <1>3, <1>4
    <2>. QED
      BY <1>1, <1>2, <1>3, <1>6, <2>1, <2>2 DEF ChainInv, Links
  <1>8. SlabListIntact'
    <2>. SUFFICES ASSUME NEW x \in mapped', x # s
                  PROVE  x \in Reachable'
      BY <1>3 DEF SlabListIntact
    <2>1. x \in mapped /\ x \in Reachable
      BY <1>1, <1>4 DEF ChainInv, SlabListIntact
    <2>2. ASSUME NEW S \in SUBSET Slabs, WalkStaysIn(S)'
          PROVE  x \in S
      <3>1. WalkStaysIn(S \ {s})
        BY <2>2, <1>1, <1>2, <1>6, ConstantsAssumption DEF WalkStaysIn, ChainInv, Links
      <3>. QED
        BY <2>1, <3>1 DEF Reachable
    <2>. QED
      BY <1>0, <2>1, <2>2 DEF Reachable, PoolType
  <1>. QED
    BY <1>5, <1>7, <1>8 DEF ChainInv

\* The published slab leads to the old head.
LEMMA PublishChain ==
  ASSUME IInv, ChainInv, NEW t \in Threads, Publish(t)
  PROVE  ChainInv'
  <1>0. PoolType /\ ThreadType
    BY DEF IInv
  <1>1. /\ pc[t] = "publish" /\ pc' = [pc EXCEPT ![t] = "ungrow"]
        /\ slabList' = cursor[t]
        /\ UNCHANGED <<next, mapped, growing, cursor>>
    BY DEF Publish, Goto
  <1>2. \A u \in Threads : pc'[u] = IF u = t THEN "ungrow" ELSE pc[u]
    BY <1>0, <1>1 DEF ThreadType
  <1>3. \A u \in Threads : pc[u] = "publish" => u = t
    BY <1>1 DEF ChainInv, OneGrower, Growers
  <1>4. cursor[t] \in mapped /\ next[cursor[t]] = slabList
    BY <1>1 DEF ChainInv, Links
  <1>5. OneGrower'
    BY <1>1, <1>2 DEF ChainInv, OneGrower, Growers
  <1>6. Links'
    BY <1>1, <1>2, <1>3, <1>4 DEF ChainInv, Links
  <1>7. SlabListIntact'
    <2>. SUFFICES ASSUME NEW x \in mapped, NEW S \in SUBSET Slabs, WalkStaysIn(S)'
                  PROVE  x \in S
      BY <1>0, <1>1 DEF SlabListIntact, Reachable, PoolType
    <2>1. cursor[t] \in S
      BY <1>0, <1>1, <1>4, ConstantsAssumption DEF WalkStaysIn, PoolType
    <2>2. WalkStaysIn(S)
      BY <1>1, <1>4, <2>1 DEF WalkStaysIn
    <2>3. CASE x \in Reachable
      BY <2>2, <2>3 DEF Reachable
    <2>4. CASE x \notin Reachable
      <3>1. x = cursor[t]
        BY <1>3, <2>4 DEF ChainInv, SlabListIntact
      <3>. QED
        BY <2>1, <3>1
    <2>. QED
      BY <2>3, <2>4
  <1>. QED
    BY <1>5, <1>6, <1>7 DEF ChainInv

\* The flag is set by one grower and cleared by the same.
LEMMA FlagChain ==
  ASSUME IInv, ChainInv, NEW t \in Threads, Grow(t) \/ SysAllocFails(t) \/ Ungrow(t)
  PROVE  ChainInv'
  <1>0. ThreadType
    BY DEF IInv
  <1>1. UNCHANGED <<slabList, next, mapped>>
    BY DEF Grow, SysAllocFails, Ungrow, chain
  <1>2. /\ pc[t] # "publish" /\ pc'[t] # "publish"
        /\ \A u \in Threads \ {t} : pc'[u] = pc[u] /\ cursor'[u] = cursor[u]
    BY <1>0 DEF Grow, SysAllocFails, Ungrow, Scan, Goto, ThreadType
  <1>3. OneGrower'
    <2>1. CASE Grow(t)
      BY <2>1, <1>0, <1>2 DEF Grow, Goto, ThreadType, ChainInv, OneGrower, Growers
    <2>2. CASE SysAllocFails(t)
      BY <2>2, <1>0, <1>2 DEF SysAllocFails, Goto, chain, ThreadType, ChainInv, OneGrower, Growers
    <2>3. CASE Ungrow(t)
      <3>1. pc[t] = "ungrow" /\ pc'[t] \notin Growers
        BY <2>3, <1>0 DEF Ungrow, Scan, Goto, ThreadType, Growers
      <3>2. \A u \in Threads : pc'[u] \notin Growers
        BY <1>2, <3>1 DEF ChainInv, OneGrower, Growers
      <3>. QED
        BY <3>2 DEF OneGrower
    <2>. QED
      BY <2>1, <2>2, <2>3
  <1>4. Links'
    BY <1>1, <1>2 DEF ChainInv, Links
  <1>5. Reachable' = Reachable
    BY <1>1 DEF Reachable, WalkStaysIn
  <1>6. SlabListIntact'
    BY <1>1, <1>2, <1>5 DEF ChainInv, SlabListIntact
  <1>. QED
    BY <1>3, <1>4, <1>6 DEF ChainInv

LEMMA ChainStep ==
  ASSUME IInv, ChainInv, [Next]_vars
  PROVE  ChainInv'
  <1>0. ThreadType
    BY DEF IInv
  <1>1. CASE UNCHANGED vars
    BY <1>1 DEF vars, chain, threadVs, ChainInv, OneGrower, Links, SlabListIntact,
                Reachable, WalkStaysIn
  <1>2. ASSUME NEW t \in Threads, Step(t) \/ Call(t)
        PROVE  ChainInv'
    <2>1. CASE NewSlab(t) \/ Publish(t) \/ Grow(t) \/ SysAllocFails(t) \/ Ungrow(t)
      BY <2>1, NewSlabChain, PublishChain, FlagChain
    <2>2. CASE ~(NewSlab(t) \/ Publish(t) \/ Grow(t) \/ SysAllocFails(t) \/ Ungrow(t))
      <3>. USE <1>2, <2>2
           DEF Step, Call, TakeFree, SkipFree, TakeAlloc, SkipAlloc, Prepare, Waited,
               PoolFreePush, MMPoolGet, MMPoolGetChunk, MMFree, MMDiscard, MMChunkGet, FreeChunk
      <3>1. UNCHANGED <<slabList, next, mapped, growing>>
        BY DEF chain
      <3>2. pc[t] \notin Growers
        BY DEF Growers
      <3>3. pc'[t] \notin Growers
        BY <1>0 DEF Growers, Scan, Goto, Return, threadVs, ThreadType
      <3>4. \A u \in Threads \ {t} : pc'[u] = pc[u] /\ cursor'[u] = cursor[u]
        BY <1>0 DEF Scan, Goto, Return, threadVs, ThreadType
      <3>. QED
        BY <3>1, <3>2, <3>3, <3>4, ChainStays
    <2>. QED
      BY <2>1, <2>2
  <1>3. CASE FreePool
    <2>1. \A t \in Threads : pc'[t] = "idle"
      BY <1>3 DEF FreePool, threadVs
    <2>. QED
      BY <1>3, <2>1 DEF FreePool, ChainInv, OneGrower, Links, SlabListIntact, Growers
  <1>4. CASE MMPoolAlloc
    BY <1>4 DEF MMPoolAlloc, chain, threadVs, ChainInv, OneGrower, Links, SlabListIntact,
                Reachable, WalkStaysIn
  <1>. QED
    BY <1>1, <1>2, <1>3, <1>4 DEF Next

\* However many threads find the pool empty, one of them grows it at a time
\* (slab.c:589-603).
THEOREM OneGrowsThePool == Spec => []OneGrower
  <1>1. Init => ChainInv
    BY DEF Init, FreshPool, ChainInv, OneGrower, Links, SlabListIntact, Growers
  <1>2. IInv /\ ChainInv /\ [Next]_vars => ChainInv'
    BY ChainStep
  <1>3. ChainInv => OneGrower
    BY DEF ChainInv
  <1>. QED
    BY <1>1, <1>2, <1>3, InductiveInvariant, PTL DEF Spec

\* Every mapped slab is on the chain, or in the hands of the thread that is
\* about to put it there (slab.c:466-467, 589-598).
THEOREM ChainIsIntact == Spec => []SlabListIntact
  <1>1. Init => ChainInv
    BY DEF Init, FreshPool, ChainInv, OneGrower, Links, SlabListIntact, Growers
  <1>2. IInv /\ ChainInv /\ [Next]_vars => ChainInv'
    BY ChainStep
  <1>3. ChainInv => SlabListIntact
    BY DEF ChainInv
  <1>. QED
    BY <1>1, <1>2, <1>3, InductiveInvariant, PTL DEF Spec
=============================================================================
