------------------------------ MODULE SlabPool ------------------------------
(***************************************************************************)
(* One memory pool of src/memmgr/slab.c shared by several threads: slabs   *)
(* cut into nodes, a free list and an alloc list per slab, nodes taken     *)
(* singly or in chunks, and the pool growing by one slab at a time under   *)
(* the MEM_POOL_GROWING flag.                                              *)
(*                                                                         *)
(* A critical section under a slab's freeList.lock or allocList.lock, or   *)
(* under the pool's lock, is one step; everything the code reads outside   *)
(* of a lock (the slab list, the flag handed from section to section) is   *)
(* a step of its own.  The lists are LIFO in the code; which of its free   *)
(* nodes a slab hands out is left open here.                               *)
(***************************************************************************)
EXTENDS Integers, FiniteSets

CONSTANTS
  Threads,        \* threads that use the pool
  Slabs,          \* slabs the system can map; mmap fails when all are used
  NodesPerSlab,   \* slab->nodes
  NoSlab,         \* the NULL slab pointer
  ChunkSizes,     \* sizes asked of MMPoolGetChunk
  MaxHeld,        \* bound: nodes clients have before they ask for no more
  MaxChunks       \* bound: chunks cut from a slab before none is asked for

ASSUME ConstantsAssumption ==
  /\ NoSlab \notin Slabs
  /\ IsFiniteSet(Slabs)
  /\ NodesPerSlab \in Nat \ {0}
  /\ ChunkSizes \subseteq Nat \ {0, 1}
  /\ MaxHeld \in Nat /\ MaxChunks \in Nat

VARIABLES
  open,        \* between MMPoolAlloc and the MMFree of the pool handle
  prepareCB,   \* pool->prepareCB # NULL
  slabList,    \* pool->slabList, the head of the chain of slabs
  next,        \* slab->next
  mapped,      \* slabs that SysAlloc returned
  growing,     \* pool->flags & MEM_POOL_GROWING
  freeList,    \* slab->freeList.list, the nodes on it
  freeNodes,   \* slab->freeList.nodes, the counter beside it
  allocList,   \* slab->allocList.list: nodes that were never prepared
  allocNodes,  \* slab->allocList.nodes
  nodeSlab,    \* node->slab; NoSlab while the union holds node->next
  prepared,    \* history: nodes prepareCB was called on
  raw,         \* history: nodes a chunk took before prepareCB was called on them
  chunks,      \* history: how many chunks were cut from a slab
  held,        \* held[t]: nodes thread t got and did not give back
  chunk,       \* chunk[t]: chunk->nodeList, nodes still in t's chunk
  chunkSlab,   \* chunk[t]->slab; NoSlab when t has no chunk
  pc,          \* where thread t is
  want,        \* the nodes argument of _PoolAlloc
  cursor,      \* the local variable slab of _PoolAlloc and _NewSlab
  local        \* the node thread t works on, on no list and with no client

pool     == <<open, prepareCB>>
chain    == <<slabList, next, mapped, growing>>
lists    == <<freeList, freeNodes, allocList, allocNodes, nodeSlab>>
history  == <<prepared, raw, chunks>>
clients  == <<held, chunk, chunkSlab>>
threadVs == <<pc, want, cursor, local>>
vars     == <<pool, chain, lists, history, clients, threadVs>>

NodesOf(s) == {s} \X (1..NodesPerSlab)
Node       == Slabs \X (1..NodesPerSlab)
SlabOrNull == Slabs \cup {NoSlab}

\* The pc values from which thread t is still inside _PoolAlloc.
InPoolAlloc == {"free_list", "alloc_list", "prepare", "grow", "wait", "cut",
                "publish", "ungrow"}

\* The bounds of the model: clients ask for nodes while they have few, and for
\* one chunk at a time while few were cut from each slab.
MayAsk == Cardinality(UNION {held[t] \cup chunk[t] : t \in Threads}) < MaxHeld
MayChunk == /\ \A s \in Slabs : chunks[s] < MaxChunks
            /\ \A t \in Threads : want[t] = 1

Goto(t, l) == pc' = [pc EXCEPT ![t] = l]

\* The head of the loop over pool->slabList: visit slab s, or fall out of
\* the loop at the end of the chain.
Scan(t, s) == /\ cursor' = [cursor EXCEPT ![t] = s]
              /\ Goto(t, IF s = NoSlab THEN "grow" ELSE "free_list")

\* The call returns: its arguments and local variables are gone.
Return(t) == /\ Goto(t, "idle")
             /\ cursor' = [cursor EXCEPT ![t] = NoSlab]
             /\ want' = [want EXCEPT ![t] = 1]
-----------------------------------------------------------------------------
FreshPool(p) ==
  /\ open = TRUE
  /\ prepareCB = p
  /\ slabList = NoSlab
  /\ next = [s \in Slabs |-> NoSlab]
  /\ mapped = {}
  /\ growing = FALSE
  /\ freeList = [s \in Slabs |-> {}]
  /\ freeNodes = [s \in Slabs |-> 0]
  /\ allocList = [s \in Slabs |-> {}]
  /\ allocNodes = [s \in Slabs |-> 0]
  /\ nodeSlab = [n \in Node |-> NoSlab]
  /\ chunks = [s \in Slabs |-> 0]
  /\ held = [t \in Threads |-> {}]
  /\ chunk = [t \in Threads |-> {}]
  /\ chunkSlab = [t \in Threads |-> NoSlab]
  /\ pc = [t \in Threads |-> "idle"]
  /\ want = [t \in Threads |-> 1]
  /\ cursor = [t \in Threads |-> NoSlab]
  /\ local = [t \in Threads |-> {}]

Init == /\ \E p \in BOOLEAN : FreshPool(p)
        /\ prepared = {} /\ raw = {}
-----------------------------------------------------------------------------
\* MMPoolGet: _PoolAlloc( pool, 1, ... ).
MMPoolGet(t) ==
  /\ open
  /\ pc[t] = "idle"
  /\ MayAsk
  /\ want' = [want EXCEPT ![t] = 1]
  /\ Scan(t, slabList)
  /\ UNCHANGED <<pool, chain, lists, history, clients, local>>

\* MMPoolGetChunk: _PoolAlloc( pool, n, &chunk->slab, &chunk->type ).  The
\* chunk handle itself comes from the private chunkPool and is not modelled.
MMPoolGetChunk(t) ==
  /\ open
  /\ pc[t] = "idle"
  /\ MayAsk /\ MayChunk
  /\ chunkSlab[t] = NoSlab
  /\ \E n \in ChunkSizes : want' = [want EXCEPT ![t] = n]
  /\ Scan(t, slabList)
  /\ UNCHANGED <<pool, chain, lists, history, clients, local>>

\* Mutant: chunked mode leaves the loop before it counts the last node.
CutsUncounted(list, n) ==
  IF n = 1 \/ list = {}
  THEN {<<{x}, {x}>> : x \in list}
  ELSE {<<list \ {x}, list>> : x \in list}

\* What _GetNode does to a list of nodes when n are wanted: <<visited,
\* removed>>.  In chunked mode the loop counts n nodes off but cuts the list
\* before the n-th, so that one stays on the list although it was counted.
\* An empty list yields no node.
Cuts(list, n) ==
  IF n = 1 \/ list = {}
  THEN {<<{x}, {x}>> : x \in list}
  ELSE IF Cardinality(list) < n
       THEN {<<list, list>>}
       ELSE {c \in (SUBSET list) \X (SUBSET list) :
               /\ c[2] \subseteq c[1]
               /\ Cardinality(c[1]) = n
               /\ Cardinality(c[2]) = n - 1}

\* _PoolAlloc under freeList.lock: a free node was prepared when it was first
\* handed out, so it goes straight to the caller.
TakeFree(t) ==
  LET s == cursor[t] IN
  /\ pc[t] = "free_list"
  /\ freeNodes[s] # 0
  /\ \E c \in Cuts(freeList[s], want[t]) :
       /\ freeList'  = [freeList EXCEPT ![s] = @ \ c[2]]
       /\ freeNodes' = [freeNodes EXCEPT ![s] = @ - Cardinality(c[1])]
       /\ IF want[t] = 1
          THEN /\ held' = [held EXCEPT ![t] = @ \cup c[2]]
               /\ nodeSlab' = [n \in Node |-> IF n \in c[2] THEN s ELSE nodeSlab[n]]
               /\ UNCHANGED <<chunk, chunkSlab, chunks>>
          ELSE /\ chunk' = [chunk EXCEPT ![t] = c[2]]
               /\ chunkSlab' = [chunkSlab EXCEPT ![t] = s]
               /\ chunks' = [chunks EXCEPT ![s] = @ + 1]
               /\ UNCHANGED <<held, nodeSlab>>
  /\ Return(t)
  /\ UNCHANGED <<pool, chain, allocList, allocNodes, prepared, raw, local>>

\* Nothing on the free list: the alloc list is tried only in pools that
\* prepare their nodes.
SkipFree(t) ==
  LET s == cursor[t] IN
  /\ pc[t] = "free_list"
  /\ freeNodes[s] = 0 \/ freeList[s] = {}
  /\ IF prepareCB THEN Goto(t, "alloc_list") /\ UNCHANGED cursor
                  ELSE Scan(t, next[s])
  /\ UNCHANGED <<pool, chain, lists, history, clients, want, local>>

\* _PoolAlloc under allocList.lock.  A single node is prepared before it is
\* returned; a chunk is not, and is typed NODE_TYPE_FREE all the same, so that
\* nobody prepares its nodes later.
TakeAlloc(t) ==
  LET s == cursor[t] IN
  /\ pc[t] = "alloc_list"
  /\ allocNodes[s] # 0
  /\ \E c \in Cuts(allocList[s], want[t]) :
       /\ allocList'  = [allocList EXCEPT ![s] = @ \ c[2]]
       /\ allocNodes' = [allocNodes EXCEPT ![s] = @ - Cardinality(c[1])]
       /\ IF want[t] = 1
          THEN /\ local' = [local EXCEPT ![t] = c[2]]
               /\ nodeSlab' = [n \in Node |-> IF n \in c[2] THEN s ELSE nodeSlab[n]]
               /\ Goto(t, "prepare")
               /\ UNCHANGED <<chunk, chunkSlab, chunks, raw, want, cursor>>
          ELSE /\ chunk' = [chunk EXCEPT ![t] = c[2]]
               /\ raw' = raw \cup c[2]
               /\ chunkSlab' = [chunkSlab EXCEPT ![t] = s]
               /\ chunks' = [chunks EXCEPT ![s] = @ + 1]
               /\ Return(t)
               /\ UNCHANGED <<local, nodeSlab>>
  /\ UNCHANGED <<pool, chain, freeList, freeNodes, prepared, held>>

SkipAlloc(t) ==
  LET s == cursor[t] IN
  /\ pc[t] = "alloc_list"
  /\ allocNodes[s] = 0 \/ allocList[s] = {}
  /\ Scan(t, next[s])
  /\ UNCHANGED <<pool, chain, lists, history, clients, want, local>>

\* Mutant: _PoolAlloc never calls prepareCB.
PrepareNot(t) ==
  /\ pc[t] = "prepare"
  /\ held' = [held EXCEPT ![t] = @ \cup local[t]]
  /\ local' = [local EXCEPT ![t] = {}]
  /\ Return(t)
  /\ UNCHANGED <<pool, chain, lists, history, chunk, chunkSlab>>

\* pool->prepareCB( node->data ), after allocList.lock is released.
Prepare(t) ==
  /\ pc[t] = "prepare"
  /\ prepared' = prepared \cup local[t]
  /\ raw' = raw \ local[t]
  /\ held' = [held EXCEPT ![t] = @ \cup local[t]]
  /\ local' = [local EXCEPT ![t] = {}]
  /\ Return(t)
  /\ UNCHANGED <<pool, chain, lists, chunks, chunk, chunkSlab>>

\* Mutant: the flag is set but never looked at.
GrowTogether(t) ==
  /\ pc[t] = "grow"
  /\ growing' = TRUE
  /\ Goto(t, "cut")
  /\ UNCHANGED <<pool, slabList, next, mapped, lists, history, clients, want,
                 cursor, local>>

\* No slab had a node: under pool->lock, wait for the thread that grows the
\* pool or become that thread.
Grow(t) ==
  /\ pc[t] = "grow"
  /\ growing' = TRUE
  /\ Goto(t, IF growing THEN "wait" ELSE "cut")
  /\ UNCHANGED <<pool, slabList, next, mapped, lists, history, clients, want,
                 cursor, local>>

\* The poll of the flag succeeds: start over with the new slab.
Waited(t) ==
  /\ pc[t] = "wait"
  /\ ~growing
  /\ Scan(t, slabList)
  /\ UNCHANGED <<pool, chain, lists, history, clients, want, local>>

\* _NewSlab, up to slab->next = pool->slabList: all nodes of the new slab are
\* on its alloc list if they have to be prepared, else on its free list.
NewSlab(t) ==
  /\ pc[t] = "cut"
  /\ \E s \in Slabs \ mapped :
       /\ mapped' = mapped \cup {s}
       /\ next' = [next EXCEPT ![s] = slabList]
       /\ cursor' = [cursor EXCEPT ![t] = s]
       /\ IF prepareCB
          THEN /\ allocList' = [allocList EXCEPT ![s] = NodesOf(s)]
               /\ allocNodes' = [allocNodes EXCEPT ![s] = NodesPerSlab]
               /\ UNCHANGED <<freeList, freeNodes>>
          ELSE /\ freeList' = [freeList EXCEPT ![s] = NodesOf(s)]
               /\ freeNodes' = [freeNodes EXCEPT ![s] = NodesPerSlab]
               /\ UNCHANGED <<allocList, allocNodes>>
  /\ Goto(t, "publish")
  /\ UNCHANGED <<pool, slabList, growing, nodeSlab, history, clients, want, local>>

\* SysAlloc returned NULL: _NewSlab returns -1, which _PoolAlloc ignores.
SysAllocFails(t) ==
  /\ pc[t] = "cut"
  /\ Goto(t, "ungrow")
  /\ UNCHANGED <<pool, chain, lists, history, clients, want, cursor, local>>

\* pool->slabList = slab, without a lock: GROWING keeps other growers out.
Publish(t) ==
  /\ pc[t] = "publish"
  /\ slabList' = cursor[t]
  /\ Goto(t, "ungrow")
  /\ UNCHANGED <<pool, next, mapped, growing, lists, history, clients, want,
                 cursor, local>>

\* Mutant: the flag stays set.
UngrowNot(t) ==
  /\ pc[t] = "ungrow"
  /\ Scan(t, slabList)
  /\ UNCHANGED <<pool, chain, lists, history, clients, want, local>>

\* Under pool->lock: clear the flag, then rescan from the head of the list.
Ungrow(t) ==
  /\ pc[t] = "ungrow"
  /\ growing' = FALSE
  /\ Scan(t, slabList)
  /\ UNCHANGED <<pool, slabList, next, mapped, lists, history, clients, want, local>>
-----------------------------------------------------------------------------
\* MMFree of a node up to the freeCB call in _PoolFree; node->slab is read
\* here and passed on.
MMFree(t) ==
  /\ pc[t] = "idle"
  /\ \E n \in held[t] :
       /\ held' = [held EXCEPT ![t] = @ \ {n}]
       /\ local' = [local EXCEPT ![t] = {n}]
       /\ cursor' = [cursor EXCEPT ![t] = nodeSlab[n]]
  /\ Goto(t, "push")
  /\ UNCHANGED <<pool, chain, lists, history, chunk, chunkSlab, want>>

\* Mutant: a client that frees a node twice gets away with it.
PoolFreePushTwice(t) ==
  LET s == cursor[t] IN
  /\ pc[t] = "push"
  /\ freeList' = [freeList EXCEPT ![s] = @ \cup local[t]]
  /\ freeNodes' = [freeNodes EXCEPT ![s] = @ + 1]
  /\ nodeSlab' = [n \in Node |-> IF n \in local[t] THEN NoSlab ELSE nodeSlab[n]]
  /\ Return(t)
  /\ UNCHANGED <<pool, chain, allocList, allocNodes, history, clients, local>>

\* _PoolFree under freeList.lock: storing node->next overwrites node->slab.
PoolFreePush(t) ==
  LET s == cursor[t] IN
  /\ pc[t] = "push"
  /\ freeList' = [freeList EXCEPT ![s] = @ \cup local[t]]
  /\ freeNodes' = [freeNodes EXCEPT ![s] = @ + 1]
  /\ nodeSlab' = [n \in Node |-> IF n \in local[t] THEN NoSlab ELSE nodeSlab[n]]
  /\ local' = [local EXCEPT ![t] = {}]
  /\ Return(t)
  /\ UNCHANGED <<pool, chain, allocList, allocNodes, history, clients>>

\* MMDiscard: the node goes back to the alloc list without its freeCB, and
\* will be prepared again when it is next taken from there.
MMDiscard(t) ==
  /\ pc[t] = "idle"
  /\ \E n \in held[t] :
       LET s == nodeSlab[n] IN
       /\ held' = [held EXCEPT ![t] = @ \ {n}]
       /\ allocList' = [allocList EXCEPT ![s] = @ \cup {n}]
       /\ allocNodes' = [allocNodes EXCEPT ![s] = @ + 1]
       /\ nodeSlab' = [nodeSlab EXCEPT ![n] = NoSlab]
       /\ prepared' = prepared \ {n}
       /\ raw' = raw \ {n}
  /\ UNCHANGED <<pool, chain, freeList, freeNodes, chunks, chunk, chunkSlab, threadVs>>

\* Mutant: the node is not given its slab.
MMChunkGetUnmarked(t) ==
  /\ pc[t] = "idle"
  /\ \E n \in chunk[t] :
       /\ chunk' = [chunk EXCEPT ![t] = @ \ {n}]
       /\ held' = [held EXCEPT ![t] = @ \cup {n}]
  /\ UNCHANGED <<pool, chain, lists, history, chunkSlab, threadVs>>

\* MMChunkGet: the node leaves the chunk and learns its slab.  c->type is
\* never NODE_TYPE_ALLOC, so prepareCB is not called.
MMChunkGet(t) ==
  /\ pc[t] = "idle"
  /\ \E n \in chunk[t] :
       /\ chunk' = [chunk EXCEPT ![t] = @ \ {n}]
       /\ held' = [held EXCEPT ![t] = @ \cup {n}]
       /\ nodeSlab' = [nodeSlab EXCEPT ![n] = chunkSlab[t]]
  /\ UNCHANGED <<pool, chain, freeList, freeNodes, allocList, allocNodes, history,
                 chunkSlab, threadVs>>

\* Mutant: the chunk keeps the nodes it gives back.
FreeChunkKeep(t) ==
  LET s == chunkSlab[t] IN
  /\ pc[t] = "idle"
  /\ s # NoSlab
  /\ freeList' = [freeList EXCEPT ![s] = @ \cup chunk[t]]
  /\ freeNodes' = [freeNodes EXCEPT ![s] = @ + Cardinality(chunk[t])]
  /\ UNCHANGED <<pool, chain, allocList, allocNodes, nodeSlab, history, clients, threadVs>>

\* FreeChunkCB, from MMFree of the chunk handle: what is left of the chunk
\* goes back to the free list of its slab.
FreeChunk(t) ==
  LET s == chunkSlab[t] IN
  /\ pc[t] = "idle"
  /\ s # NoSlab
  /\ freeList' = [freeList EXCEPT ![s] = @ \cup chunk[t]]
  /\ freeNodes' = [freeNodes EXCEPT ![s] = @ + Cardinality(chunk[t])]
  /\ chunk' = [chunk EXCEPT ![t] = {}]
  /\ chunkSlab' = [chunkSlab EXCEPT ![t] = NoSlab]
  /\ UNCHANGED <<pool, chain, allocList, allocNodes, nodeSlab, history, held, threadVs>>
-----------------------------------------------------------------------------
\* _FreeSlab calls freeCB on the nodes that carry their slab, then destroyCB
\* on those and on the free list; FreePrivateCB has put the nodes of
\* outstanding chunks back on the free list before.
Destroyed == (UNION {freeList[s] : s \in mapped})
             \cup {n \in Node : nodeSlab[n] # NoSlab}
             \cup (UNION {chunk[t] : t \in Threads})

\* MMFree of the pool handle: FreePrivateCB clears the pool and unmaps every
\* slab.  No thread may be inside the pool then.
FreePool ==
  /\ open
  /\ \A t \in Threads : pc[t] = "idle"
  /\ open' = FALSE
  /\ slabList' = NoSlab
  /\ next' = [s \in Slabs |-> NoSlab]
  /\ mapped' = {}
  /\ freeList' = [s \in Slabs |-> {}]
  /\ freeNodes' = [s \in Slabs |-> 0]
  /\ allocList' = [s \in Slabs |-> {}]
  /\ allocNodes' = [s \in Slabs |-> 0]
  /\ nodeSlab' = [n \in Node |-> NoSlab]
  /\ prepared' = prepared \ Destroyed
  /\ raw' = {}
  /\ chunks' = [s \in Slabs |-> 0]
  /\ held' = [t \in Threads |-> {}]
  /\ chunk' = [t \in Threads |-> {}]
  /\ chunkSlab' = [t \in Threads |-> NoSlab]
  /\ UNCHANGED <<prepareCB, growing, threadVs>>

\* MMPoolAlloc reuses the handle: _PoolInit on the private pool's node.
MMPoolAlloc ==
  /\ ~open
  /\ open' = TRUE
  /\ prepareCB' \in BOOLEAN
  /\ UNCHANGED <<chain, lists, history, clients, threadVs>>
-----------------------------------------------------------------------------
Step(t) == \/ TakeFree(t) \/ SkipFree(t) \/ TakeAlloc(t) \/ SkipAlloc(t)
           \/ Prepare(t) \/ Grow(t) \/ Waited(t)
           \/ NewSlab(t) \/ SysAllocFails(t) \/ Publish(t) \/ Ungrow(t)
           \/ PoolFreePush(t)

Call(t) == \/ MMPoolGet(t) \/ MMPoolGetChunk(t) \/ MMFree(t) \/ MMDiscard(t)
           \/ MMChunkGet(t) \/ FreeChunk(t)

Next == \/ \E t \in Threads : Step(t) \/ Call(t)
        \/ FreePool
        \/ MMPoolAlloc

\* A thread that is inside the pool keeps running.  Callers owe nothing: they
\* may never call, and never give a node back.  Memory shortage is transient.
Fairness == \A t \in Threads : WF_vars(Step(t)) /\ SF_vars(NewSlab(t))

Spec == Init /\ [][Next]_vars

FairSpec == Spec /\ Fairness
-----------------------------------------------------------------------------
(* Properties *)

PoolType ==
  /\ open \in BOOLEAN /\ prepareCB \in BOOLEAN /\ growing \in BOOLEAN
  /\ slabList \in SlabOrNull
  /\ next \in [Slabs -> SlabOrNull]
  /\ mapped \in SUBSET Slabs

ListType ==
  /\ freeList \in [Slabs -> SUBSET Node] /\ allocList \in [Slabs -> SUBSET Node]
  /\ \A s \in Slabs : freeList[s] \cup allocList[s] \subseteq NodesOf(s)
  /\ freeNodes \in [Slabs -> Int] /\ allocNodes \in [Slabs -> Int]
  /\ nodeSlab \in [Node -> SlabOrNull]
  /\ \A n \in Node : nodeSlab[n] \in {n[1], NoSlab}
  /\ prepared \in SUBSET Node /\ raw \in SUBSET Node
  /\ chunks \in [Slabs -> Nat]

ClientType ==
  /\ held \in [Threads -> SUBSET Node]
  /\ chunk \in [Threads -> SUBSET Node]
  /\ chunkSlab \in [Threads -> SlabOrNull]
  /\ \A t \in Threads : \A n \in chunk[t] : n[1] = chunkSlab[t]

ThreadType ==
  /\ pc \in [Threads -> InPoolAlloc \cup {"idle", "push"}]
  /\ want \in [Threads -> {1} \cup ChunkSizes]
  /\ cursor \in [Threads -> SlabOrNull]
  /\ local \in [Threads -> SUBSET Node]

\* Every list holds nodes of its own slab, a chunk holds nodes of the slab it
\* was cut from, and a node carries no slab but its own, as
\* _AssertNodeInSlab demands at every step (slab.c:219-227).
TypeOK == PoolType /\ ListType /\ ClientType /\ ThreadType

\* The nodes that left the lists through thread t.
Out(t) == held[t] \cup local[t] \cup chunk[t]

Avail == UNION {freeList[s] \cup allocList[s] : s \in Slabs}

\* A node is on one list of its slab, or with one thread (with its client, in
\* its chunk or in its hands), and a node of mapped memory is never lost:
\* what slabs, free lists, chunks and concurrent frees do to the same lists
\* must not hand a node out twice or drop it.
NodesExclusive ==
  /\ \A s \in Slabs : freeList[s] \cap allocList[s] = {}
  /\ \A t \in Threads : /\ held[t] \cap local[t] = {}
                        /\ held[t] \cap chunk[t] = {}
                        /\ local[t] \cap chunk[t] = {}
                        /\ Out(t) \cap Avail = {}
  /\ \A t, u \in Threads : t # u => Out(t) \cap Out(u) = {}
  /\ \A s \in mapped : NodesOf(s) \subseteq Avail \cup UNION {Out(t) : t \in Threads}

\* node->slab names a slab exactly while the node is with a client or on its
\* way to or from one: _FreeSlab, _DumpPool and _ValidatePool tell allocated
\* nodes from listed ones by that union member alone (slab.c:327, 815, 946).
AllocatedMark ==
  \A n \in Node : nodeSlab[n] # NoSlab <=> \E t \in Threads : n \in held[t] \cup local[t]

\* A counter beside a list never claims more nodes than the list has, and
\* falls short by at most one node for every chunk ever cut from the slab:
\* _PoolAlloc reads the counter, not the list, to decide whether the slab has
\* a node (slab.c:545, 561), so nodes it does not count are out of reach.
CountersSound ==
  \A s \in Slabs :
    /\ freeNodes[s] <= Cardinality(freeList[s])
    /\ allocNodes[s] <= Cardinality(allocList[s])
    /\ freeNodes[s] + allocNodes[s] + chunks[s]
         >= Cardinality(freeList[s]) + Cardinality(allocList[s])

\* In a pool with callbacks every node a client holds was prepared, whether
\* it came from a free list, an alloc list or a chunk: "PoolEntryCB functions
\* can be set so that the consumer is notified ... when a memory pool is
\* prepared, freed, or destroyed" (memmgr.html:170-172).  The code does not
\* keep this: a chunk cut from an alloc list is typed NODE_TYPE_FREE
\* (slab.c:568), so that MMChunkGet does not prepare its nodes (2138-2144).
HeldPrepared == open /\ prepareCB => \A t \in Threads : held[t] \subseteq prepared

\* What the code does keep: nodes that came out of such a chunk are the only
\* ones that a client, a chunk or a free list has unprepared (and so the only
\* ones that freeCB and destroyCB see unprepared), until one of them is
\* discarded and prepared at last; no node is prepared twice in one life; and
\* once the pool is freed no prepared node is left that was not destroyed
\* (slab.c:316-357, 569-573, 640-643, 2138-2144).
CallbackContract ==
  /\ open /\ prepareCB =>
       /\ \A t \in Threads : held[t] \cup chunk[t] \subseteq prepared \cup raw
       /\ \A s \in Slabs : freeList[s] \subseteq prepared \cup raw
       /\ \A s \in Slabs : allocList[s] \cap (prepared \cup raw) = {}
       /\ \A t \in Threads : pc[t] = "prepare" => local[t] \cap prepared = {}
  /\ prepared \cap raw = {}
  /\ ~open => prepared = {}

\* A set of slabs that a walk of the chain from pool->slabList cannot leave.
WalkStaysIn(S) == /\ slabList \in S \cup {NoSlab}
                  /\ \A s \in S : next[s] \in S \cup {NoSlab}

\* The slabs _PoolAlloc visits on that walk.
Reachable == {s \in Slabs : \A S \in SUBSET Slabs : WalkStaysIn(S) => s \in S}

\* No slab is lost: _NewSlab links a slab in without holding a lock, so the
\* GROWING flag alone keeps two growers from overwriting each other's link
\* (slab.c:466-467, 589-598).
SlabListIntact ==
  \A s \in mapped : \/ s \in Reachable
                   \/ \E t \in Threads : pc[t] = "publish" /\ cursor[t] = s

\* The callers see a NodePool: what the lists and their locks do amounts to
\* moving sets of available nodes to one caller and back.
Abstract == INSTANCE NodePool WITH avail <- Avail, out <- [t \in Threads |-> Out(t)]
NodePoolSpec == Abstract!Spec

Allocating(t) == pc[t] \in InPoolAlloc

\* Nodes a walk of the chain would find, or memory to cut a slab from.
CanServe == \/ mapped # Slabs
            \/ \E s \in Reachable : freeNodes[s] # 0 /\ freeList[s] # {}
            \/ \E s \in Reachable : prepareCB /\ allocNodes[s] # 0 /\ allocList[s] # {}

\* "_PoolAlloc always succeeds" (slab.c:1737): while the pool can serve, a
\* thread does not search, wait for a grower and search again for ever unless
\* other threads keep completing calls (they may take what it was after).
AllocProgress ==
  \A t \in Threads : <>[](Allocating(t) /\ CanServe)
                     => []<><<\E u \in Threads : pc[u] # "idle" /\ pc'[u] = "idle">>_vars
=============================================================================
