----------------------------- MODULE ThreadLife -----------------------------
(***************************************************************************)
(* Thread structures and thread groups of src/memmgr/thread.c: starting a  *)
(* thread in a group or in the static group, its end, the references to    *)
(* its structure and the cache of structures, the destruction of a group,  *)
(* and XplThreadShutdown.                                                  *)
(*                                                                         *)
(* A step is a section under XplThreads.lock, under the lock of a group or *)
(* of the cache, an atomic operation, or a call of the memory manager; pc  *)
(* says where a system thread is.  How a started thread gets a worker is   *)
(* the subject of ThreadPool; here any free worker begins it.              *)
(***************************************************************************)
EXTENDS Integers, Sequences, FiniteSets, Lists

CONSTANTS
  Workers,      \* the system threads that run thread functions
  Main,         \* the thread that uses the library: it owns groups and handles
  Groups,       \* the memory of _XplThreadGroup structures
  Threads,      \* the memory of _XplThread structures
  Null,         \* the null pointer
  Wrapped,      \* does Main wrap itself, as XplMain does, as long as it uses the library?
  MaxStarts     \* bound: threads started

ASSUME ThreadLifeAssumption ==
  /\ Main \notin Workers /\ Null \notin Groups \cup Threads \cup Workers \cup {Main}
  /\ IsFiniteSet(Groups) /\ IsFiniteSet(Threads)
  /\ Wrapped \in BOOLEAN /\ MaxStarts \in Nat

Actors == Workers \cup {Main}

VARIABLES
  shutdown,                   \* XplThreads.state = TLibStateShutdown
  groups, staticGroup,        \* XplThreads.groups, XplThreads.staticGroup
  threadList, threads,        \* XplThreads.threadList, XplThreads.threads
  cache,                      \* XplThreads.freeThreads.list
  allocated,                  \* groups whose memory is allocated
  running, stackSize,         \* of a group: running; has it a stack size of its own?
  members, count,             \* of a group: thread.list, threads
  group, consumers, id,       \* of a thread
  stage,                      \* what becomes of a thread structure
  runs,                       \* the thread whose function a system thread runs
  own, handles,               \* the group that Main created, the threads it has handles of
  pc, gr, th,                 \* where a system thread is; its local variables
  starts                      \* how many threads were started

global == <<groups, staticGroup, threadList, threads>>
inGroup == <<running, stackSize, members, count>>
inThread == <<group, consumers, id>>
local  == <<pc, gr, th>>
main   == <<own, handles>>
vars   == <<shutdown, global, cache, allocated, inGroup, inThread, stage, runs,
            main, local, starts>>

Init ==
  /\ shutdown = FALSE
  /\ groups = {} /\ staticGroup = Null
  /\ threadList = <<>> /\ threads = 0
  /\ cache = {}
  /\ allocated = {}
  /\ running = [g \in Groups |-> FALSE] /\ stackSize = [g \in Groups |-> FALSE]
  /\ members = [g \in Groups |-> {}] /\ count = [g \in Groups |-> 0]
  /\ group = [t \in Threads |-> Null]
  /\ consumers = [t \in Threads |-> 0]
  /\ id = [t \in Threads |-> Null]
  /\ stage = [t \in Threads |-> "none"]
  /\ runs = [a \in Actors |-> Null]
  /\ own = Null /\ handles = {}
  /\ pc = [a \in Actors |-> IF a = Main /\ Wrapped THEN "unwrapped" ELSE "idle"]
  /\ gr = [a \in Actors |-> Null] /\ th = [a \in Actors |-> Null]
  /\ starts = 0

Go(a, from, to) == pc[a] = from /\ pc' = [pc EXCEPT ![a] = to]

Set(f, x, v) == [f EXCEPT ![x] = v]

\* A system thread that runs nothing of the library at the moment.
Free(a) == pc[a] = "idle" /\ ~shutdown

\* Who may use the static group: anyone, if Main never wraps itself; else as
\* long as Main is wrapped, and the members of the group.
MayUseStatic(a) == \/ ~Wrapped
                   \/ runs[Main] # Null /\ stage[runs[Main]] = "running"
                   \/ runs[a] # Null /\ group[runs[a]] = staticGroup
-----------------------------------------------------------------------------
(* XplThreadStart and XplThreadWrap *)

\* __XplThreadGroupCreate: the memory is zeroed.
Create(g, stack) ==
  /\ g \notin allocated
  /\ allocated' = allocated \cup {g}
  /\ groups' = groups \cup {g}
  /\ running' = Set(running, g, TRUE)
  /\ stackSize' = Set(stackSize, g, stack)
  /\ members' = Set(members, g, {})
  /\ count' = Set(count, g, 0)

\* XplThreadGroupCreate, perhaps followed by XplThreadGroupStackSize.
GroupCreate ==
  /\ Free(Main)
  /\ own = Null
  /\ \E g \in Groups, stack \in BOOLEAN : Create(g, stack) /\ own' = g
  /\ UNCHANGED <<shutdown, staticGroup, threadList, threads, cache, inThread,
                 stage, runs, handles, local, starts>>

\* The group of the caller's choice: Main's own, or that of the running thread.
StartInGroup(a) ==
  /\ Free(a)
  /\ starts < MaxStarts
  /\ \E g \in Groups : /\ g = IF a = Main THEN own
                              ELSE IF runs[a] # Null THEN group[runs[a]] ELSE Null
                      /\ gr' = Set(gr, a, g)
  /\ Go(a, "idle", "take")
  /\ starts' = starts + 1
  /\ UNCHANGED <<shutdown, global, cache, allocated, inGroup, inThread, stage,
                 runs, main, th>>

\* Under XplThreads.lock the static group is found or created; it is used
\* when the lock is released.
UseStatic(a) ==
  IF staticGroup # Null
  THEN gr' = Set(gr, a, staticGroup) /\ UNCHANGED <<allocated, groups, staticGroup, inGroup>>
  ELSE \E g \in Groups : /\ Create(g, FALSE)
                         /\ staticGroup' = g
                         /\ gr' = Set(gr, a, g)

StartStatic(a) ==
  /\ Free(a)
  /\ starts < MaxStarts
  /\ a # Main => runs[a] # Null
  /\ MayUseStatic(a)
  /\ UseStatic(a)
  /\ Go(a, "idle", "take")
  /\ starts' = starts + 1
  /\ UNCHANGED <<shutdown, threadList, threads, cache, inThread, stage, runs, main, th>>

WrapStatic ==
  /\ UseStatic(Main)
  /\ Go(Main, "unwrapped", "wrap")
  /\ UNCHANGED <<shutdown, threadList, threads, cache, inThread, stage, runs,
                 main, th, starts>>

\* Under freeThreads.lock a structure is taken from the cache; else a zeroed
\* one is allocated.  Its id is that of its last worker.  The caller may ask
\* for a handle, which is a second reference.
Take(a) ==
  /\ Go(a, "take", "link")
  /\ \E t \in Threads, kept \in {0, 1} :
       /\ IF cache # {} THEN t \in cache ELSE stage[t] = "none"
       /\ kept = 1 => a = Main
       /\ cache' = cache \ {t}
       /\ consumers' = Set(consumers, t, 1 + kept)
       /\ handles' = IF kept = 1 THEN handles \cup {t} ELSE handles
       /\ group' = Set(group, t, gr[a])
       /\ stage' = Set(stage, t, "starting")
       /\ th' = Set(th, a, t)
  /\ UNCHANGED <<shutdown, global, allocated, inGroup, id, runs, own, gr, starts>>

\* XplThreadWrap allocates a structure.
TakeWrap ==
  /\ Go(Main, "wrap", "link")
  /\ \E t \in Threads :
       /\ stage[t] = "none"
       /\ consumers' = Set(consumers, t, 1)
       /\ group' = Set(group, t, gr[Main])
       /\ stage' = Set(stage, t, "wrapping")
       /\ th' = Set(th, Main, t)
  /\ UNCHANGED <<shutdown, global, cache, allocated, inGroup, id, runs, main, gr, starts>>

\* _LinkThread under the lock of the group.
Link(a) ==
  /\ Go(a, "link", "list")
  /\ members' = Set(members, gr[a], members[gr[a]] \cup {th[a]})
  /\ count' = Set(count, gr[a], count[gr[a]] + 1)
  /\ UNCHANGED <<shutdown, global, cache, allocated, running, stackSize, inThread,
                 stage, runs, main, gr, th, starts>>

\* _LinkThread under XplThreads.lock.
List(a) ==
  /\ Go(a, "list", "schedule")
  /\ threadList' = <<th[a]>> \o threadList
  /\ threads' = threads + 1
  /\ UNCHANGED <<shutdown, groups, staticGroup, cache, allocated, inGroup, inThread,
                 stage, runs, main, gr, th, starts>>

Forget(a) == th' = Set(th, a, Null) /\ gr' = Set(gr, a, Null)

Schedule(a) ==
  /\ pc[a] = "schedule" /\ stage[th[a]] = "starting"
  /\ IF stackSize[gr[a]]
     THEN Go(a, "schedule", "create") /\ UNCHANGED <<stage, gr, th>>
     ELSE Go(a, "schedule", "idle") /\ stage' = Set(stage, th[a], "queued") /\ Forget(a)
  /\ UNCHANGED <<shutdown, global, cache, allocated, inGroup, inThread, runs, main, starts>>

\* A system thread is created for a thread with a stack size of its own.
CreateThread(a) ==
  /\ Go(a, "create", "idle")
  /\ stage' = Set(stage, th[a], "queued")
  /\ Forget(a)
  /\ UNCHANGED <<shutdown, global, cache, allocated, inGroup, inThread, runs, main, starts>>

\* It could not be, and the group does not run any more.
Abandon(a) ==
  /\ Go(a, "create", "idle")
  /\ ~running[gr[a]]
  /\ stage' = Set(stage, th[a], "abandoned")
  /\ Forget(a)
  /\ UNCHANGED <<shutdown, global, cache, allocated, inGroup, inThread, runs, main, starts>>

\* XplThreadWrap returns: Main has a structure of its own.
WrapDone ==
  /\ Go(Main, "schedule", "idle")
  /\ stage[th[Main]] = "wrapping"
  /\ stage' = Set(stage, th[Main], "running")
  /\ runs' = Set(runs, Main, th[Main])
  /\ id' = Set(id, th[Main], Main)
  /\ Forget(Main)
  /\ UNCHANGED <<shutdown, global, cache, allocated, inGroup, group, consumers,
                 main, starts>>
-----------------------------------------------------------------------------
(* The life of a thread: __xpl_thread__, _XplThreadDestroy, XplThreadFree *)

Begin(w, t) ==
  /\ w \in Workers /\ runs[w] = Null /\ pc[w] = "idle"
  /\ stage[t] = "queued"
  /\ stage' = Set(stage, t, "running")
  /\ id' = Set(id, t, w)
  /\ runs' = Set(runs, w, t)
  /\ UNCHANGED <<shutdown, global, cache, allocated, inGroup, group, consumers,
                 main, local, starts>>

\* The function returns, or Main calls XplThreadWrapEnd after it destroyed its
\* group.
End(a) ==
  /\ runs[a] # Null
  /\ Go(a, "idle", "unlist")
  /\ a = Main => own = Null
  /\ stage' = Set(stage, runs[a], "ended")
  /\ th' = Set(th, a, runs[a])
  /\ gr' = Set(gr, a, group[runs[a]])
  /\ UNCHANGED <<shutdown, global, cache, allocated, inGroup, inThread, runs, main, starts>>

\* Mutant: the thread leaves the list and is still counted.
UnlistUncounted(a) ==
  /\ Go(a, "unlist", "unlink")
  /\ members' = Set(members, gr[a], members[gr[a]] \ {th[a]})
  /\ count' = Set(count, gr[a], Cardinality(members[gr[a]]))
  /\ UNCHANGED <<shutdown, global, cache, allocated, running, stackSize, inThread,
                 stage, runs, main, gr, th, starts>>

Unlist(a) ==
  /\ Go(a, "unlist", "unlink")
  /\ members' = Set(members, gr[a], members[gr[a]] \ {th[a]})
  /\ count' = Set(count, gr[a], count[gr[a]] - 1)
  /\ UNCHANGED <<shutdown, global, cache, allocated, running, stackSize, inThread,
                 stage, runs, main, gr, th, starts>>

\* Under XplThreads.lock: the thread leaves the global list, and the static
\* group goes with its last thread.
Unlink(a) ==
  LET g == gr[a] last == g = staticGroup /\ count[g] = 0 IN
  /\ Go(a, "unlink", IF last THEN "clean" ELSE "release")
  /\ threadList' = Without(threadList, th[a])
  /\ threads' = threads - 1
  /\ IF last
     THEN staticGroup' = Null /\ groups' = groups \ {g} /\ running' = Set(running, g, FALSE)
     ELSE UNCHANGED <<staticGroup, groups, running>>
  /\ UNCHANGED <<shutdown, cache, allocated, stackSize, members, count, inThread,
                 stage, runs, main, gr, th, starts>>

Clean(a) ==
  /\ Go(a, "clean", "release")
  /\ allocated' = allocated \ {gr[a]}
  /\ UNCHANGED <<shutdown, global, cache, inGroup, inThread, stage, runs, main,
                 gr, th, starts>>

\* What a caller comes back to from XplThreadFree.
Resume(a) == IF a = Main THEN "idle" ELSE "rest"

\* XplThreadFree by the worker, for the reference that XplThreadStart made.
\* Whoever drops the last reference resets the structure and keeps it.
Release(a) ==
  /\ pc[a] = "release"
  /\ gr' = Set(gr, a, Null)
  /\ IF shutdown
     THEN Go(a, "release", Resume(a)) /\ UNCHANGED <<consumers, th>>
     ELSE /\ consumers' = Set(consumers, th[a], consumers[th[a]] - 1)
          /\ IF consumers[th[a]] = 1 THEN Go(a, "release", "cache") /\ UNCHANGED th
             ELSE Go(a, "release", Resume(a)) /\ th' = Set(th, a, Null)
  /\ runs' = Set(runs, a, IF a = Main THEN Null ELSE runs[a])
  /\ UNCHANGED <<shutdown, global, cache, allocated, inGroup, group, id, stage,
                 main, starts>>

\* Under freeThreads.lock.
Cache(a) ==
  /\ Go(a, "cache", Resume(a))
  /\ cache' = cache \cup {th[a]}
  /\ group' = Set(group, th[a], Null)
  /\ stage' = Set(stage, th[a], "cached")
  /\ th' = Set(th, a, Null)
  /\ UNCHANGED <<shutdown, global, allocated, inGroup, consumers, id, runs, main,
                 gr, starts>>

\* The worker is ready for another thread.
Rest(w) ==
  /\ Go(w, "rest", "idle")
  /\ runs' = Set(runs, w, Null)
  /\ UNCHANGED <<shutdown, global, cache, allocated, inGroup, inThread, stage,
                 main, gr, th, starts>>

\* Mutant: XplThreadFree puts the structure into the cache whatever is left.
FreeHandleLast ==
  /\ Free(Main)
  /\ \E t \in handles :
       /\ handles' = handles \ {t}
       /\ consumers' = Set(consumers, t, consumers[t] - 1)
       /\ Go(Main, "idle", "cache") /\ th' = Set(th, Main, t)
  /\ UNCHANGED <<shutdown, global, cache, allocated, inGroup, group, id, stage, runs,
                 own, gr, starts>>

\* XplThreadFree of a handle.
FreeHandle ==
  /\ Free(Main)
  /\ \E t \in handles :
       /\ handles' = handles \ {t}
       /\ consumers' = Set(consumers, t, consumers[t] - 1)
       /\ IF consumers[t] = 1 THEN Go(Main, "idle", "cache") /\ th' = Set(th, Main, t)
                              ELSE UNCHANGED <<pc, th>>
  /\ UNCHANGED <<shutdown, global, cache, allocated, inGroup, group, id, stage, runs,
                 own, gr, starts>>
-----------------------------------------------------------------------------
(* XplThreadGroupDestroy and XplThreadShutdown, by Main *)

\* Mutant: the threads are signalled, and not waited for.
DestroyNow ==
  /\ Free(Main) /\ own # Null
  /\ running' = Set(running, own, FALSE)
  /\ Go(Main, "idle", "delete")
  /\ UNCHANGED <<shutdown, global, cache, allocated, stackSize, members, count,
                 inThread, stage, runs, main, gr, th, starts>>

\* The threads of the group are sent SIGTERM (the subject of ThreadSignal);
\* the group is polled until it has none.
Destroy ==
  /\ Free(Main) /\ own # Null
  /\ running' = Set(running, own, FALSE)
  /\ Go(Main, "idle", "poll")
  /\ UNCHANGED <<shutdown, global, cache, allocated, stackSize, members, count,
                 inThread, stage, runs, main, gr, th, starts>>

Poll ==
  /\ Go(Main, "poll", "delete")
  /\ count[own] = 0
  /\ UNCHANGED <<shutdown, global, cache, allocated, inGroup, inThread, stage, runs,
                 main, gr, th, starts>>

\* The group is taken from the list and freed; nobody else knows it.  What
\* freed memory holds is of no account.
Delete ==
  /\ Go(Main, "delete", "idle")
  /\ groups' = groups \ {own}
  /\ allocated' = allocated \ {own}
  /\ stackSize' = Set(stackSize, own, FALSE)
  /\ own' = Null
  /\ UNCHANGED <<shutdown, staticGroup, threadList, threads, cache, running, members,
                 count, inThread, stage, runs, handles, gr, th, starts>>

\* XplThreadShutdown refuses while there are threads; then it empties the
\* cache.  Main has destroyed its group and is not wrapped any more.
Shutdown ==
  /\ Free(Main) /\ own = Null /\ runs[Main] = Null
  /\ threads = 0
  /\ shutdown' = TRUE
  /\ Go(Main, "idle", "empty")
  /\ UNCHANGED <<global, cache, allocated, inGroup, inThread, stage, runs, main,
                 gr, th, starts>>

Empty ==
  /\ Go(Main, "empty", "done")
  /\ cache' = {}
  /\ stage' = [t \in Threads |-> IF t \in cache THEN "none" ELSE stage[t]]
  /\ UNCHANGED <<shutdown, global, allocated, inGroup, inThread, runs, main,
                 gr, th, starts>>
-----------------------------------------------------------------------------
Start(a) == StartInGroup(a) \/ StartStatic(a)

Starting(a) == \/ Take(a) \/ Link(a) \/ List(a) \/ Schedule(a) \/ CreateThread(a)

Leaving(a) == Unlist(a) \/ Unlink(a) \/ Clean(a) \/ Release(a) \/ Cache(a) \/ Rest(a)

ByMain == \/ GroupCreate \/ WrapStatic \/ TakeWrap \/ WrapDone \/ FreeHandle
          \/ Destroy \/ Poll \/ Delete \/ Shutdown \/ Empty

Next == \/ \E a \in Actors : Start(a) \/ Starting(a) \/ Abandon(a) \/ End(a) \/ Leaving(a)
        \/ \E w \in Workers, t \in Threads : Begin(w, t)
        \/ ByMain

\* System threads keep running, functions return, a queued thread is begun
\* when a worker is free.
Fairness == /\ \A a \in Actors : WF_vars(Starting(a)) /\ WF_vars(Leaving(a))
            /\ \A w \in Workers : WF_vars(End(w))
            /\ WF_vars(\E w \in Workers, t \in Threads : Begin(w, t))
            /\ WF_vars(Poll \/ Delete)

Spec == Init /\ [][Next]_vars

FairSpec == Spec /\ Fairness
-----------------------------------------------------------------------------
(* Properties *)

Stages == {"none", "starting", "queued", "wrapping", "running", "ended", "abandoned", "cached"}

Places == {"unwrapped", "idle", "take", "wrap", "link", "list", "schedule", "create",
           "unlist", "unlink", "clean", "release", "cache", "rest",
           "poll", "delete", "empty", "done"}

TypeOK ==
  /\ shutdown \in BOOLEAN
  /\ groups \subseteq Groups /\ staticGroup \in Groups \cup {Null}
  /\ threadList \in Seq(Threads) /\ threads \in Nat
  /\ cache \subseteq Threads /\ allocated \subseteq Groups
  /\ running \in [Groups -> BOOLEAN] /\ stackSize \in [Groups -> BOOLEAN]
  /\ members \in [Groups -> SUBSET Threads] /\ count \in [Groups -> Nat]
  /\ group \in [Threads -> Groups \cup {Null}]
  /\ consumers \in [Threads -> Nat]
  /\ id \in [Threads -> Actors \cup {Null}]
  /\ stage \in [Threads -> Stages]
  /\ runs \in [Actors -> Threads \cup {Null}]
  /\ own \in Groups \cup {Null} /\ handles \subseteq Threads
  /\ pc \in [Actors -> Places]
  /\ gr \in [Actors -> Groups \cup {Null}] /\ th \in [Actors -> Threads \cup {Null}]
  /\ starts \in 0 .. MaxStarts

At(S) == {a \in Actors : pc[a] \in S}

\* No system thread follows a pointer to a group that has been freed: not
\* while it starts a thread, nor when a thread leaves, nor through the group of
\* a thread that runs or will (thread.c:1131-1138, 664-677, 692-714, 1076-1097).
GroupSafe ==
  /\ \A a \in At({"take", "wrap", "link", "schedule", "create", "unlist", "clean"}) :
       gr[a] \in allocated
  /\ \A t \in Threads : stage[t] \in {"queued", "running"} => group[t] \in allocated
  /\ own # Null => own \in allocated
  /\ groups \subseteq allocated

\* The counters that XplThreadGroupDestroy and XplThreadShutdown wait for or
\* test are those of the lists, so that a shutdown leaves no thread and no
\* group (thread.c:676, 690, 1076, 622, 631-633).
CountsAgree ==
  /\ \A g \in groups : count[g] = Cardinality(members[g])
  /\ threads = Len(threadList)
  /\ \A i, j \in DOMAIN threadList : threadList[i] = threadList[j] => i = j
  /\ shutdown => threadList = <<>> /\ staticGroup = Null /\ groups = {}

\* The worker that ends a thread, or the one who starts it, holds the
\* reference that XplThreadStart made until XplThreadFree drops it.
WorkerRefers(t) ==
  \/ stage[t] \in {"starting", "queued", "wrapping", "running", "abandoned"}
  \/ \E a \in At({"unlist", "unlink", "clean", "release"}) : th[a] = t

\* A structure is kept for reuse only when nobody refers to it, and its count
\* of consumers is the number of those who do (thread.c:1198, 1228, 1364-1385).
RefsSound ==
  /\ shutdown \/ \A t \in Threads :
       consumers[t] = (IF t \in handles THEN 1 ELSE 0) + (IF WorkerRefers(t) THEN 1 ELSE 0)
  /\ \A t \in cache : /\ t \notin handles /\ ~WorkerRefers(t)
                      /\ \A i \in DOMAIN threadList : threadList[i] # t
                      /\ \A g \in groups : t \notin members[g]

\* XplThreadGroupDestroy returns, unless a thread was given up on that could
\* not be created (thread.c:1072-1082, 946-955): threads end when they are told.
DestroyReturns ==
  pc[Main] = "poll" ~> \/ pc[Main] = "delete"
                       \/ \E t \in Threads : stage[t] = "abandoned"

\* _CurrentThread: the first thread of the list with the caller's id.
CurrentThread(a) ==
  LET found == {i \in DOMAIN threadList : id[threadList[i]] = a} IN
  IF found = {} THEN Null
  ELSE threadList[CHOOSE i \in found : \A j \in found : i <= j]

\* XplGetThread returns the current thread (xplthread.h:457-458): what a
\* thread function asks about itself is answered for the thread that runs it.
CurrentIsMine ==
  \A a \in Actors : runs[a] # Null /\ stage[runs[a]] = "running" => CurrentThread(a) = runs[a]
=============================================================================
