----------------------------- MODULE ThreadPool -----------------------------
(***************************************************************************)
(* The worker pool of src/memmgr/thread.c: XplThreadStart hands a thread   *)
(* structure to _Schedule, which queues it, decides from the statistics    *)
(* whether another worker is needed, and posts the semaphore that workers  *)
(* wait on.                                                                *)
(*                                                                         *)
(* A step ends where the code acquires or releases a lock, waits on or     *)
(* posts the semaphore, or creates a system thread.  What is done between  *)
(* the acquire and the release of one lock is one step.  Workers have no   *)
(* identity: one that has a thread is told by the stage of that thread,    *)
(* the others are counted.  stats.peak, which is only reported, is left    *)
(* out; groups and the reference counts of threads are not modelled here.  *)
(***************************************************************************)
EXTENDS Integers, Sequences, FiniteSets

CONSTANTS
  Threads,      \* the _XplThread structures
  Callers,      \* system threads that call XplThreadStart
  Wrappers,     \* those of them that the library did not create
  MaxDepth,     \* how deep failed creations may lock stats.lock; 0: none fails
  NoThread,     \* no thread, and the null pointer
  NoCaller      \* the lock has no owner

ASSUME ThreadPoolAssumption ==
  /\ IsFiniteSet(Threads) /\ IsFiniteSet(Callers)
  /\ Wrappers \subseteq Callers
  /\ NoThread \notin Threads /\ NoCaller \notin Callers
  /\ MaxDepth \in Nat

VARIABLES
  list, pending, semaphore,  \* XplThreads.work
  total, idle, active,       \* XplThreads.stats
  wrapped,                   \* callers between XplThreadWrap and XplThreadWrapEnd
  statsLock,                 \* stats.lock: who owns it between steps, and how often
  waiting,                   \* workers in _XplSemaWait
  woken,                     \* workers between _XplSemaWait and work.lock
  empty,                     \* workers that found no work
  stage,                     \* where each thread is
  pc,                        \* where each caller is
  seen,                      \* its local pending
  mine                       \* the thread it creates a system thread for

work   == <<list, pending, semaphore>>
stats  == <<total, idle, active, wrapped>>
loose  == <<waiting, woken, empty>>
caller == <<pc, seen, mine>>
vars   == <<work, stats, statsLock, loose, stage, caller>>

Init == /\ list = <<>> /\ pending = 0 /\ semaphore = 0
        /\ total = 0 /\ idle = 0 /\ active = 0 /\ wrapped = {}
        /\ statsLock = [owner |-> NoCaller, depth |-> 0]
        /\ waiting = 0 /\ woken = 0 /\ empty = 0
        /\ stage = [t \in Threads |-> "free"]
        /\ pc = [c \in Callers |-> "idle"]
        /\ seen = [c \in Callers |-> 0]
        /\ mine = [c \in Callers |-> NoThread]

\* stats.lock is a recursive mutex.
StatsOpen(c) == statsLock.owner \in {NoCaller, c}

Release(lock) == IF lock.depth = 1 THEN [owner |-> NoCaller, depth |-> 0]
                                   ELSE [owner |-> lock.owner, depth |-> lock.depth - 1]

Stage(t, from, to) == stage[t] = from /\ stage' = [stage EXCEPT ![t] = to]

Go(c, from, to) == pc[c] \in from /\ pc' = [pc EXCEPT ![c] = to]
-----------------------------------------------------------------------------
(* _Schedule *)

\* Mutant: the work is put at the front of the list.
EnqueueFront(c, t) ==
  /\ Go(c, {"idle"}, "stats")
  /\ Stage(t, "free", "queued")
  /\ list' = <<t>> \o list
  /\ pending' = pending + 1
  /\ seen' = [seen EXCEPT ![c] = pending + 1]
  /\ UNCHANGED <<semaphore, stats, statsLock, loose, mine>>

\* The thread has the default stack size: it is queued under work.lock.
Enqueue(c, t) ==
  /\ Go(c, {"idle"}, "stats")
  /\ Stage(t, "free", "queued")
  /\ list' = Append(list, t)
  /\ pending' = pending + 1
  /\ seen' = [seen EXCEPT ![c] = pending + 1]
  /\ UNCHANGED <<semaphore, stats, statsLock, loose, mine>>

\* Mutant: the worker to come is not counted as idle.
CheckUncounted(c) ==
  /\ StatsOpen(c)
  /\ statsLock' = IF pc[c] = "again" THEN Release(statsLock) ELSE statsLock
  /\ \/ /\ seen[c] >= idle
        /\ total' = total + 1
        /\ Go(c, {"stats", "again"}, "create")
     \/ /\ seen[c] < idle
        /\ Go(c, {"stats", "again"}, "post")
        /\ UNCHANGED total
  /\ UNCHANGED <<idle, active, wrapped, work, loose, stage, seen, mine>>

\* The condition of the loop, with the value of pending that was read under
\* work.lock.  The first time stats.lock is acquired for it; the caller that
\* comes from a failed creation has it already.
Check(c) ==
  /\ StatsOpen(c)
  /\ statsLock' = IF pc[c] = "again" THEN Release(statsLock) ELSE statsLock
  /\ \/ /\ seen[c] >= idle
        /\ total' = total + 1
        /\ idle' = idle + 1
        /\ Go(c, {"stats", "again"}, "create")
     \/ /\ seen[c] < idle
        /\ Go(c, {"stats", "again"}, "post")
        /\ UNCHANGED <<total, idle>>
  /\ UNCHANGED <<active, wrapped, work, loose, stage, seen, mine>>

\* Mutant: the caller posts here and again at the end.
CreateWorkerPost(c) ==
  /\ Go(c, {"create"}, "post")
  /\ waiting' = waiting + 1
  /\ semaphore' = semaphore + 1
  /\ UNCHANGED <<list, pending, stats, statsLock, woken, empty, stage, seen, mine>>

CreateWorker(c) ==
  /\ Go(c, {"create"}, "post")
  /\ waiting' = waiting + 1
  /\ UNCHANGED <<work, stats, statsLock, woken, empty, stage, seen, mine>>

\* stats.lock is acquired (981), and where work.lock, which the caller does
\* not have, is released (983: the mutex refuses), stats.lock is acquired once
\* more (985).  MaxDepth bounds the failures.
CreateFail(c) ==
  /\ statsLock.depth + 2 <= MaxDepth
  /\ Go(c, {"create"}, "again")
  /\ StatsOpen(c)
  /\ statsLock' = [owner |-> c, depth |-> statsLock.depth + 2]
  /\ total' = total - 1
  /\ idle' = idle - 1
  /\ seen' = [seen EXCEPT ![c] = pending]
  /\ UNCHANGED <<active, wrapped, work, loose, stage, mine>>

Post(c) ==
  /\ Go(c, {"post"}, "idle")
  /\ semaphore' = semaphore + 1
  /\ seen' = [seen EXCEPT ![c] = 0]
  /\ UNCHANGED <<list, pending, stats, statsLock, loose, stage, mine>>

\* The thread has a stack size of its own: a system thread is created for it.
Claim(c, t) ==
  /\ Go(c, {"idle"}, "single")
  /\ Stage(t, "free", "claimed")
  /\ mine' = [mine EXCEPT ![c] = t]
  /\ UNCHANGED <<work, stats, statsLock, loose, seen>>

\* A failure is retried after a delay, as long as the group runs: it changes
\* nothing, and has no action.
CreateSingle(c) ==
  /\ Go(c, {"single"}, "idle")
  /\ Stage(mine[c], "claimed", "created")
  /\ mine' = [mine EXCEPT ![c] = NoThread]
  /\ UNCHANGED <<work, stats, statsLock, loose, seen>>
-----------------------------------------------------------------------------
(* __xpl_thread__ *)

SemaWait ==
  /\ waiting > 0
  /\ semaphore > 0
  /\ semaphore' = semaphore - 1
  /\ waiting' = waiting - 1 /\ woken' = woken + 1
  /\ UNCHANGED <<list, pending, stats, statsLock, empty, stage, caller>>

\* Mutant: pending counts what was ever queued.
PopUncounted ==
  /\ woken > 0 /\ list # <<>>
  /\ woken' = woken - 1
  /\ Stage(Head(list), "queued", "taken")
  /\ list' = Tail(list)
  /\ UNCHANGED <<pending, semaphore, stats, statsLock, waiting, empty, caller>>

\* A worker that finds no work goes, still counted as idle.  WorkFound says that
\* there is none, and the branch (797-802) ends here.
Pop ==
  /\ woken > 0
  /\ woken' = woken - 1
  /\ IF list = <<>>
     THEN empty' = empty + 1 /\ UNCHANGED <<list, pending, stage>>
     ELSE /\ Stage(Head(list), "queued", "taken")
          /\ list' = Tail(list)
          /\ pending' = pending - 1
          /\ UNCHANGED empty
  /\ UNCHANGED <<semaphore, stats, statsLock, waiting, caller>>

Begin(t) ==
  /\ StatsOpen(NoCaller)
  /\ Stage(t, "taken", "running")
  /\ idle' = idle - 1 /\ active' = active + 1
  /\ UNCHANGED <<total, wrapped, work, statsLock, loose, caller>>

\* The function returns.  The thread structure is not used again before its
\* worker is done with the statistics: Threads bounds both.
Finish(t) ==
  /\ Stage(t, "running", "ending")
  /\ UNCHANGED <<work, stats, statsLock, loose, caller>>

\* The worker waits for the next work.
Rest(t) ==
  /\ StatsOpen(NoCaller)
  /\ Stage(t, "ending", "free")
  /\ active' = active - 1 /\ idle' = idle + 1
  /\ waiting' = waiting + 1
  /\ UNCHANGED <<total, wrapped, work, statsLock, woken, empty, caller>>

\* It had waited for XPL_THREAD_MAX_IDLE before it got this work, and goes.
Retire(t) ==
  /\ StatsOpen(NoCaller)
  /\ Stage(t, "ending", "free")
  /\ active' = active - 1 /\ total' = total - 1
  /\ UNCHANGED <<idle, wrapped, work, statsLock, loose, caller>>
-----------------------------------------------------------------------------
(* __xpl_single_thread__ *)

SingleBegin(t) ==
  /\ StatsOpen(NoCaller)
  /\ Stage(t, "created", "alone")
  /\ total' = total + 1 /\ active' = active + 1
  /\ UNCHANGED <<idle, wrapped, work, statsLock, loose, caller>>

SingleFinish(t) ==
  /\ Stage(t, "alone", "leaving")
  /\ UNCHANGED <<work, stats, statsLock, loose, caller>>

SingleEnd(t) ==
  /\ StatsOpen(NoCaller)
  /\ Stage(t, "leaving", "free")
  /\ total' = total - 1 /\ active' = active - 1
  /\ UNCHANGED <<idle, wrapped, work, statsLock, loose, caller>>
-----------------------------------------------------------------------------
(* XplThreadWrap, XplThreadWrapEnd *)

\* A thread that the library did not create gets a structure (of its own, which
\* ThreadLife follows), and counts as active; total does not know it.
Wrap(c) ==
  /\ pc[c] = "idle"
  /\ c \in Wrappers \ wrapped
  /\ StatsOpen(c)
  /\ active' = active + 1
  /\ wrapped' = wrapped \cup {c}
  /\ UNCHANGED <<total, idle, work, statsLock, loose, stage, caller>>

WrapEnd(c) ==
  /\ pc[c] = "idle"
  /\ c \in wrapped
  /\ StatsOpen(c)
  /\ active' = active - 1
  /\ wrapped' = wrapped \ {c}
  /\ UNCHANGED <<total, idle, work, statsLock, loose, stage, caller>>
-----------------------------------------------------------------------------
Start(c) == \E t \in Threads : Enqueue(c, t) \/ Claim(c, t)

Schedule(c) == Check(c) \/ CreateWorker(c) \/ Post(c) \/ CreateSingle(c)

Worker(t) == Begin(t) \/ Finish(t) \/ Rest(t) \/ Retire(t)

Single(t) == SingleBegin(t) \/ SingleFinish(t) \/ SingleEnd(t)

Next == \/ \E c \in Callers : Start(c) \/ Schedule(c) \/ CreateFail(c) \/ Wrap(c) \/ WrapEnd(c)
        \/ SemaWait \/ Pop
        \/ \E t \in Threads : Worker(t) \/ Single(t)

\* Callers and workers keep running, the functions return, a post wakes one of
\* the workers that wait, and pthread_create succeeds at last.
Fairness == /\ \A c \in Callers : WF_vars(Schedule(c))
            /\ WF_vars(SemaWait) /\ WF_vars(Pop)
            /\ \A t \in Threads : WF_vars(Worker(t)) /\ WF_vars(Single(t))

Spec == Init /\ [][Next]_vars

FairSpec == Spec /\ Fairness
-----------------------------------------------------------------------------
(* Properties *)

At(S) == {t \in Threads : stage[t] \in S}

Calling(S) == {c \in Callers : pc[c] \in S}

Stages == {"free", "queued", "taken", "running", "ending",
           "claimed", "created", "alone", "leaving"}

Places == {"idle", "stats", "again", "create", "post", "single"}

\* No counter goes below 0: idle is unsigned, and would then keep any worker
\* from being created (thread.c:803, 970).
TypeOK ==
  /\ list \in Seq(Threads) /\ pending \in Nat /\ semaphore \in Nat
  /\ total \in Nat /\ idle \in Nat /\ active \in Nat /\ wrapped \in SUBSET Wrappers
  /\ statsLock \in [owner : Callers \cup {NoCaller}, depth : Nat]
  /\ waiting \in Nat /\ woken \in Nat /\ empty \in Nat
  /\ stage \in [Threads -> Stages]
  /\ pc \in [Callers -> Places]
  /\ seen \in [Callers -> Nat]
  /\ mine \in [Callers -> Threads \cup {NoThread}]

\* The statistics agree with the threads there are: idle counts a worker from
\* before it is created to when it has found its work, every worker is idle or
\* active, and active counts the threads that wrapped themselves too, which
\* total does not: without them the two differ by what is idle, however wraps,
\* failed creations and ends of threads follow one another (thread.c:803-804,
\* 826-837, 972-973, 1291-1297, 1336).
CountersSound ==
  /\ pending = Len(list)
  /\ idle = waiting + woken + empty + Cardinality(At({"taken"}))
              + Cardinality(Calling({"create"}))
  /\ active = Cardinality(At({"running", "ending", "alone", "leaving"}))
               + Cardinality(wrapped)
  /\ total = idle + active - Cardinality(wrapped)

\* The semaphore is posted once for each thread that is queued, after it is
\* queued, so that a worker that was woken finds work (thread.c:787, 797, 991).
WorkFound ==
  /\ empty = 0
  /\ semaphore + woken + Cardinality(Calling({"stats", "again", "create", "post"})) = Len(list)

\* However old the values of pending that callers compare, the pool does not
\* grow without bound: a worker is created only while those in reserve are no
\* more than the threads there are (thread.c:966-974).
PoolBounded ==
  total - Cardinality(At({"alone", "leaving"})) <= 2 * Cardinality(Threads)

\* XplLock is not locked recursively (xplthread.h:195-196).
StatsLockNotRecursive == statsLock.depth <= 1

\* Each function is run once, in the order of the queue.
Abstract == INSTANCE Executor
              WITH queue <- list, running <- At({"taken", "running", "alone"})
ExecutorSpec == Abstract!Spec

\* A thread that XplThreadStart started is run by some worker at last
\* (thread.c:969-991, 826-834).
EveryThreadRuns == \A t \in Threads : stage[t] = "queued" ~> stage[t] = "running"

\* It is, if other threads are started again and again and no creation fails.
RunsWhileOthersStart ==
  []<>(Calling({"stats"}) # {}) /\ [](statsLock.depth = 0) => EveryThreadRuns
=============================================================================
