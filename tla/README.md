# Specifications of memmgr

TLA+ models of the C library in this repository: the slab memory manager, the
thread library and the portability layer (`xpl`) above them. Each module is
written from the source, checked with TLC on a small instance, and the most
important properties are proved with TLAPS for every value of the constants.

    tlc -config MCSlabPool.cfg MCSlabPool        # a run
    tlapm SlabPoolProofs.tla                     # a module of proofs

1. The system · 2. Modules · 3. Runs · 4. Proofs · 5. What the models found ·
6. Not modelled · 7. What is left

## 1. The system

| part | source | state | operations | modules |
|---|---|---|---|---|
| memory pools | `src/memmgr/slab.c` | per pool: chain of slabs, `MEM_POOL_GROWING`; per slab: free list and alloc list with a counter and a lock each; per node: the union of `next` and `slab` | `MMPoolAlloc`, `MMPoolGet`, `MMPoolGetChunk`, `MMChunkGet`, `MMFree`, `MMDiscard`, free of the pool | `SlabPool`, `NodePool` |
| sized and huge memory | `slab.c` | the sixteen sizes, a block and what is in it, its signature, trail and key | `MMAllocEx`, `MMSize`, `MMFree`, `MMStrcatv`, `MMSprintf`, `MMStrdup`, `MMLock`, `MMWatch`, `MMAssert`, `MMPoolValidate` | `MemSizes`, `NodeMarks` |
| life of the memory library | `slab.c`, `memmgr.c` | state, count of uses, consumers, the worker's queue, the strings that name files | `MMOpenEx`, `MMClose`, `_WorkSchedule`, `_MemoryWorker`, `_MemStringLookup` | `MemLibrary` |
| worker pool | `src/memmgr/thread.c` | `XplThreads.work` (list, pending, semaphore), `XplThreads.stats` | `_Schedule`, `__xpl_thread__`, `__xpl_single_thread__` | `ThreadPool`, `Executor` |
| threads and groups | `thread.c` | groups with their threads, the static group, reference counts, the cache of thread structures | `XplThreadStart`, `XplThreadFree`, `XplThreadGroupDestroy`, `XplThreadWrap`, `XplThreadShutdown` | `ThreadLife` |
| signals | `thread.c` | a signal stack and a semaphore per thread | `XplThreadSignal`, `XplThreadGroupSignal`, `XplThreadCatch`, `XplThreadTerminated`, `XplThreadJoin` | `ThreadSignal` |
| what a thread carries | `thread.c` | slots of data by name, cancel points | `XplThreadRegisterData`, `XplThreadSetData`, `XplPushCancelPoint`, `XplCancelThread` | `ThreadData` |
| semaphores | `thread.c` | a value | `_XplSemaTimedWait`, `_XplSemaWait`, `_XplSemaPost` | `TimedWait` |
| read/write lock | `src/xpl/rwlock.c` | `RWState`, `RWMode`, `RWReaders`, three semaphores | `XplRW{Read,Write}Lock{Acquire,Release}`, init, destroy | `RWLock`, `ReadersWriters` |
| atomic numbers | `rwlock.c` | a number and its lock | `XplSafeRead`, `Write`, `Add`, `And`, `Or` | `Atomics` |
| alarms | `src/xpl/xplalarm.c` | a list of alarms, one tick (POSIX) or a timer each (Windows) | `XplAlarmInit`, `Create`, `Destroy`, `Shutdown`, the tick, the firing | `Alarms`, `WinAlarms` |
| main program | `src/memmgr/xplmain.c` | list of shutdown handlers, the signal thread, the signals of the system | `_XplMain`, `XplOnShutdown`, `XplOnShutdownCancel`, `XplHandleShutdown`, `XPLSignalProcessor` | `XplMain`, `Service` |
| child processes | `src/xpl/procunix.c`, `proc.c`, `procwin.c` | descriptors or handles, pid, whether it was reaped | `XplProcExec`, `ExecDetached`, `Join`, `JoinGroup`, `Signal`, `Read`, `Write`, `Flush`, `Free` | `ProcUnix`, `ProcWin` |
| agents | `src/xpl/process.c` | the list of agents under `processlock`, flags, the poll loop with its escalation | `XplProcess`, `XplListAgents`, `XplWaitAgent`, `XplSetAgentFlag`, `XplSignalAgent`, ... | `Agents`, `WinAgent` |
| strings | `src/memmgr/str.c`, `procwin.c:100-288` | none | patterns, fields, arguments, names and values, trimming, quoting | `Strings` |
| times | `src/xpl/mem.c` | a timer, an accumulator | `XplTimer...` | `Timers` |
| directories | `src/xpl/dir.c` | a walk, and the entries that were read ahead | `XplOpenDirMatch`, `XplReadDirMatch`, `XplReadDir`, `XReadDir`, close | `Directories` |
| configuration | `src/xpl/cfgfile.c` | the settings in memory, the file | `XplCfgOpen`, get, set, delete, `XplCfgFlush`, close | `CfgFile` |
| the rest | `fsys.c`, `err.c`, `elf.c`, `auth.c`, `wrap.c`, `xpllog.c` | none | tables, one system call each, I/O | none |

How they interact: threads allocate from pools shared by the whole program, and
every thread structure, queued work and alarm is itself such memory. A thread
started with the default stack is queued for the worker pool; one with its own
stack gets a system thread. Worker threads, the memory worker and the signal
thread are told to stop by a signal on the thread library's own signal stack.
Signals of the system go through one handler to that stack; one of them is the
tick of the alarms. Clients are called back on prepare, free and destroy of a
node, on destruction of a thread, by alarms, at shutdown, and for the output,
the flags and the end of an agent.

What makes the code hard: locks are held for one list at a time and flags carry
exclusion from one section to the next (`MEM_POOL_GROWING`, `initState`);
counters are kept beside the lists they count and compared outside of their
lock; one union field tells allocated nodes from free ones; semaphores count
events whose data sits in a list under another lock; one alarm of the system
stands for all of the program's; callbacks run with a recursive lock held and
change the list that is walked; pids and descriptors are reused by the system
the moment they are given up; system calls fail, or are interrupted, in the
middle of book-keeping; a file is rewritten in place.

What makes each part correct:

- pools: a node has one owner, none is lost, callbacks come in pairs and before
  use, growing links every slab in, and a caller gets its node;
- blocks: what fits is kept over any resizing, what was asked to be clear is,
  and an assertion on the marks fails only for who broke a rule;
- memory library: the last to close finds no consumers, scheduled work is done,
  no name is lost from a chain;
- worker pool: each function is run once, in order, by a pool of bounded size
  whose statistics say what it contains; started work is run;
- threads and groups: a structure is used only while it is referenced, a
  destroyed group has no thread, a signal that was accepted is caught once;
- read/write lock: exclusion, no overtaking of waiting writers, no starvation;
- alarms: each that waits is called at last, and none after it was cancelled;
- main program: shutdown handlers run once each, and the program ends;
- children and agents: a child is reaped once and never signalled after that, no
  descriptor is closed twice or for somebody else, and none is forgotten but by
  the failing calls of section 5, joins return;
- settings: a crash loses no more than the end of the file, and may tear its last
  line; a flush that can write loses nothing;
- listings: every file that stays is shown once, with its own data.

The list of hazards, line by line, with the properties that are about each, is
in `PROJECT.json`.

## 2. Modules

| module | what it is |
|---|---|
| `NodePool` | what a pool promises: a node is available or out with one caller |
| `SlabPool` | one pool of `slab.c`, shared by threads |
| `SlabPoolProofs` | its inductive invariants; it implements `NodePool` |
| `ReadersWriters` | what a read/write lock promises |
| `RWLock` | the lock of `rwlock.c`, one step per semaphore operation |
| `RWLockProofs` | its inductive invariant and its order; it implements `ReadersWriters` |
| `Executor` | what `XplThreadStart` promises of the functions it is given |
| `ThreadPool` | the queue, the workers and the statistics of `thread.c` |
| `ThreadPoolProofs` | its inductive invariant; it implements `Executor` |
| `ThreadLife` | groups, the static group, thread structures, their cache and the shutdown of `thread.c` |
| `ThreadLifeProofs` | its inductive invariant |
| `ThreadSignal` | the signal stack, its semaphore, catch and join of one thread structure |
| `ThreadSignalProofs` | its inductive invariant |
| `Agents` | the agents of `process.c` on POSIX |
| `WinAgent` | how `process.c` reads an agent's output on Windows |
| `ProcUnix`, `ProcWin` | handles on child processes; `MCProcs` has both |
| `ProgramProofs` | the inductive invariants of `Agents`, `MCProcs` and `XplMain` |
| `Lists`, `ListLemmas` | the linked lists of `Agents`, `ThreadLife`, `XplMain`, `WinAlarms` and `ThreadData`; what a removal and an insertion do to one |
| `Alarms`, `XplMain` | alarms; the main program and its signals |
| `Service` | the two composed: the tick is a signal of the system |
| `MemLibrary`, `MemSizes`, `NodeMarks`, `Strings`, `CfgFile`, `Timers`, `TimedWait`, `Directories`, `WinAlarms`, `ThreadData`, `Atomics` | one part each; `MCLibrary` has all of them |
| `LibraryProofs` | an inductive invariant for each of these, but for `Strings` and `CfgFile` |
| `MC...` | instances for TLC |

### SlabPool

A critical section under `freeList.lock`, `allocList.lock` or the pool's lock is
one step; what the code does between them (reading the slab chain, `_NewSlab`,
the callbacks) is a step of its own, and `pc[t]` says where thread `t` is inside
`_PoolAlloc` or `_PoolFree`. `growing` is the flag, `nodeSlab` the union member
(`NoSlab` while it holds `next`), `freeNodes` and `allocNodes` the counters
beside the lists. A list is a set: the code is LIFO, the model hands out any
node, so nothing shown depends on the order. The callbacks are represented by
the set `prepared`: `prepareCB` adds to it, `destroyCB` and `MMDiscard` take
from it. `raw` is a history variable: the nodes that a chunk of a pool with a
`prepareCB` took from an alloc list. `_PoolAlloc` leaves them to `MMChunkGet`,
but types the chunk as one of free nodes (568), so that `MMChunkGet` does not
prepare them either; they go to clients and on to a free list as they are, until
they are discarded and handed out again.

`Cuts` is `_GetNode`. In chunked mode it counts `n` nodes off the list but cuts
the list before the `n`-th; the last one stays on the list uncounted. That is
what `CountersSound` bounds: the counter falls short by one node for each chunk
ever cut, and never claims a node too many. A request for a chunk of one node
is excluded (`ChunkSizes`): `_PoolAlloc` cannot tell it from a single node.

Left out: the private pool that the handles come from, signatures, owner
records, statistics.

### RWLock

One step per `XplSemaWait` or `XplSemaPost`, with the plain reads and writes
next to it. `XplRWLockDestroy` requires of its callers that nobody is inside.

### ThreadPool

A step is a section under `work.lock` or `stats.lock`, a wait or post of the
semaphore, or the creation of a system thread. Workers are anonymous in the
code; one that has a thread is known by `stage[thread]`, the others are counted
(`waiting`, `woken`, `empty`). `statsLock` is a recursive mutex that a caller
keeps between steps only after a failed creation (see findings). The counter
`peak` is only reported and left out. `Wrap` and `WrapEnd` are what
`XplThreadWrap` and `XplThreadWrapEnd` do to the statistics: a thread that the
library did not create (`Wrappers`) counts in `active`, not in `total`; what else
they do is in `ThreadLife`. A failed creation of a thread with its own
stack is retried while its group runs and changes nothing. A thread structure
is used again only after its worker has done with the statistics.

### ThreadLife

What `ThreadPool` takes for granted: `XplThreadStart` finds or creates the group,
takes a structure from the cache, links it into the group and into the global
list, each under a lock of its own; the worker that ran it unlinks it in two
steps, frees the static group if it was the last there, and drops its reference.
Main owns one group at a time and any handles, destroys the group (polling its
count) and shuts the library down. `stage[t]` says what becomes of a structure,
`members` and `count` are a group's list and counter, `id` is the worker that
last ran a structure. Which worker runs a queued thread is left open (that is
`ThreadPool`), as is the signal that tells a thread to end (any thread function
may return at any time). Memory that is freed may be allocated again at once, so
that comparisons of stale pointers (`gr == XplThreads.staticGroup`) are seen.
`Wrapped` tells a program under `XplMain`, whose main thread is a member of the
static group as long as it uses it, from one that is not. (The signal thread,
which `XplMain` starts in that group just before it wraps itself and ends after
it has left, would be one more member throughout, and is left out.) Callers keep
two rules: main destroys its groups before it unwraps itself, and shuts down
afterwards.

### ThreadSignal

One thread structure through all its lives, its own thread (`Self`) and clients
who hold its handle or reach it through its group. Pushing a signal (under the
structure's lock) and posting the semaphore are two steps, and so are taking a
post and popping the signal; a join takes a post, looks at `running`, and posts
again while the thread runs. `XplThreadTerminated` puts `SIGTERM` back behind
the others. A signal through the group holds the group's lock to its end, for
which the thread waits before it leaves the group. Clients keep one rule: the
handle is freed when none of them uses it any more. Contexts travel with their
signals and are left out; so are `XplThreadCatch` by others than the thread,
which no code of the repository calls, and `XplThreadFree`, which is in
`ThreadLife`.

### Agents, WinAgent

A runner is a thread inside `XplProcess`: `rpc` is its place between the creation
of the agent, the reading of its output, its removal from the list, the poll
loop and the callback. A client is a thread in one of the calls that walk the
list; a step visits one agent, as `XplListAgents` leaves the lock with its
caller between them, and `XplWaitAgent` gives the lock up to sleep. Creating and
removing an agent hold the lock throughout and are one step. The intervals of
the poll loop (`FAST`, `MEDIUM`, `SLOW`, `CRAWL`, `STOPTIME`, `KILLTIME`,
`CRAWLTIME`) are constants with the order they have in the code. The child may
close its output before it ends, ignores a stop if it likes, and dies of a kill.

`WinAgent` is `XplReadProcess` on Windows: `Peek` adds what is in the pipe to
`left`, which wraps at `Width` bits, `ReadOutput` takes what fits the buffer and
splits it into lines.

### ProcUnix, ProcWin

One handle per user. In `ProcUnix` `proc` is what the handle records (its
descriptors and whether the child was reaped), `open` the descriptors that are
open for it, `kid` the child: running, a zombie or gone, and what it waits for.
`MTSem` is the semaphore around `fork`. A system call is a step, and each of
them may fail: no pipe, no fork, no memory, an interrupted wait. The user goes on
after any failure; `stray` is a history variable that says which call gave the
child up: a free that was interrupted, or an exec that found no memory for the
handle and keeps the semaphore, the child and the pipes. In `ProcWin`
the child is created suspended, assigned to a job, the port is associated and
the child resumed; each is a step, each may fail, and `wleak` is what a failed
exec leaves open. The system posts a message when the last process of the job
ends, if the job has a port by then.

### Alarms, XplMain, Service, WinAlarms

An alarm keeps its age instead of the time of its last iteration; `tick` is the
one `alarm(2)` of the process. What holds `XplAlarms.lock` is one step; the walk
of `XplAlarmCreate` for the next tick and its `alarm()` hold no lock and are
steps of their own, with the delay in a local variable. `XplMain` is the main
thread from start to end with the handlers' list (a handler is the address of
its memory, so that a freed one can be registered again), and the signal thread
with its bounded stack. `XplHandleShutdown` has the handler it calls `in hand`,
and its callbacks register and cancel. `Service` composes them: `SIGALRM` goes
through `XPLSignalProcessor` to the signal thread, which calls `XplAlarmSignal`.
Its program sets a signal handler before it uses alarms, shuts them down before
it returns, and returns when it is told to. `WinAlarms` has a timer of the system
for each alarm; it fires before its handle is stored or when the alarm has gone,
and the address may be in use for another alarm by then.

### The smaller parts

- `MemLibrary`: whoever increments `initState` first initializes, others wait;
  the count of uses and the list of consumers have a lock each; the worker takes
  one piece of work for one signal of its stack, which refuses a signal when it is
  full; `_WorkSchedule` does not look (1038), and `refused` counts these signals.
  `Walk`/`Insert` are the two
  halves of `_MemStringLookup`, which only the second of them locks. Main opens
  first and closes last, as `XplMain` does.
- `MemSizes`: one block through any sequence of allocations, resizes, sizes and
  string functions. A byte is text, zero or junk; `text`, `clean` and `string`
  are what the caller may rely on.
- `NodeMarks`: the signature, the trail behind the size, and the key of a node
  in each of several pools, and the assertions each call makes on them with
  `DEBUG_ASSERT`: `AssertFault` is what `MMAssert` finds, with which `MMLock` and
  `MMUnlock` begin. Clearing, moving and setting the trail are steps, as another
  thread validates the pools meanwhile. The owner keeps the rules of `MMLock`,
  but may write behind its block, and may forget that it is watched or empty.
- `Strings`: `subject` and `pattern` grow a character at a time, so that the run
  asks each helper about every pair of strings up to the bounds. A field is a text
  or nothing, which is what `nextfieldex` returns of an empty one.
- `CfgFile`: the settings as a list of sections, the file as lines. A flush
  truncates the file and writes through a buffer whose blocks end anywhere: what a
  crash, or a disk that is full, leaves (`Left`) are the first lines and perhaps a
  part of the next (`Torn`): of an item its name alone, which is read as junk, or
  the beginning of its value. The file may also refuse to be opened. None of this
  is looked at, and the settings count as saved; `unsaved` is a history variable
  for that.
- `Timers`: a clock, one timer and one accumulator, with seconds of `PerSecond`
  microseconds, so that every borrow and carry happens.
- `TimedWait`: a semaphore and a wait on a clock of milliseconds;
  `_XplSemaTimedWait` adds microseconds to milliseconds and overwrites the
  nanoseconds it should add to, and so does the model. Signals interrupt it.
- `Directories`: files come and go between `readdir` and `stat` and between the
  reading of the listing and its handing out. Names stand for entries.
- `ThreadData`: slots of data by registered name for threads and groups, and the
  list of cancel points, which lie on the stacks of their threads.
- `Atomics`: a number of `Width` bits, an operation between the taking and the
  giving back of its lock, next to the number as it would be if each operation
  were one step.

## 3. Runs

| run | instance | shows |
|---|---|---|
| `slab_pool` | 2 threads, 2 slabs of 2 nodes, chunks of 2, with and without callbacks | ownership, marks, counters, callbacks, slab chain; `NodePool` implemented; progress |
| `rwlock` | 3 threads | exclusion, order, no starvation; `ReadersWriters` implemented |
| `thread_pool` | 2 callers, one of which wraps itself, 3 threads | statistics, wake-ups, bound on workers, order; `Executor` implemented; work is run while others are started |
| `thread_orphan` | 1 caller, 3 threads, no failures | violation: accepted work is never run |
| `thread_life` | wrapped main, 2 workers, 2 groups, 3 structures, 2 starts | no freed group is touched; counters agree with lists; references; groups are destroyed at last |
| `thread_signal` | 3 clients, 2 signals, a stack of 4, joined once | semaphore and stack in step; no empty catch; nothing left for the next life; catch and join return |
| `agents` | 2 runners with two names, 1 client | names, pids and handles; flags reach the callback; `XplProcess` returns |
| `procs` | 2 users on POSIX; 1 user, a child and 2 of its own on Windows | descriptors, handles and pids; exec, free and the join of a group return |
| `service` | 2 alarms and 1 user, or 2 handlers, main and 1 thread; a stack of 3 | handlers run once; main ends; alarms that wait are called |
| `alarm_cancel_fires` | the same | violation: a cancelled alarm fires |
| `library` | the smaller parts, one at a time | blocks, marks, names, strings, settings, listings, times, waits, numbers, Windows alarms, thread data; scheduled work is done |
| `win_read_blocks` | up to three bytes, numbers of 4 bits | violation: a read of a pipe that stays empty |

Bounds and why they are enough. `slab_pool`: two threads are enough for every pair
of sections to interleave (one grows while the other waits, frees or walks), two
slabs for the chain to have a head and a tail and for both threads to find memory
exhausted; clients ask for nodes while they have fewer than two, so that two
requests can empty a slab, and for one chunk at a time (`MaxHeld`, `MaxChunks`);
nothing keeps them from freeing. `rwlock`: two readers and a writer, or two
writers and a reader. `thread_pool`: two callers with stale values of `pending`,
three threads so that one is queued while two workers are between their steps; one
of the callers wraps and unwraps itself at any time between its calls, and
statistics that mistake one thread show with one. `MaxDepth` bounds the failed
creations (each locks `stats.lock` twice) and after one the pool may stop,
therefore no check for deadlock. `thread_life`: one start on its way while another
thread ends, in the same group or in the other, with the structure of the main
thread beside theirs; two groups, so that a freed one is allocated again as the
static group or main's. The run ends when main has shut the library down,
therefore no check for deadlock. `thread_signal`: three clients are one who
signals by handle, one by group and one who joins; the stack of 4 (16 in the code)
can be filled and refuse.

`agents`: two runners with one name in common, so that the second is refused or
waits for the first to leave; times of 1 to 5 polls keep the order of the code's
intervals (stop before kill before crawl), and the poll loop repeats itself
after that. `procs`: two users meet at `MTSem`; a pipe of one byte is full or
empty; the Windows child starts up to two, so that the job outlives it. Both
stop when memory ran out in `fork`'s section or a child waits for its parent,
therefore no check for deadlock. `service`: two alarms, one of which is due while
the other is created, destroyed or late, with delays of up to two seconds and
two calls; `Burst` of 1 leaves room on the stack of 3 for the signals of the
program itself (a full stack refuses them, see section 5); the program ends.
`library`: sizes from 1 to 16 with a page of 4 bytes have every pool, the first
and the last size of each, and huge blocks of one and of several pages;
patterns of four characters over texts of three, in two cases and with depth 3
(15 in the code), have two stars with a letter behind each, so that the second is
tried again below every place of the first; two opens by two callers are the
first and one beside it; a signal stack of one with three pieces of
work is full while others are scheduled; two sections of two items, of which the
file has up to three lines (`MaxLines`): one before and one behind the line that
a crash tears;
seconds of three microseconds; three names of which two match; one address for
two alarms, two timer numbers; two threads with three cancel points; pools of 1
and 3 bytes, so that a block grows in place and moves. Only main ends that
program, and most parts come to an end, therefore no check for deadlock.

Fairness. A thread that is inside the library keeps running (weak fairness of
its steps); callers owe nothing, except that whoever holds a read/write lock
releases it. Semaphores are fair to waiters (strong fairness of the waits of
`RWLock`; POSIX leaves the choice of the waiter open, the Linux futex queue is
first in, first out), and so are `processlock` and `MTSem`. Memory shortage is
transient for `AllocProgress`: `mmap` does not fail for ever (`_PoolAlloc`
retries without end). A system thread can be created at last. In `ThreadLife`
started threads are begun and return, which is what `SIGTERM` asks of them; main
owes nothing but to go on with a destruction it began. In `ThreadSignal` a
waiting thread gets a post at last although a join takes and returns it again
and again. `AllocProgress` does not claim more than the code gives: other
threads may take the node a caller was after, as long as they get on.

An agent that was killed dies, and a child that waits for nothing ends at last;
nothing else is asked of children. In `Service` time passes, a signal of the
system is delivered at last, the callbacks of alarms and handlers return, and a
program that was sent `SIGTERM` returns from `_XplMain`. In `MemLibrary` the
worker's thread runs, and a caller that has queued work goes on to signal it.

## 4. Proofs

Assumptions on constants are the named `ASSUME`s of the modules: finite sets, at
least one node in a slab, chunks of more than one node; a memory cell for a
handler is not `Null` (`HandlersAssumption`); sixteen sizes that grow, a page
larger than the overhead of a node (`SizesAssumption`); names for "none" that are
none of the set they stand beside, clocks with at least one unit in a second
(`LibraryAssumption`). TLC evaluates all of them.

`SlabPoolProofs`. `NodesExclusive` is not inductive: the invariant `IInv` adds
that each thread's local variables fit its place (what it has in its hands,
which slab it looks at), that an unmapped slab is empty, and that the lists of a
slab hold nodes of that slab only. Every action either moves nodes between two
places or leaves all of them; a lemma per kind of move says that this keeps
every node in one place, and a step per action says which move it is.
`ImplementsNodePool` follows because each move is a `Take`, `Return`, `Add` or
`Drain` of `NodePool`, or a stutter.

Three more invariants stand on `IInv`, each proved step by step in the same
module. *Counters*: `CountersSound` is inductive once a thread that pushes is
known to have one node in hand; lemmas count what `_GetNode` cuts and what a push
adds. *Callbacks*: `CallbackContract` needs to know where prepared nodes are
(free, or with a thread, never on an alloc list), that a node is `raw` or prepared
and never both, and that nothing is left of a pool that was destroyed. It has no
hypothesis: what the documents promise fails for the nodes of a chunk (section 5),
and the contract says of which nodes, and for how long. *Chain*:
`MEM_POOL_GROWING` makes one thread the only one between cutting a slab and the
end of its growth (`OneGrowsThePool`), so that what it has read of the head is
still the head when it links its slab there. `Reachable` is the least set of slabs
that contains the head and is closed under `next`, which is the walk of the code
and can be reasoned about: a new slab is nobody's next, and publishing it puts it
in front of what was reachable before.

`RWLockProofs`. `IInv` gives the value of each semaphore from the places of the
threads (who has the gate, who has the mutex, who excludes writers), and says
that `RWReaders` is the number of threads in the counted places. A step lemma
reduces each of the 20 actions to the move of one thread from one place to
another. `WritersAreNotOvertaken` is an action property from the same invariant:
a reader enters only with the gate in hand, and a writer that has it waits inside.

`ThreadPoolProofs`. `CountersSound` is nearly inductive; `IInv` adds that a thread
is queued exactly once, that `list` has no duplicates, that a caller's own thread
is in the stage its place requires, that who has wrapped itself may, and the bound
on workers in terms of queued threads and callers. The proofs count: lemmas say
how the cardinality of `At(S)` changes when one thread changes stage.

`ThreadSignalProofs`. `PostsAgree` counts who has a post or a signal in hand. It
is not inductive alone: a join that keeps its post would break it if the thread
could run again, so `IInv` adds `Roles`, which says who may be inside when the
handle is free, the thread has left its group or the structure is drained, and
that one actor drains it. A lemma per kind of step (push, post, take, pop) says
how the count moves. `SignalFound` and `CleanReuse` follow.

`ThreadLifeProofs`. The theorems have the hypothesis `Wrapped`: under `XplMain`
the main thread is wrapped before the program begins (`xplmain.c:596`) and
stays a member of the static group as long as it starts threads there. Without
it `GroupSafe` is false (section 5), and the invariant says where that comes in:
`Kept` is why a group that a start has in hand outlives the sections between
which no lock is held (it is main's own, or the starter's, or the static group
while main is in it), and `Static` is why the static group is not freed while it
has members (its last member alone is at the step that frees it). The other
parts of `IInv`: a structure is in its group's list, and in the global one,
according to its stage and to the place of the one thread that holds it
(`Membership`, `Listing`); a group's counter is the number of its members
(`Counting`); the consumers of a structure are its handle and the reference of
its own thread (`Refs`); no two threads have one structure in hand (`Exclusive`);
nothing happens before main is wrapped and nothing is left after the shutdown
(`First`, `Stopped`). `ThreadsAreFound` says that the assertions behind the three
searches of `_XplThreadDestroy` (`thread.c:674`, 688, 710) never fail.

`ProgramProofs`, agents. What a walker has in its hand is on the list, as it holds
`processlock` from finding it to leaving it (`LockHolds`), and an agent is on the
list exactly while its thread reads or is about to take it off (`ListHolds`).
So it has not been reaped and its handle is not free (`AgentsAreListed`), and a
flag is set before the handle's own thread reads it (`FlagsAreReported`): the
thread reads when it is off the list.

`ProgramProofs`, children: the two ports side by side, as `MCProcs` has them. On
POSIX the users meet at `MTSem` alone: its value is 1 unless a thread is between
its wait and its post, or left with it when `calloc` failed (`ForksAreExclusive`);
after that nobody forks, which is why one exec at most leaves its pipes behind.
Descriptors and the reaping of a child are its user's own business, step by step
through every failing call, but for the two that give the child up (`stray`). On
Windows `IInv` says what each step of the exec has open and that the port is
associated before the child can run, so that the message that ends a join of the
group is that of its last process (`JoinedGroupsHaveEnded`).

`ProgramProofs`, shutdown handlers. `HandlersSound` needs that the main thread has
a handler in hand just while it is in a callback: a handler leaves the list
before its callback runs, so that whatever the callback registers and cancels,
the cells in use are those of the list, each once, and that one. What a cancel
keeps is stated by the positions it keeps (`InOrder` of `Lists`), as it steps over
the handler behind each one it removes.

`LibraryProofs`. A step of `MCLibrary` is a step of one part and leaves the others
as they are (`OnePartMoves`), so that each part has an invariant of its own
(`tlapm` takes some twenty minutes on this module):

- `Atomics`: while a thread has the lock, the value it has read is the number.
- `WinAlarms`: what an alarm, a maker or a firing has for a timer exists
  (`TimersExist`), no two of them have the same one (`TimersApart`), and whoever is
  making an alarm either finds it listed without a timer or has lost it
  (`MakersKnow`).
- `ThreadData`: the slots are an invariant of their own; for the cancel points,
  the list has the points of all stacks, each on one stack, and a call has marked
  those it has passed in its walk.
- `Directories`: while a listing by pattern is read, what stayed is in it, is still
  to be read, or is the entry in hand (`StayedFound`); no name is read twice.
- `MemLibrary`: main opens first and closes last (`MainFirst`), and the count of
  uses is the number of callers between counting in and counting out
  (`UsesCounted`): whoever counts down to zero is main, alone.
- `NodeMarks`: a call that begins with `MMAssert` fails there only for a reason
  that is the owner's (`AssertFailsSoundly`); what the marks of the owner's node
  and of the node its call is about are, by the step of the call; all others are
  listed and marked free. The invariant holds until something is reported, and the
  report says what was wrong. Any pools and keys; `MarksAreSound`.
- `MemSizes`: a block is a node with all of its pool's bytes (`NodeIs`). One lemma
  per operation says what it keeps of the bytes: `FillIs`, `AllocIs`, `AllocExIs`
  (in place or moved), `AppendedIs`, `StrcatIs`, `PrintedIs`. The first zero of a
  string ends it, by the least element of the zeros (`UsedIs`). `SearchFits` says
  that the search in four comparisons finds the smallest pool for any sixteen
  sizes that grow.
- `TimedWait`: what a call hands to `sem_timedwait` is never past the end it has
  computed, nor, before an interruption, more than a second short of what was
  asked (`TimedIs`). `ClockIs` says by how much the clock that is read runs ahead.
- `Timers`: laps come to the time between start and last lap, and the total is at
  most as many times the longest as were counted. `BetweenIs` has the three ways
  to borrow a second, `DivideApart` the division of seconds and microseconds one
  after the other.

`ListLemmas` says what an insertion in front and the removal of a member do to
the members, the length and the order of a list without duplicates; all
modules with lists cite it.

Only model-checked: the liveness properties (`AllocProgress`, `GetsIn`,
`RunsWhileOthersStart`, `EveryThreadRuns`, `DestroyReturns`, `CatchReturns`,
`JoinReturns`, `AgentReturns`, `CallsReturn`, `MainReturns`, `AlarmsFire`,
`WorkDone`), which are beyond the proof system; and `TextSound`. There the matcher
and the fields of `Strings`, the quoting of a command line and the parser of
`CfgFile` are recursive functions and folds over the text, and what these compute
for every text needs induction over data, which is beyond it too. So every safety
property that a run checks is a theorem, but for that one.

## 5. What the models found

With a run that shows it:

- `thread.c:970` (`thread_orphan`): a worker that has popped its work still
  counts as idle, so that a caller creates none; if the workers then retire, the
  queued thread is never run. It is run as long as others are started
  (`RunsWhileOthersStart`).
- `xplalarm.c:371` (`alarm_cancel_fires`): the callback of an alarm that was
  copied before it was destroyed starts after `XplAlarmDestroy` has returned,
  which the cancel test calls a failure.
- `process.c:646` (`win_read_blocks`): `left` counts the same output twice, and
  `ReadFile` is called on the empty pipe of a child that has ended.

Stated in a module, and found with a cfg of a few lines:

- `slab.c:568`: a chunk cut from the alloc list is typed `NODE_TYPE_FREE`, so
  `MMChunkGet` never calls `prepareCB` on its nodes, which clients then use.
  `memmgr.html:170` promises the call. `MCSlabPool`: `HeldPrepared`.
- `thread.c:981-987`: after a failed `pthread_create`, `stats.lock` is acquired
  twice, `work.lock` is released without being held, and `stats.lock` stays
  owned: every worker and caller blocks. `MCThreadPool`: `StatsLockNotRecursive`.
- `thread.c:1187`: `XplThreadStart` without a group uses the static group after
  it released the lock that protects it; the last thread of the group frees it.
  A program whose main thread is wrapped does not meet this. `MCThreadLife` with
  `Wrapped = FALSE`: `GroupSafe`.
- `thread.c:1404`: a reused structure keeps the id of its former worker, so that
  `XplGetThread` may return a thread that was just started instead of the
  caller's. `MCThreadLife` with `Workers <- MCOneWorker`, `MaxStarts = 3`:
  `CurrentIsMine`.
- `thread.c:1615`: a join keeps the post it took when the thread has ended; a
  second join without a timeout waits for ever. `MCThreadSignal` with
  `JoinOnce = FALSE` and a stack of 2: `JoinReturns`.
- `procunix.c:361`: `XplProcFree` joins once, and an interrupted `waitpid` lets
  it go on to close the pipes and free the handle of a child that runs, though
  `procunix.c:546` says that it blocks. `ProcUnix`: `FreeBlocks`.

Seen while translating; the model does what the code does, or leaves the case
out where its outcome is undefined:

- *Memory.* `MMSprintf` compares what was written with the buffer instead of what
  was needed, and returns an empty string for 200 characters and more. A huge
  block may be unmapped a page short (`slab.c:735`, 1703). `MMSize` and
  `MMStrcatv` take `hugeLink` of a huge block for its pool (1851). A block that
  shrinks in place and asks for zeros clears a negative length (1779). An open
  after the last close waits for ever, as `initState` is never reset (1380), and
  `initState` is a plain `int`. A full signal stack loses the signal to the memory
  worker (1038): from then on one piece of work, the last of the queue, waits for
  a signal that is never sent, and one more for each such loss. An element larger
  than its pool's pages leaves no room for a node (2067).
- *Marks.* A validation that meets a call half done fails its assertion without
  cause, as does one that meets queued work, which is watched (`thread.c:959`);
  one of all pools fails with any huge block, which lies in no slab (939), and
  never reaches the last four sizes (2162).
  `MMSize` replaces a trail without a look at it. `MMAssert` fails for an empty
  block, and so do `MMLock` and `MMUnlock`. A broken trail of a free node, and of a
  watched one, is reported as an underwrite.
- *Threads.* A thread with its own stack size that cannot be created while its
  group is destroyed stays linked, and `XplThreadGroupDestroy` polls for ever
  (955, 1076). `XplThreadWrap` counts its thread in `active` but not in `total`. A
  timed wait may end up to a second early (284); interrupted, it computes what is
  left from microseconds and may last a thousand times too long or end at once
  (280, 302). `XplThreadTerminated` catches whatever signal is next and drops it
  unless it is `SIGTERM` (1741). `XplThreadShutdown` destroys the semaphore that
  idle workers wait on (646). The first `XplThreadGroupCreate` races with others
  to initialize the library (583-597). A name that is registered is stored as the
  caller's pointer, and the copy leaks (1798); the header says 0 is returned, the
  code returns the slot. Data of a slot outlives the thread. `XplCancelThread`
  sets `cancelled` before the context that the owner reads without the lock.
- *Atomic numbers.* The header speaks of 32 bits, the type has 64. On Windows
  `XplSafeAdd` returns the old value, and `And` and `Or` are not atomic without
  `INTERLOCKED_AND_OR`. `RWMode` is overwritten after a writer was let in
  (`rwlock.c:134`); nothing reads it.
- *Alarms.* `XplAlarmCreate` prepares the tick without the lock (466); a tick that
  the stack refuses is not sent again (323); alarms that are created often enough
  put off the tick for ever; `XplAlarmInit` and `XplAlarmShutdown` of two threads
  race for the lock they initialize and destroy (432-440). `XplAlarmDestroy` by
  an address that was reused destroys the other alarm. On Windows a timer whose
  alarm is destroyed before its handle is stored runs on.
- *Main program.* `XplOnShutdownCancel` steps over the handler behind one it has
  removed, though `xplservice.h:45-47` lets it remove all that match. The final
  `SIGTERM` to the signal thread is refused by a full stack, and main joins for
  ever (610). A callback registered after `XplHandleShutdown` is never called.
  `XPLSignalProcessor` takes locks that the interrupted thread may hold (655).
  `SIGALRM` kills a program that has set no signal handler.
- *Children.* `XplProcExec` keeps `MTSem`, the child and the descriptors when
  memory runs out (`procunix.c:176`): no later exec returns. `XplProcFree` joins
  before it closes the pipes, and waits for a child that waits for it.
  `XplCreateDetachedProcess` has parent and child exchanged (`process.c:993`,
  1008). `XplProcExecDetached` returns 0 when `fork` fails. `XplSignalProcess`
  clears `start` (955), which the poll loop has already copied (119).
  `XplPollProcess` does not end on `ECHILD`. `XplWaitAgent` reports an agent ended
  that has merely closed its output. Failing execs leak handles on Windows
  (`procwin.c:419-490`). `WinAgent`: `used` is kept when no part of a line stays,
  and prefixes the next output with old bytes.
- *Strings.* `?` behind a star, as in `*?`, matches one character and no more. A
  star with a space behind it is a literal. `nextfieldex` steps behind the
  terminator after a trailing escape, and returns NULL for an empty field in the
  middle of a line, as it does when there is none: who reads until NULL stops there.
- *Settings.* Comments do not set `changed`. A flush clears it even when the file
  cannot be opened or written. A crash between the truncation and the last line
  loses the settings behind it, and may leave the beginning of a value as if it
  were the value. An unnamed section that is not the first merges with the
  one before, and so does a second section of the same name. Lines of more than
  255 characters are split.
- *Times.* The first time is counted, and not added to the total. A sum or a stop
  may leave a whole second of microseconds. Windows puts milliseconds where
  microseconds belong.
- *Directories.* On Linux `XplOpenDirMatch` never sets the base of its entries,
  and closing frees none; a failed allocation ends the listing without a word. On
  Windows the search handle is never closed. `XReadDir` shows the data of the
  entry before when a file vanished.

## 6. Not modelled

- Memory pools: dumps and statistics, which only read (`_DumpPool` does so without
  the lists' locks); private pools locked for a dump, as no build defines
  `DUMP_PRIVATE_POOL`; enumeration, which is empty.
- The start of the thread library; on Windows the service main
  (`xplmain.c:181-540`), `XplPollProcess`, the search for an executable, and reads
  and writes of a child's pipes: system calls with their error codes.
- `fsys.c`: one system call per function, and a library of files for Solaris whose
  types `XPLFILE` and `FIOBUFSIZE` are declared nowhere.
- `err.c`, `ctypes.c`, `elf.c`, `auth.c`, `wrap.c`, `xpllog.c`, `XGetopt.c`, the
  CPU sampler: tables, formatting and I/O. `ErrorLog` returns with its mutex held
  when `MemMalloc` fails, and `XplConsoleToFile` with its lock when `fopen` does.
- The allocators that stand in for `slab.c` in other builds, `XplMakePath`, and
  the conversion of times and sizes in settings.

## 7. What is left

`TextSound` beyond the bounds of its run: `PatternSound` and `ReadsBack` by
induction over the text, `CfgSound` by induction over the lines of the file. And
the liveness properties, which want a proof by well-founded measures on the
places of the threads: how many of a pool's nodes others can take before a
caller gets one (`AllocProgress`), who is in front at the gate (`GetsIn`), which
members of a group are still to end (`DestroyReturns`).
