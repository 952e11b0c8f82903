------------------------------- MODULE RWLock -------------------------------
(***************************************************************************)
(* XplRWLock of src/xpl/rwlock.c: a read/write lock made of three          *)
(* semaphores and a count of readers.  Writers keep the semaphore RWLock   *)
(* while they wait and write; readers only pass through it, so that a      *)
(* waiting writer holds back the readers that come after it.               *)
(*                                                                         *)
(* A step ends where the code waits on or posts a semaphore.  RWState is   *)
(* read once, when a call starts; RWReaders is only touched under          *)
(* RWMutexRead; RWMode is written outside of the semaphores, too.          *)
(* XplSemaPost does not fail on an initialized semaphore.                  *)
(***************************************************************************)
EXTENDS Integers, FiniteSets

CONSTANT Threads

ASSUME ThreadsAssumption == IsFiniteSet(Threads)

VARIABLES
  RWState,            \* the RWLOCK_INITIALIZED flag
  RWMode,             \* "READ" or "WRITE"
  RWReaders,          \* the count of readers
  RWLock,             \* values of the three semaphores
  RWMutexRead,
  RWMutexReadWrite,
  pc                  \* where each thread is

semas == <<RWLock, RWMutexRead, RWMutexReadWrite>>
vars  == <<RWState, RWMode, RWReaders, semas, pc>>

Move(t, from, to) == pc[t] = from /\ pc' = [pc EXCEPT ![t] = to]

Init == /\ RWState = TRUE
        /\ RWMode = "READ"
        /\ RWReaders = 0
        /\ RWLock = 1 /\ RWMutexRead = 1 /\ RWMutexReadWrite = 1
        /\ pc = [t \in Threads |-> "idle"]
-----------------------------------------------------------------------------
(* XplRWReadLockAcquire *)

ReadLockAcquire(t) ==
  /\ RWState
  /\ Move(t, "idle", "r_gate")
  /\ UNCHANGED <<RWState, RWMode, RWReaders, semas>>

\* Mutant: the reader does not wait for RWLock, though it posts it.
ReadGateOpen(t) ==
  /\ Move(t, "r_gate", "r_mutex")
  /\ UNCHANGED <<RWState, RWMode, RWReaders, semas>>

ReadGate(t) ==
  /\ Move(t, "r_gate", "r_post")
  /\ RWLock > 0
  /\ RWLock' = RWLock - 1
  /\ UNCHANGED <<RWState, RWMode, RWReaders, RWMutexRead, RWMutexReadWrite>>

\* Mutant: the reader keeps RWLock.
ReadPassShut(t) ==
  /\ Move(t, "r_post", "r_mutex")
  /\ UNCHANGED <<RWState, RWMode, RWReaders, semas>>

ReadPass(t) ==
  /\ Move(t, "r_post", "r_mutex")
  /\ RWLock' = RWLock + 1
  /\ UNCHANGED <<RWState, RWMode, RWReaders, RWMutexRead, RWMutexReadWrite>>

\* Mutant: RWReaders is compared before it is incremented.
ReadCountLate(t) ==
  /\ Move(t, "r_mutex", IF RWReaders = 1 THEN "r_first" ELSE "r_mode")
  /\ RWMutexRead > 0
  /\ RWMutexRead' = RWMutexRead - 1
  /\ RWReaders' = RWReaders + 1
  /\ UNCHANGED <<RWState, RWMode, RWLock, RWMutexReadWrite>>

ReadCount(t) ==
  /\ Move(t, "r_mutex", IF RWReaders + 1 = 1 THEN "r_first" ELSE "r_mode")
  /\ RWMutexRead > 0
  /\ RWMutexRead' = RWMutexRead - 1
  /\ RWReaders' = RWReaders + 1
  /\ UNCHANGED <<RWState, RWMode, RWLock, RWMutexReadWrite>>

\* The first reader keeps writers out for all; it waits with RWMutexRead.
ReadFirst(t) ==
  /\ Move(t, "r_first", "r_mode")
  /\ RWMutexReadWrite > 0
  /\ RWMutexReadWrite' = RWMutexReadWrite - 1
  /\ UNCHANGED <<RWState, RWMode, RWReaders, RWLock, RWMutexRead>>

ReadEnter(t) ==
  /\ Move(t, "r_mode", "reading")
  /\ RWMode' = "READ"
  /\ RWMutexRead' = RWMutexRead + 1
  /\ UNCHANGED <<RWState, RWReaders, RWLock, RWMutexReadWrite>>
-----------------------------------------------------------------------------
(* XplRWReadLockRelease *)

ReadLockRelease(t) ==
  /\ RWState
  /\ Move(t, "reading", "rr_mutex")
  /\ UNCHANGED <<RWState, RWMode, RWReaders, semas>>

ReadUncount(t) ==
  /\ Move(t, "rr_mutex", IF RWReaders - 1 = 0 THEN "rr_last" ELSE "rr_mode")
  /\ RWMutexRead > 0
  /\ RWMutexRead' = RWMutexRead - 1
  /\ RWReaders' = RWReaders - 1
  /\ UNCHANGED <<RWState, RWMode, RWLock, RWMutexReadWrite>>

ReadLast(t) ==
  /\ Move(t, "rr_last", "rr_mode")
  /\ RWMutexReadWrite' = RWMutexReadWrite + 1
  /\ UNCHANGED <<RWState, RWMode, RWReaders, RWLock, RWMutexRead>>

\* RWMode is set after RWMutexReadWrite was posted, when a writer may be in.
ReadLeave(t) ==
  /\ Move(t, "rr_mode", "idle")
  /\ RWMode' = "READ"
  /\ RWMutexRead' = RWMutexRead + 1
  /\ UNCHANGED <<RWState, RWReaders, RWLock, RWMutexReadWrite>>
-----------------------------------------------------------------------------
(* XplRWWriteLockAcquire and XplRWWriteLockRelease *)

WriteLockAcquire(t) ==
  /\ RWState
  /\ Move(t, "idle", "w_gate")
  /\ UNCHANGED <<RWState, RWMode, RWReaders, semas>>

WriteGate(t) ==
  /\ Move(t, "w_gate", "w_excl")
  /\ RWLock > 0
  /\ RWLock' = RWLock - 1
  /\ UNCHANGED <<RWState, RWMode, RWReaders, RWMutexRead, RWMutexReadWrite>>

WriteExclude(t) ==
  /\ Move(t, "w_excl", "w_mode")
  /\ RWMutexReadWrite > 0
  /\ RWMutexReadWrite' = RWMutexReadWrite - 1
  /\ UNCHANGED <<RWState, RWMode, RWReaders, RWLock, RWMutexRead>>

WriteEnter(t) ==
  /\ Move(t, "w_mode", "writing")
  /\ RWMode' = "WRITE"
  /\ UNCHANGED <<RWState, RWReaders, semas>>

\* XplRWWriteLockRelease up to the first post.
WriteLockRelease(t) ==
  /\ RWState
  /\ Move(t, "writing", "wr_gate")
  /\ RWMutexReadWrite' = RWMutexReadWrite + 1
  /\ UNCHANGED <<RWState, RWMode, RWReaders, RWLock, RWMutexRead>>

WriteLeave(t) ==
  /\ Move(t, "wr_gate", "idle")
  /\ RWLock' = RWLock + 1
  /\ UNCHANGED <<RWState, RWMode, RWReaders, RWMutexRead, RWMutexReadWrite>>
-----------------------------------------------------------------------------
\* XplRWLockDestroy acquires the lock for writing and voids it; its callers
\* owe it that nobody is inside or at the gate.  Calls made from then on are
\* refused by the test of RWState.
Destroy ==
  /\ RWState
  /\ \A t \in Threads : pc[t] = "idle"
  /\ RWState' = FALSE
  /\ RWMode' = "WRITE"
  /\ RWLock' = RWLock - 1
  /\ RWMutexReadWrite' = RWMutexReadWrite - 1
  /\ UNCHANGED <<RWReaders, RWMutexRead, pc>>

\* XplRWLockInit on a lock that was destroyed.
Reinit ==
  /\ ~RWState
  /\ RWState' = TRUE
  /\ RWReaders' = 0
  /\ RWLock' = 1 /\ RWMutexRead' = 1 /\ RWMutexReadWrite' = 1
  /\ UNCHANGED <<RWMode, pc>>
-----------------------------------------------------------------------------
Waits(t) == \/ ReadGate(t) \/ ReadCount(t) \/ ReadFirst(t) \/ ReadUncount(t)
            \/ WriteGate(t) \/ WriteExclude(t)

Runs(t) == \/ ReadPass(t) \/ ReadEnter(t) \/ ReadLast(t) \/ ReadLeave(t)
           \/ WriteEnter(t) \/ WriteLeave(t)

Calls(t) == ReadLockAcquire(t) \/ WriteLockAcquire(t)

Releases(t) == ReadLockRelease(t) \/ WriteLockRelease(t)

Next == \/ \E t \in Threads : Waits(t) \/ Runs(t) \/ Calls(t) \/ Releases(t)
        \/ Destroy
        \/ Reinit

\* A thread that can run does; a waiter gets a semaphore that becomes free
\* again and again; whoever holds the lock releases it.
Fairness == \A t \in Threads : /\ WF_vars(Runs(t))
                               /\ WF_vars(Releases(t))
                               /\ SF_vars(Waits(t))

Spec == Init /\ [][Next]_vars

FairSpec == Spec /\ Fairness
-----------------------------------------------------------------------------
(* Properties *)

Place == {"idle", "r_gate", "r_post", "r_mutex", "r_first", "r_mode", "reading",
          "rr_mutex", "rr_last", "rr_mode", "w_gate", "w_excl", "w_mode", "writing",
          "wr_gate"}

\* The semaphores stay binary: a post too many would let a second writer, or
\* a second counter of readers, in (rwlock.c:46-48).
TypeOK == /\ RWState \in BOOLEAN
          /\ RWMode \in {"READ", "WRITE"}
          /\ RWReaders \in 0..Cardinality(Threads)
          /\ RWLock \in {0, 1} /\ RWMutexRead \in {0, 1} /\ RWMutexReadWrite \in {0, 1}
          /\ pc \in [Threads -> Place]

In(P) == {t \in Threads : pc[t] \in P}

\* The threads that RWReaders counts.
Counted == {"r_first", "r_mode", "reading", "rr_mutex"}

\* A writer is alone from the moment it has RWMutexReadWrite to the moment it
\* posts it, counting readers that are on their way in or out, and RWReaders
\* counts exactly the readers (rwlock.c:82-86, 104-106, 124-126).
Exclusion ==
  /\ \A t, u \in In({"w_mode", "writing"}) : t = u
  /\ In({"w_mode", "writing"}) # {} => In({"r_mode", "reading", "rr_mutex", "rr_last"}) = {}
  /\ RWReaders = Cardinality(In(Counted))

\* The lock does what ReadersWriters says.
Abstract == INSTANCE ReadersWriters
              WITH readers <- In({"reading"}), writers <- In({"writing"})
ReadersWritersSpec == Abstract!Spec

\* A reader that calls while a writer waits does not overtake it: no reader
\* gets from its call to RWMutexRead while a writer has RWLock
\* (rwlock.c:77-78, 104-105).
NoBarging ==
  [][\A t, w \in Threads :
       pc[w] = "w_excl" /\ pc'[w] = "w_excl" =>
         ~(pc[t] \in {"r_gate", "r_post"} /\ pc'[t] = "r_mutex")]_vars

\* Nobody starves: readers by a stream of writers, writers by one of readers,
\* as long as holders release the lock.
GetsIn ==
  \A t \in Threads : /\ pc[t] = "r_gate" ~> pc[t] = "reading"
                     /\ pc[t] = "w_gate" ~> pc[t] = "writing"
=============================================================================
