---------------------------- MODULE RWLockProofs ----------------------------
(***************************************************************************)
(* RWLock excludes for any finite set of threads: each semaphore is 0      *)
(* exactly while some thread is past its wait and before its post, and     *)
(* RWReaders is the number of readers.                                     *)
(***************************************************************************)
EXTENDS RWLock, FiniteSetTheorems, TLAPS

\* Where a thread is between a wait on and the post of a semaphore.
HasGate  == {"r_post", "w_excl", "w_mode", "writing", "wr_gate"}
HasMutex == {"r_first", "r_mode", "rr_last", "rr_mode"}
Writer   == {"w_mode", "writing"}
Reader   == {"r_mode", "reading", "rr_mutex", "rr_last"}

PlaceOK == RWState \in BOOLEAN /\ RWMode \in {"READ", "WRITE"} /\ pc \in [Threads -> Place]

GateOK == /\ \A t, u \in Threads : pc[t] \in HasGate /\ pc[u] \in HasGate => t = u
          /\ RWLock = IF ~RWState \/ \E t \in Threads : pc[t] \in HasGate THEN 0 ELSE 1

MutexOK == /\ \A t, u \in Threads : pc[t] \in HasMutex /\ pc[u] \in HasMutex => t = u
           /\ RWMutexRead = IF \E t \in Threads : pc[t] \in HasMutex THEN 0 ELSE 1

\* The readers hold RWMutexReadWrite together.
ExclOK == /\ RWMutexReadWrite =
               IF ~RWState \/ \E t \in Threads : pc[t] \in Writer \cup Reader THEN 0 ELSE 1
          /\ \A t, u \in Threads : ~(pc[t] \in Writer /\ pc[u] \in Reader)

\* Who waits to keep writers out is the only reader; who is about to let them
\* in was the last.
CountOK == /\ RWReaders = Cardinality(In(Counted))
           /\ \A t, u \in Threads : pc[t] = "r_first" /\ pc[u] \in Counted => u = t
           /\ \A t, u \in Threads : ~(pc[t] = "rr_last" /\ pc[u] \in Counted)

Voided == ~RWState => \A t \in Threads : pc[t] = "idle"

IInv == PlaceOK /\ GateOK /\ MutexOK /\ ExclOK /\ CountOK /\ Voided
-----------------------------------------------------------------------------
LEMMA InFinite == \A P : IsFiniteSet(In(P)) /\ Cardinality(In(P)) \in 0..Cardinality(Threads)
  <1>1. ASSUME NEW P
        PROVE  IsFiniteSet(In(P)) /\ Cardinality(In(P)) \in 0..Cardinality(Threads)
    <2>1. In(P) \in SUBSET Threads
      BY DEF In
    <2>2. IsFiniteSet(In(P)) /\ Cardinality(In(P)) <= Cardinality(Threads)
      BY <2>1, ThreadsAssumption, FS_Subset
    <2>. QED
      BY <2>2, ThreadsAssumption, FS_CardinalityType
  <1>. QED
    BY <1>1

\* What comparing the count with 0 and 1 tells about the readers.
LEMMA SmallSets ==
  ASSUME NEW S, IsFiniteSet(S)
  PROVE  /\ Cardinality(S) \in Nat
         /\ Cardinality(S) = 0 <=> S = {}
         /\ Cardinality(S) = 1 => \A x, y \in S : x = y
         /\ \A x \in S : Cardinality(S) # 1 => \E y \in S : y # x
  <1>1. Cardinality(S) \in Nat /\ (Cardinality(S) = 0 <=> S = {})
    BY FS_CardinalityType, FS_EmptySet
  <1>2. Cardinality(S) = 1 => \A x, y \in S : x = y
    BY FS_Singleton
  <1>3. ASSUME NEW x \in S, \A y \in S : y = x
        PROVE  Cardinality(S) = 1
    <2>1. S = {x}
      BY <1>3
    <2>. QED
      BY <2>1, FS_Singleton
  <1>. QED
    BY <1>1, <1>2, <1>3

\* What the count becomes when one thread comes or goes.
LEMMA CountStep ==
  ASSUME NEW t \in Threads, pc' \in [Threads -> Place], pc \in [Threads -> Place],
         \A u \in Threads \ {t} : pc'[u] = pc[u]
  PROVE  Cardinality(In(Counted)') =
           Cardinality(In(Counted))
           + (IF pc[t] \notin Counted /\ pc'[t] \in Counted THEN 1 ELSE 0)
           - (IF pc[t] \in Counted /\ pc'[t] \notin Counted THEN 1 ELSE 0)
  <1>0. IsFiniteSet(In(Counted)) /\ Cardinality(In(Counted)) \in Nat
    BY InFinite, FS_CardinalityType
  <1>1. CASE pc[t] \notin Counted /\ pc'[t] \in Counted
    <2>1. In(Counted)' = In(Counted) \cup {t} /\ t \notin In(Counted)
      BY <1>1 DEF In
    <2>2. Cardinality(In(Counted) \cup {t}) = Cardinality(In(Counted)) + 1
      BY <1>0, <2>1, FS_AddElement
    <2>. QED
      BY <1>0, <1>1, <2>1, <2>2
  <1>2. CASE pc[t] \in Counted /\ pc'[t] \notin Counted
    <2>1. In(Counted)' = In(Counted) \ {t} /\ t \in In(Counted)
      BY <1>2 DEF In
    <2>2. Cardinality(In(Counted) \ {t}) = Cardinality(In(Counted)) - 1
      BY <1>0, <2>1, FS_RemoveElement
    <2>. QED
      BY <1>0, <1>2, <2>1, <2>2
  <1>3. CASE pc[t] \in Counted <=> pc'[t] \in Counted
    <2>1. In(Counted)' = In(Counted)
      BY <1>3 DEF In
    <2>. QED
      BY <1>0, <1>3, <2>1
  <1>. QED
    BY <1>1, <1>2, <1>3
-----------------------------------------------------------------------------
LEMMA InitIInv == Init => IInv
  <1>. SUFFICES ASSUME Init PROVE IInv
    OBVIOUS
  <1>1. PlaceOK /\ GateOK /\ MutexOK /\ ExclOK /\ Voided
    BY DEF Init, PlaceOK, GateOK, MutexOK, ExclOK, Voided, Place, HasGate, HasMutex,
           Writer, Reader
  <1>2. CountOK
    <2>1. In(Counted) = {}
      BY DEF Init, In, Counted
    <2>. QED
      BY <2>1, FS_EmptySet DEF Init, CountOK, Counted
  <1>. QED
    BY <1>1, <1>2 DEF IInv

\* What the step of a thread from place a to place b has to show: that the
\* semaphores follow.
LEMMA ThreadStep ==
  ASSUME IInv, NEW t \in Threads, NEW a \in Place, NEW b \in Place, Move(t, a, b),
         RWState, RWState' = RWState, RWMode' \in {"READ", "WRITE"},
         RWReaders' = RWReaders + (IF a \notin Counted /\ b \in Counted THEN 1 ELSE 0)
                                - (IF a \in Counted /\ b \notin Counted THEN 1 ELSE 0),
         RWLock' = RWLock + (IF a \in HasGate /\ b \notin HasGate THEN 1 ELSE 0)
                          - (IF a \notin HasGate /\ b \in HasGate THEN 1 ELSE 0),
         a \notin HasGate /\ b \in HasGate => RWLock > 0,
         RWMutexRead' = RWMutexRead + (IF a \in HasMutex /\ b \notin HasMutex THEN 1 ELSE 0)
                                    - (IF a \notin HasMutex /\ b \in HasMutex THEN 1 ELSE 0),
         a \notin HasMutex /\ b \in HasMutex => RWMutexRead > 0,
         ExclOK',
         b = "r_first" => \A u \in Threads \ {t} : pc[u] \notin Counted,
         b = "rr_last" => \A u \in Threads \ {t} : pc[u] \notin Counted,
         a \notin Counted /\ b \in Counted =>
           \A u \in Threads \ {t} : pc[u] \notin {"r_first", "rr_last"}
  PROVE  IInv'
  <1>0. /\ pc[t] = a /\ pc'[t] = b
        /\ \A u \in Threads \ {t} : pc'[u] = pc[u]
        /\ pc' \in [Threads -> Place] /\ pc \in [Threads -> Place]
    BY DEF Move, IInv, PlaceOK
  <1>1. PlaceOK' /\ Voided'
    BY <1>0 DEF IInv, PlaceOK, Voided
  <1>2. GateOK'
    BY <1>0 DEF IInv, GateOK
  <1>3. MutexOK'
    BY <1>0 DEF IInv, MutexOK
  <1>4. CountOK'
    <2>1. RWReaders' = Cardinality(In(Counted)')
      <3>1. Cardinality(In(Counted)) \in Nat
        BY InFinite, FS_CardinalityType
      <3>. QED
        BY <3>1, <1>0, CountStep DEF IInv, CountOK
    <2>2. "r_first" \in Counted /\ "rr_last" \notin Counted
      BY DEF Counted
    <2>. QED
      BY <2>1, <2>2, <1>0 DEF IInv, CountOK
  <1>. QED
    BY <1>1, <1>2, <1>3, <1>4 DEF IInv

\* What a thread learns from the values it reads.
LEMMA Learns ==
  ASSUME IInv
  PROVE  /\ RWMutexRead > 0 => \A u \in Threads : pc[u] \notin HasMutex
         /\ RWMutexReadWrite > 0 => \A u \in Threads : pc[u] \notin Writer \cup Reader
         /\ RWReaders \in Nat
         /\ RWReaders = 0 => \A u \in Threads : pc[u] \notin Counted
         /\ RWReaders # 0 => \E u \in Threads : pc[u] \in Counted
         /\ \A t \in Threads : pc[t] \in Counted /\ RWReaders = 1 =>
              \A u \in Threads \ {t} : pc[u] \notin Counted
         /\ \A t \in Threads : pc[t] \in Counted /\ RWReaders # 1 =>
              \E u \in Threads \ {t} : pc[u] \in Counted
  <1>1. /\ RWMutexRead > 0 => \A u \in Threads : pc[u] \notin HasMutex
        /\ RWMutexReadWrite > 0 => \A u \in Threads : pc[u] \notin Writer \cup Reader
    BY DEF IInv, MutexOK, ExclOK
  <1>2. \A u \in Threads : u \in In(Counted) <=> pc[u] \in Counted
    BY DEF In
  <1>3. In(Counted) \subseteq Threads
    BY DEF In
  <1>4. RWReaders = Cardinality(In(Counted))
    BY DEF IInv, CountOK
  <1>5. /\ RWReaders \in Nat
        /\ RWReaders = 0 <=> In(Counted) = {}
        /\ RWReaders = 1 => \A x, y \in In(Counted) : x = y
        /\ \A x \in In(Counted) : RWReaders # 1 => \E y \in In(Counted) : y # x
    BY <1>4, InFinite, SmallSets
  <1>. QED
    BY <1>1, <1>2, <1>3, <1>5

\* One step per action of a thread: its guard and the invariant give what
\* ThreadStep asks for.
LEMMA ThreadSteps ==
  ASSUME IInv, NEW t \in Threads, Waits(t) \/ Runs(t) \/ Calls(t) \/ Releases(t)
  PROVE  IInv'
  <1>. USE DEF semas
  <1>0. /\ PlaceOK /\ ExclOK /\ MutexOK /\ CountOK
        /\ pc[t] # "idle" => RWState
        /\ RWLock \in {0, 1} /\ RWMutexRead \in {0, 1} /\ RWMutexReadWrite \in {0, 1}
        /\ RWReaders \in Nat
    BY Learns DEF IInv, Voided, GateOK, MutexOK, ExclOK
  <1>. DEFINE Same == \A u \in Threads \ {t} : pc'[u] = pc[u]
  <1>1. CASE ReadLockAcquire(t)
    <2>1. /\ Move(t, "idle", "r_gate") /\ RWState /\ RWState' = RWState
          /\ pc[t] = "idle" /\ pc'[t] = "r_gate" /\ Same
      BY <1>0, <1>1 DEF ReadLockAcquire, Move, PlaceOK
    <2>2. ExclOK'
      BY <1>0, <1>1, <2>1, Learns DEF ReadLockAcquire, ExclOK, Writer, Reader
    <2>. QED
      BY <1>0, <1>1, <2>1, <2>2, Learns, ThreadStep
      DEF ReadLockAcquire, PlaceOK, MutexOK, CountOK, Place, HasGate, HasMutex, Counted
  <1>2. CASE ReadGate(t)
    <2>1. /\ Move(t, "r_gate", "r_post") /\ RWState /\ RWState' = RWState
          /\ pc[t] = "r_gate" /\ pc'[t] = "r_post" /\ Same
      BY <1>0, <1>2 DEF ReadGate, Move, PlaceOK
    <2>2. ExclOK'
      BY <1>0, <1>2, <2>1, Learns DEF ReadGate, ExclOK, Writer, Reader
    <2>. QED
      BY <1>0, <1>2, <2>1, <2>2, Learns, ThreadStep
      DEF ReadGate, PlaceOK, MutexOK, CountOK, Place, HasGate, HasMutex, Counted
  <1>3. CASE ReadPass(t)
    <2>1. /\ Move(t, "r_post", "r_mutex") /\ RWState /\ RWState' = RWState
          /\ pc[t] = "r_post" /\ pc'[t] = "r_mutex" /\ Same
      BY <1>0, <1>3 DEF ReadPass, Move, PlaceOK
    <2>2. ExclOK'
      BY <1>0, <1>3, <2>1, Learns DEF ReadPass, ExclOK, Writer, Reader
    <2>. QED
      BY <1>0, <1>3, <2>1, <2>2, Learns, ThreadStep
      DEF ReadPass, PlaceOK, MutexOK, CountOK, Place, HasGate, HasMutex, Counted
  <1>4. CASE ReadFirst(t)
    <2>1. /\ Move(t, "r_first", "r_mode") /\ RWState /\ RWState' = RWState
          /\ pc[t] = "r_first" /\ pc'[t] = "r_mode" /\ Same
      BY <1>0, <1>4 DEF ReadFirst, Move, PlaceOK
    <2>2. ExclOK'
      BY <1>0, <1>4, <2>1, Learns DEF ReadFirst, ExclOK, Writer, Reader
    <2>. QED
      BY <1>0, <1>4, <2>1, <2>2, Learns, ThreadStep
      DEF ReadFirst, PlaceOK, MutexOK, CountOK, Place, HasGate, HasMutex, Counted
  <1>5. CASE ReadEnter(t)
    <2>1. /\ Move(t, "r_mode", "reading") /\ RWState /\ RWState' = RWState
          /\ pc[t] = "r_mode" /\ pc'[t] = "reading" /\ Same
      BY <1>0, <1>5 DEF ReadEnter, Move, PlaceOK
    <2>2. ExclOK'
      BY <1>0, <1>5, <2>1, Learns DEF ReadEnter, ExclOK, Writer, Reader
    <2>. QED
      BY <1>0, <1>5, <2>1, <2>2, Learns, ThreadStep
      DEF ReadEnter, PlaceOK, MutexOK, CountOK, Place, HasGate, HasMutex, Counted
  <1>6. CASE ReadLockRelease(t)
    <2>1. /\ Move(t, "reading", "rr_mutex") /\ RWState /\ RWState' = RWState
          /\ pc[t] = "reading" /\ pc'[t] = "rr_mutex" /\ Same
      BY <1>0, <1>6 DEF ReadLockRelease, Move, PlaceOK
    <2>2. ExclOK'
      BY <1>0, <1>6, <2>1, Learns DEF ReadLockRelease, ExclOK, Writer, Reader
    <2>. QED
      BY <1>0, <1>6, <2>1, <2>2, Learns, ThreadStep
      DEF ReadLockRelease, PlaceOK, MutexOK, CountOK, Place, HasGate, HasMutex, Counted
  <1>7. CASE ReadLast(t)
    <2>1. /\ Move(t, "rr_last", "rr_mode") /\ RWState /\ RWState' = RWState
          /\ pc[t] = "rr_last" /\ pc'[t] = "rr_mode" /\ Same
      BY <1>0, <1>7 DEF ReadLast, Move, PlaceOK
    <2>2. ExclOK'
      <3>1. \A u \in Threads \ {t} : pc[u] \notin Counted /\ pc[u] \notin HasMutex
        BY <1>0, <2>1 DEF CountOK, MutexOK, HasMutex
      <3>2. \A u \in Threads : pc[u] \notin Writer
        BY <1>0, <2>1 DEF ExclOK, Reader
      <3>3. \A u \in Threads : pc'[u] \notin Writer \cup Reader
        BY <2>1, <3>1, <3>2 DEF Counted, HasMutex, Writer, Reader
      <3>4. RWMutexReadWrite = 0
        BY <1>0, <2>1 DEF ExclOK, Reader
      <3>. QED
        BY <1>7, <2>1, <3>3, <3>4 DEF ReadLast, ExclOK
    <2>. QED
      BY <1>0, <1>7, <2>1, <2>2, Learns, ThreadStep
      DEF ReadLast, PlaceOK, MutexOK, CountOK, Place, HasGate, HasMutex, Counted
  <1>8. CASE ReadLeave(t)
    <2>1. /\ Move(t, "rr_mode", "idle") /\ RWState /\ RWState' = RWState
          /\ pc[t] = "rr_mode" /\ pc'[t] = "idle" /\ Same
      BY <1>0, <1>8 DEF ReadLeave, Move, PlaceOK
    <2>2. ExclOK'
      BY <1>0, <1>8, <2>1, Learns DEF ReadLeave, ExclOK, Writer, Reader
    <2>. QED
      BY <1>0, <1>8, <2>1, <2>2, Learns, ThreadStep
      DEF ReadLeave, PlaceOK, MutexOK, CountOK, Place, HasGate, HasMutex, Counted
  <1>9. CASE WriteLockAcquire(t)
    <2>1. /\ Move(t, "idle", "w_gate") /\ RWState /\ RWState' = RWState
          /\ pc[t] = "idle" /\ pc'[t] = "w_gate" /\ Same
      BY <1>0, <1>9 DEF WriteLockAcquire, Move, PlaceOK
    <2>2. ExclOK'
      BY <1>0, <1>9, <2>1, Learns DEF WriteLockAcquire, ExclOK, Writer, Reader
    <2>. QED
      BY <1>0, <1>9, <2>1, <2>2, Learns, ThreadStep
      DEF WriteLockAcquire, PlaceOK, MutexOK, CountOK, Place, HasGate, HasMutex, Counted
  <1>10. CASE WriteGate(t)
    <2>1. /\ Move(t, "w_gate", "w_excl") /\ RWState /\ RWState' = RWState
          /\ pc[t] = "w_gate" /\ pc'[t] = "w_excl" /\ Same
      BY <1>0, <1>10 DEF WriteGate, Move, PlaceOK
    <2>2. ExclOK'
      BY <1>0, <1>10, <2>1, Learns DEF WriteGate, ExclOK, Writer, Reader
    <2>. QED
      BY <1>0, <1>10, <2>1, <2>2, Learns, ThreadStep
      DEF WriteGate, PlaceOK, MutexOK, CountOK, Place, HasGate, HasMutex, Counted
  <1>11. CASE WriteExclude(t)
    <2>1. /\ Move(t, "w_excl", "w_mode") /\ RWState /\ RWState' = RWState
          /\ pc[t] = "w_excl" /\ pc'[t] = "w_mode" /\ Same
      BY <1>0, <1>11 DEF WriteExclude, Move, PlaceOK
    <2>2. ExclOK'
      BY <1>0, <1>11, <2>1, Learns DEF WriteExclude, ExclOK, Writer, Reader
    <2>. QED
      BY <1>0, <1>11, <2>1, <2>2, Learns, ThreadStep
      DEF WriteExclude, PlaceOK, MutexOK, CountOK, Place, HasGate, HasMutex, Counted
  <1>12. CASE WriteEnter(t)
    <2>1. /\ Move(t, "w_mode", "writing") /\ RWState /\ RWState' = RWState
          /\ pc[t] = "w_mode" /\ pc'[t] = "writing" /\ Same
      BY <1>0, <1>12 DEF WriteEnter, Move, PlaceOK
    <2>2. ExclOK'
      BY <1>0, <1>12, <2>1, Learns DEF WriteEnter, ExclOK, Writer, Reader
    <2>. QED
      BY <1>0, <1>12, <2>1, <2>2, Learns, ThreadStep
      DEF WriteEnter, PlaceOK, MutexOK, CountOK, Place, HasGate, HasMutex, Counted
  <1>13. CASE WriteLockRelease(t)
    <2>1. /\ Move(t, "writing", "wr_gate") /\ RWState /\ RWState' = RWState
          /\ pc[t] = "writing" /\ pc'[t] = "wr_gate" /\ Same
      BY <1>0, <1>13 DEF WriteLockRelease, Move, PlaceOK
    <2>2. ExclOK'
      <3>1. \A u \in Threads \ {t} : pc[u] \notin HasGate
        BY <2>1 DEF IInv, GateOK, HasGate
      <3>2. \A u \in Threads : pc[u] \notin Reader
        BY <1>0, <2>1 DEF ExclOK, Writer
      <3>3. \A u \in Threads : pc'[u] \notin Writer \cup Reader
        BY <2>1, <3>1, <3>2 DEF HasGate, Writer, Reader
      <3>4. RWMutexReadWrite = 0
        BY <1>0, <2>1 DEF ExclOK, Writer
      <3>. QED
        BY <1>13, <2>1, <3>3, <3>4 DEF WriteLockRelease, ExclOK
    <2>. QED
      BY <1>0, <1>13, <2>1, <2>2, Learns, ThreadStep
      DEF WriteLockRelease, PlaceOK, MutexOK, CountOK, Place, HasGate, HasMutex, Counted
  <1>14. CASE WriteLeave(t)
    <2>1. /\ Move(t, "wr_gate", "idle") /\ RWState /\ RWState' = RWState
          /\ pc[t] = "wr_gate" /\ pc'[t] = "idle" /\ Same
      BY <1>0, <1>14 DEF WriteLeave, Move, PlaceOK
    <2>2. ExclOK'
      BY <1>0, <1>14, <2>1, Learns DEF WriteLeave, ExclOK, Writer, Reader
    <2>. QED
      BY <1>0, <1>14, <2>1, <2>2, Learns, ThreadStep
      DEF WriteLeave, PlaceOK, MutexOK, CountOK, Place, HasGate, HasMutex, Counted
  <1>15. CASE ReadCount(t)
    <2>1. /\ pc[t] = "r_mutex" /\ RWState /\ RWMutexRead > 0
          /\ \A u \in Threads : pc[u] \notin HasMutex
      BY <1>0, <1>15, Learns DEF ReadCount, Move
    <2>2. CASE RWReaders = 0
      <3>1. /\ Move(t, "r_mutex", "r_first") /\ pc'[t] = "r_first" /\ Same
            /\ \A u \in Threads : pc[u] \notin Counted
        BY <1>0, <1>15, <2>2, Learns DEF ReadCount, Move, PlaceOK
      <3>2. ExclOK'
        BY <1>0, <1>15, <2>1, <3>1 DEF ReadCount, ExclOK, Writer, Reader
      <3>. QED
        BY <1>0, <1>15, <2>1, <3>1, <3>2, ThreadStep
        DEF ReadCount, PlaceOK, Place, HasGate, HasMutex, Counted
    <2>3. CASE RWReaders # 0
      <3>1. /\ Move(t, "r_mutex", "r_mode") /\ pc'[t] = "r_mode" /\ Same
            /\ \E u \in Threads : pc[u] \in Counted
        <4>1. RWReaders + 1 # 1
          BY <1>0, <2>3
        <4>2. Move(t, "r_mutex", "r_mode")
          BY <1>15, <4>1 DEF ReadCount
        <4>3. \E u \in Threads : pc[u] \in Counted
          BY <2>3, Learns
        <4>. QED
          BY <1>0, <4>2, <4>3 DEF Move, PlaceOK
      <3>2. PICK u \in Threads : pc[u] \in Reader
        BY <2>1, <3>1 DEF Counted, HasMutex, Reader
      <3>3. ExclOK'
        BY <1>0, <1>15, <2>1, <3>1, <3>2 DEF ReadCount, ExclOK, Writer, Reader
      <3>. QED
        BY <1>0, <1>15, <2>1, <3>1, <3>3, ThreadStep
        DEF ReadCount, PlaceOK, Place, HasGate, HasMutex, Counted
    <2>. QED
      BY <2>2, <2>3
  <1>16. CASE ReadUncount(t)
    <2>1. /\ pc[t] = "rr_mutex" /\ RWState /\ RWMutexRead > 0
          /\ \A u \in Threads : pc[u] \notin HasMutex
          /\ pc[t] \in Counted
      BY <1>0, <1>16, Learns DEF ReadUncount, Move, Counted
    <2>2. CASE RWReaders = 1
      <3>1. /\ Move(t, "rr_mutex", "rr_last") /\ pc'[t] = "rr_last" /\ Same
            /\ \A u \in Threads \ {t} : pc[u] \notin Counted
        BY <1>0, <1>16, <2>1, <2>2, Learns DEF ReadUncount, Move, PlaceOK
      <3>2. ExclOK'
        BY <1>0, <1>16, <2>1, <3>1 DEF ReadUncount, ExclOK, Writer, Reader
      <3>. QED
        BY <1>0, <1>16, <2>1, <3>1, <3>2, ThreadStep
        DEF ReadUncount, PlaceOK, Place, HasGate, HasMutex, Counted
    <2>3. CASE RWReaders # 1
      <3>1. /\ Move(t, "rr_mutex", "rr_mode") /\ pc'[t] = "rr_mode" /\ Same
            /\ \E u \in Threads \ {t} : pc[u] \in Counted
        BY <1>0, <1>16, <2>1, <2>3, Learns DEF ReadUncount, Move, PlaceOK
      <3>2. PICK u \in Threads \ {t} : pc[u] \in Reader
        BY <2>1, <3>1 DEF Counted, HasMutex, Reader
      <3>3. ExclOK'
        BY <1>0, <1>16, <2>1, <3>1, <3>2 DEF ReadUncount, ExclOK, Writer, Reader
      <3>. QED
        BY <1>0, <1>16, <2>1, <3>1, <3>3, ThreadStep
        DEF ReadUncount, PlaceOK, Place, HasGate, HasMutex, Counted
    <2>. QED
      BY <2>2, <2>3
  <1>. QED
    BY <1>1, <1>2, <1>3, <1>4, <1>5, <1>6, <1>7, <1>8,
       <1>9, <1>10, <1>11, <1>12, <1>13, <1>14, <1>15, <1>16
    DEF Waits, Runs, Calls, Releases

LEMMA NextIInv == IInv /\ [Next]_vars => IInv'
  <1>. SUFFICES ASSUME IInv, [Next]_vars
                PROVE  IInv'
    OBVIOUS
  <1>. USE DEF semas
  <1>1. ASSUME NEW t \in Threads, Waits(t) \/ Runs(t) \/ Calls(t) \/ Releases(t)
        PROVE  IInv'
    BY <1>1, ThreadSteps
  <1>2. CASE Destroy
    <2>1. In(Counted)' = In(Counted)
      BY <1>2 DEF Destroy, In
    <2>2. /\ \A u \in Threads : pc'[u] = "idle" /\ pc[u] = "idle"
          /\ RWState /\ ~RWState'
      BY <1>2 DEF Destroy
    <2>3. RWLock = 1 /\ RWMutexReadWrite = 1 /\ RWMutexRead = 1
      BY <2>2 DEF IInv, GateOK, ExclOK, MutexOK, HasGate, HasMutex, Writer, Reader
    <2>4. RWLock' = 0 /\ RWMutexReadWrite' = 0 /\ RWMutexRead' = 1
      BY <1>2, <2>3 DEF Destroy
    <2>5. PlaceOK' /\ Voided'
      BY <1>2, <2>2 DEF Destroy, IInv, PlaceOK, Voided
    <2>6. GateOK' /\ MutexOK' /\ ExclOK'
      BY <2>2, <2>4 DEF GateOK, MutexOK, ExclOK, HasGate, HasMutex, Writer, Reader
    <2>7. CountOK'
      BY <1>2, <2>1, <2>2 DEF Destroy, IInv, CountOK
    <2>. QED
      BY <2>5, <2>6, <2>7 DEF IInv
  <1>3. CASE Reinit
    <2>1. \A u \in Threads : pc'[u] = "idle" /\ pc[u] = "idle"
      BY <1>3 DEF Reinit, IInv, Voided
    <2>2. In(Counted)' = {}
      BY <2>1 DEF In, Counted
    <2>3. RWReaders' = Cardinality(In(Counted)')
      BY <1>3, <2>2, FS_EmptySet DEF Reinit
    <2>. QED
      BY <1>3, <2>1, <2>3 DEF Reinit, IInv, PlaceOK, GateOK, MutexOK, ExclOK, CountOK, Voided,
         HasGate, HasMutex, Writer, Reader, Counted
  <1>4. CASE UNCHANGED vars
    <2>1. In(Counted)' = In(Counted)
      BY <1>4 DEF vars, In
    <2>. QED
      BY <1>4, <2>1 DEF vars, IInv, PlaceOK, GateOK, MutexOK, ExclOK, CountOK, Voided
  <1>. QED
    BY <1>1, <1>2, <1>3, <1>4 DEF Next

THEOREM InductiveInvariant == Spec => []IInv
  BY InitIInv, NextIInv, PTL DEF Spec

\* The semaphores stay binary and the count of readers within the threads
\* (rwlock.c:46-48).
THEOREM TypeCorrect == Spec => []TypeOK
  <1>1. IInv => TypeOK
    BY InFinite DEF IInv, TypeOK, PlaceOK, GateOK, MutexOK, ExclOK, CountOK
  <1>. QED
    BY <1>1, InductiveInvariant, PTL

\* A writer is alone and RWReaders counts the readers (rwlock.c:82-86, 104-106,
\* 124-126).
THEOREM LockExcludes == Spec => []Exclusion
  <1>1. IInv => Exclusion
    <2>. SUFFICES ASSUME IInv PROVE Exclusion
      OBVIOUS
    <2>1. \A t, u \in In({"w_mode", "writing"}) : t = u
      BY DEF IInv, GateOK, HasGate, In
    <2>2. In({"w_mode", "writing"}) # {} => In({"r_mode", "reading", "rr_mutex", "rr_last"}) = {}
      BY DEF IInv, ExclOK, Writer, Reader, In
    <2>. QED
      BY <2>1, <2>2 DEF IInv, CountOK, Exclusion
  <1>. QED
    BY <1>1, InductiveInvariant, PTL

\* Three semaphores and a count do what ReadersWriters says (rwlock.c:66-156).
THEOREM ImplementsReadersWriters == Spec => ReadersWritersSpec
  <1>1. Init => Abstract!Init
    BY DEF Init, In, Abstract!Init
  <1>2. IInv /\ [Next]_vars => [Abstract!Next]_(Abstract!vars)
    <2>. SUFFICES ASSUME IInv, [Next]_vars
                  PROVE  [Abstract!Next]_(Abstract!vars)
      OBVIOUS
    <2>1. ASSUME pc' = pc
          PROVE  UNCHANGED Abstract!vars
      BY <2>1 DEF In, Abstract!vars
    <2>2. ASSUME NEW t \in Threads, Waits(t) \/ Runs(t) \/ Calls(t) \/ Releases(t)
          PROVE  [Abstract!Next]_(Abstract!vars)
      <3>0. pc \in [Threads -> Place]
        BY DEF IInv, PlaceOK
      <3>1. CASE ReadEnter(t)
        <4>1. In({"writing"}) = {}
          BY <3>1 DEF IInv, ExclOK, Writer, Reader, In, ReadEnter, Move
        <4>2. In({"reading"})' = In({"reading"}) \cup {t} /\ In({"writing"})' = In({"writing"})
          BY <3>0, <3>1 DEF In, ReadEnter, Move
        <4>. QED
          BY <4>1, <4>2 DEF Abstract!Next, Abstract!BeginRead
      <3>2. CASE ReadLockRelease(t)
        <4>1. t \in In({"reading"})
          BY <3>2 DEF In, ReadLockRelease, Move
        <4>2. In({"reading"})' = In({"reading"}) \ {t} /\ In({"writing"})' = In({"writing"})
          BY <3>0, <3>2 DEF In, ReadLockRelease, Move
        <4>. QED
          BY <4>1, <4>2 DEF Abstract!Next, Abstract!EndRead
      <3>3. CASE WriteEnter(t)
        <4>1. In({"reading"}) = {} /\ In({"writing"}) = {}
          BY <3>3 DEF IInv, ExclOK, GateOK, HasGate, Writer, Reader, In, WriteEnter, Move
        <4>2. In({"reading"})' = In({"reading"}) /\ In({"writing"})' = {t}
          BY <3>0, <3>3, <4>1 DEF In, WriteEnter, Move
        <4>. QED
          BY <4>1, <4>2 DEF Abstract!Next, Abstract!BeginWrite
      <3>4. CASE WriteLockRelease(t)
        <4>1. t \in In({"writing"}) /\ \A u \in In({"writing"}) : u = t
          BY <3>4 DEF IInv, GateOK, HasGate, In, WriteLockRelease, Move
        <4>2. In({"reading"})' = In({"reading"}) /\ In({"writing"})' = {}
          BY <3>0, <3>4, <4>1 DEF In, WriteLockRelease, Move
        <4>. QED
          BY <4>1, <4>2 DEF Abstract!Next, Abstract!EndWrite
      <3>5. CASE ~(ReadEnter(t) \/ ReadLockRelease(t) \/ WriteEnter(t) \/ WriteLockRelease(t))
        <4>1. /\ pc[t] \notin {"reading", "writing"} /\ pc'[t] \notin {"reading", "writing"}
              /\ \A u \in Threads \ {t} : pc'[u] = pc[u]
          BY <3>0, <2>2, <3>5
          DEF Waits, Runs, Calls, Releases, ReadGate, ReadCount, ReadFirst, ReadUncount,
              WriteGate, WriteExclude, ReadPass, ReadLast, ReadLeave, WriteLeave,
              ReadLockAcquire, WriteLockAcquire, Move
        <4>. QED
          BY <4>1 DEF In, Abstract!vars
      <3>. QED
        BY <3>1, <3>2, <3>3, <3>4, <3>5
    <2>. QED
      BY <2>1, <2>2 DEF Next, Destroy, Reinit, vars
  <1>. QED
    BY <1>1, <1>2, InductiveInvariant, PTL DEF Spec, ReadersWritersSpec, Abstract!Spec

\* A reader that calls while a writer has RWLock waits behind it (rwlock.c:77-78,
\* 104-105): past the gate there is nobody else, and nobody passes it unseen.
THEOREM WritersAreNotOvertaken == Spec => NoBarging
  <1>1. ASSUME IInv, [Next]_vars, NEW t \in Threads, NEW w \in Threads,
               pc[w] = "w_excl", pc[t] \in {"r_gate", "r_post"}, pc'[t] = "r_mutex"
        PROVE  FALSE
    <2>1. pc[t] # "r_post"
      BY <1>1 DEF IInv, GateOK, HasGate
    <2>2. PICK u \in Threads : Waits(u) \/ Runs(u) \/ Calls(u) \/ Releases(u)
      BY <1>1 DEF Next, Destroy, Reinit, vars
    <2>3. ASSUME NEW from, NEW to, Move(u, from, to), from # "r_gate" \/ to # "r_mutex"
          PROVE  FALSE
      BY <2>1, <2>3, <1>1 DEF Move, IInv, PlaceOK
    <2>4. CASE Waits(u)
      BY <2>3, <2>4 DEF Waits, ReadGate, ReadCount, ReadFirst, ReadUncount, WriteGate, WriteExclude
    <2>5. CASE Runs(u)
      BY <2>3, <2>5 DEF Runs, ReadPass, ReadEnter, ReadLast, ReadLeave, WriteEnter, WriteLeave
    <2>6. CASE Calls(u) \/ Releases(u)
      BY <2>3, <2>6 DEF Calls, Releases, ReadLockAcquire, WriteLockAcquire, ReadLockRelease,
         WriteLockRelease
    <2>. QED
      BY <2>2, <2>4, <2>5, <2>6
  <1>2. IInv /\ [Next]_vars =>
          [\A t, w \in Threads :
             pc[w] = "w_excl" /\ pc'[w] = "w_excl" =>
               ~(pc[t] \in {"r_gate", "r_post"} /\ pc'[t] = "r_mutex")]_vars
    BY <1>1
  <1>. QED
    BY <1>2, InductiveInvariant, PTL DEF Spec, NoBarging
=============================================================================
