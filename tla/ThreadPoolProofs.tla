-------------------------- MODULE ThreadPoolProofs --------------------------
(***************************************************************************)
(* The worker pool, for any numbers of threads and callers and any number  *)
(* of creations that fail.  The statistics and the semaphore are sums over *)
(* the stages of threads and callers; each action changes one stage, or    *)
(* one caller, and the sums by one.                                        *)
(***************************************************************************)
EXTENDS ThreadPool, FiniteSetTheorems, TLAPS

\* The sums are over these.
Queued   == Cardinality(At({"queued"}))
Taken    == Cardinality(At({"taken"}))
Pooled   == Cardinality(At({"running", "ending"}))
Lone     == Cardinality(At({"alone", "leaving"}))
Creating == Cardinality(Calling({"create"}))
Posting  == Cardinality(Calling({"stats", "again", "create", "post"}))

Shape ==
  /\ list \in Seq(Threads) /\ semaphore \in Nat
  /\ statsLock \in [owner : Callers \cup {NoCaller}, depth : Nat]
  /\ statsLock.depth = 0 <=> statsLock.owner = NoCaller
  /\ waiting \in Nat /\ woken \in Nat /\ empty = 0
  /\ stage \in [Threads -> Stages]
  /\ pc \in [Callers -> Places] /\ seen \in [Callers -> Nat]
  /\ mine \in [Callers -> Threads \cup {NoThread}]
  /\ wrapped \in SUBSET Wrappers
  /\ \A c \in Callers : /\ pc[c] = "single" => mine[c] \in Threads
                        /\ pc[c] = "again" => statsLock.owner = c

Sums ==
  /\ pending = Len(list)
  /\ pending = Queued
  /\ idle = waiting + woken + Taken + Creating
  /\ active = Pooled + Lone + Cardinality(wrapped)
  /\ total = idle + Pooled + Lone
  /\ semaphore + woken + Posting = pending

\* What callers remember of pending, and what follows for the workers.
Thrifty ==
  /\ \A c \in Callers : seen[c] <= Cardinality(Threads)
  /\ total - Lone <= 2 * Cardinality(Threads)

IInv == Shape /\ Sums /\ Thrifty
-----------------------------------------------------------------------------
LEMMA Counted ==
  /\ \A S : IsFiniteSet(At(S)) /\ Cardinality(At(S)) \in Nat
  /\ \A S : IsFiniteSet(Calling(S)) /\ Cardinality(Calling(S)) \in Nat
  /\ Cardinality(Threads) \in Nat
  <1>1. ASSUME NEW S
        PROVE  /\ IsFiniteSet(At(S)) /\ Cardinality(At(S)) \in Nat
               /\ IsFiniteSet(Calling(S)) /\ Cardinality(Calling(S)) \in Nat
    <2>1. At(S) \in SUBSET Threads /\ Calling(S) \in SUBSET Callers
      BY DEF At, Calling
    <2>2. IsFiniteSet(At(S)) /\ IsFiniteSet(Calling(S))
      BY <2>1, ThreadPoolAssumption, FS_Subset
    <2>. QED
      BY <2>2, FS_CardinalityType
  <1>. QED
    BY <1>1, ThreadPoolAssumption, FS_CardinalityType

LEMMA CountsNat ==
  /\ Queued \in Nat /\ Taken \in Nat /\ Pooled \in Nat /\ Lone \in Nat
  /\ Creating \in Nat /\ Posting \in Nat /\ Cardinality(Threads) \in Nat
  BY Counted DEF Queued, Taken, Pooled, Lone, Creating, Posting

\* What two disjoint sets of stages amount to together.
LEMMA DisjointStages ==
  ASSUME NEW S, NEW R, S \cap R = {}
  PROVE  /\ Cardinality(At(S \cup R)) = Cardinality(At(S)) + Cardinality(At(R))
         /\ Cardinality(At(S \cup R)) <= Cardinality(Threads)
  <1>1. At(S \cup R) = At(S) \cup At(R) /\ At(S) \cap At(R) = {}
    BY DEF At
  <1>2. Cardinality(At(S) \cup At(R))
          = Cardinality(At(S)) + Cardinality(At(R)) - Cardinality(At(S) \cap At(R))
    BY Counted, FS_Union
  <1>3. Cardinality(At(S) \cap At(R)) = 0
    BY <1>1, FS_EmptySet
  <1>4. At(S \cup R) \in SUBSET Threads
    BY DEF At
  <1>5. Cardinality(At(S \cup R)) <= Cardinality(Threads)
    BY <1>4, ThreadPoolAssumption, FS_Subset
  <1>6. Cardinality(At(S)) \in Nat /\ Cardinality(At(R)) \in Nat
    BY Counted
  <1>7. Cardinality(At(S) \cup At(R)) = Cardinality(At(S)) + Cardinality(At(R))
    BY <1>2, <1>3, <1>6
  <1>. QED
    BY <1>1, <1>5, <1>7

\* Queued threads are not run, so both together are no more than there are.
LEMMA QueuedOrPooled == Queued + Pooled <= Cardinality(Threads)
  <1>1. {"queued"} \cap {"running", "ending"} = {}
    OBVIOUS
  <1>2. /\ Cardinality(At({"queued"} \cup {"running", "ending"})) = Queued + Pooled
        /\ Cardinality(At({"queued"} \cup {"running", "ending"})) <= Cardinality(Threads)
    BY <1>1, DisjointStages DEF Queued, Pooled
  <1>. QED
    BY <1>2

\* There is one more, if a thread is neither.
LEMMA RoomToQueue ==
  ASSUME NEW t \in Threads, stage[t] = "free"
  PROVE  Queued + Pooled + 1 <= Cardinality(Threads)
  <1>. DEFINE A == At({"queued"} \cup {"running", "ending"})
  <1>1. A \in SUBSET Threads /\ t \notin A
    BY DEF At
  <1>2. Cardinality(A) = Queued + Pooled /\ IsFiniteSet(A)
    <2>1. {"queued"} \cap {"running", "ending"} = {}
      OBVIOUS
    <2>. QED
      BY <2>1, DisjointStages, Counted DEF Queued, Pooled
  <1>. HIDE DEF A
  <1>3. A \cup {t} \in SUBSET Threads
    BY <1>1
  <1>4. Cardinality(A \cup {t}) = Cardinality(A) + 1
    BY <1>1, <1>2, FS_AddElement
  <1>5. Cardinality(A \cup {t}) <= Cardinality(Threads)
    BY <1>3, ThreadPoolAssumption, FS_Subset
  <1>. QED
    BY <1>2, <1>4, <1>5

\* A set that one element joins or leaves.
LEMMA OneElement ==
  ASSUME NEW A, IsFiniteSet(A), NEW B, NEW x, A \ {x} = B \ {x}
  PROVE  Cardinality(B) = Cardinality(A) + (IF x \in B THEN 1 ELSE 0)
                                         - (IF x \in A THEN 1 ELSE 0)
  <1>0. Cardinality(A) \in Nat
    BY FS_CardinalityType
  <1>1. CASE x \in B /\ x \notin A
    <2>1. B = A \cup {x}
      BY <1>1
    <2>2. Cardinality(A \cup {x}) = Cardinality(A) + 1
      BY <1>1, FS_AddElement
    <2>. QED
      BY <1>0, <1>1, <2>1, <2>2
  <1>2. CASE x \notin B /\ x \in A
    <2>1. B = A \ {x}
      BY <1>2
    <2>2. Cardinality(A \ {x}) = Cardinality(A) - 1
      BY <1>2, FS_RemoveElement
    <2>. QED
      BY <1>0, <1>2, <2>1, <2>2
  <1>3. CASE x \in B <=> x \in A
    <2>1. B = A
      BY <1>3
    <2>. QED
      BY <1>0, <1>3, <2>1
  <1>. QED
    BY <1>1, <1>2, <1>3

\* A thread goes from stage a to stage b.
LEMMA StageStep ==
  ASSUME Shape, NEW t \in Threads, NEW a \in Stages, NEW b \in Stages, Stage(t, a, b)
  PROVE  /\ stage' \in [Threads -> Stages]
         /\ Queued' = Queued + (IF b = "queued" THEN 1 ELSE 0) - (IF a = "queued" THEN 1 ELSE 0)
         /\ Taken' = Taken + (IF b = "taken" THEN 1 ELSE 0) - (IF a = "taken" THEN 1 ELSE 0)
         /\ Pooled' = Pooled + (IF b \in {"running", "ending"} THEN 1 ELSE 0)
                             - (IF a \in {"running", "ending"} THEN 1 ELSE 0)
         /\ Lone' = Lone + (IF b \in {"alone", "leaving"} THEN 1 ELSE 0)
                         - (IF a \in {"alone", "leaving"} THEN 1 ELSE 0)
  <1>1. /\ stage' \in [Threads -> Stages] /\ stage[t] = a /\ stage'[t] = b
        /\ \A u \in Threads \ {t} : stage'[u] = stage[u]
    BY DEF Shape, Stage
  <1>2. ASSUME NEW S
        PROVE  Cardinality(At(S)') = Cardinality(At(S)) + (IF b \in S THEN 1 ELSE 0)
                                                        - (IF a \in S THEN 1 ELSE 0)
    <2>1. /\ At(S) \ {t} = At(S)' \ {t}
          /\ t \in At(S)' <=> b \in S
          /\ t \in At(S) <=> a \in S
      BY <1>1 DEF At
    <2>. QED
      BY <2>1, Counted, OneElement
  <1>. QED
    BY <1>1, <1>2 DEF Queued, Taken, Pooled, Lone

\* A caller goes from a place in P to b.
LEMMA CallerStep ==
  ASSUME Shape, NEW c \in Callers, NEW P, NEW b \in Places, Go(c, P, b)
  PROVE  /\ pc' \in [Callers -> Places] /\ pc[c] \in P /\ pc'[c] = b
         /\ \A d \in Callers \ {c} : pc'[d] = pc[d]
         /\ Creating' = Creating + (IF b = "create" THEN 1 ELSE 0)
                                 - (IF pc[c] = "create" THEN 1 ELSE 0)
         /\ Posting' = Posting
              + (IF b \in {"stats", "again", "create", "post"} THEN 1 ELSE 0)
              - (IF pc[c] \in {"stats", "again", "create", "post"} THEN 1 ELSE 0)
  <1>1. /\ pc' \in [Callers -> Places] /\ pc[c] \in P /\ pc'[c] = b
        /\ \A d \in Callers \ {c} : pc'[d] = pc[d]
    BY DEF Shape, Go
  <1>2. ASSUME NEW S
        PROVE  Cardinality(Calling(S)') =
                 Cardinality(Calling(S)) + (IF b \in S THEN 1 ELSE 0)
                                         - (IF pc[c] \in S THEN 1 ELSE 0)
    <2>1. /\ Calling(S) \ {c} = Calling(S)' \ {c}
          /\ c \in Calling(S)' <=> b \in S
          /\ c \in Calling(S) <=> pc[c] \in S
      BY <1>1 DEF Calling
    <2>. QED
      BY <2>1, Counted, OneElement
  <1>. QED
    BY <1>1, <1>2 DEF Creating, Posting

LEMMA StagesSame ==
  ASSUME UNCHANGED stage
  PROVE  UNCHANGED <<Queued, Taken, Pooled, Lone>>
  BY DEF Queued, Taken, Pooled, Lone, At

LEMMA CallersSame ==
  ASSUME UNCHANGED pc
  PROVE  UNCHANGED <<Creating, Posting>>
  BY DEF Creating, Posting, Calling
-----------------------------------------------------------------------------
LEMMA InitIInv == Init => IInv
  <1>. SUFFICES ASSUME Init PROVE IInv
    OBVIOUS
  <1>1. /\ At({"queued"}) = {} /\ At({"taken"}) = {} /\ At({"running", "ending"}) = {}
        /\ At({"alone", "leaving"}) = {}
    BY DEF Init, At
  <1>2. Calling({"create"}) = {} /\ Calling({"stats", "again", "create", "post"}) = {}
    BY DEF Init, Calling
  <1>3. Queued = 0 /\ Taken = 0 /\ Pooled = 0 /\ Lone = 0 /\ Creating = 0 /\ Posting = 0
    BY <1>1, <1>2, FS_EmptySet DEF Queued, Taken, Pooled, Lone, Creating, Posting
  <1>4. Shape
    BY DEF Init, Shape, Stages, Places
  <1>5. Sums
    BY <1>3, FS_EmptySet DEF Init, Sums
  <1>6. Thrifty
    BY <1>3, CountsNat DEF Init, Thrifty
  <1>. QED
    BY <1>4, <1>5, <1>6 DEF IInv

\* What every step starts from.
LEMMA Before ==
  ASSUME IInv
  PROVE  /\ Shape /\ Sums /\ Thrifty
         /\ Queued \in Nat /\ Taken \in Nat /\ Pooled \in Nat /\ Lone \in Nat
         /\ Creating \in Nat /\ Posting \in Nat /\ Cardinality(Threads) \in Nat
         /\ pending \in Nat /\ idle \in Nat /\ active \in Nat /\ total \in Nat
         /\ semaphore \in Nat /\ waiting \in Nat /\ woken \in Nat
         /\ Cardinality(wrapped) \in Nat
  <1>1. IsFiniteSet(wrapped)
    BY ThreadPoolAssumption, FS_Subset DEF IInv, Shape
  <1>2. Cardinality(wrapped) \in Nat
    BY <1>1, FS_CardinalityType
  <1>. QED
    BY <1>2, CountsNat DEF IInv, Shape, Sums

\* One step per action of a caller: what becomes of the stages and of the
\* callers, and of the three parts of the invariant.
LEMMA CallerSteps ==
  ASSUME IInv, NEW c \in Callers, Start(c) \/ Schedule(c) \/ CreateFail(c)
  PROVE  IInv'
  <1>. USE DEF work, stats, loose, caller
  <1>0. /\ Shape /\ Sums /\ Thrifty
        /\ Queued \in Nat /\ Taken \in Nat /\ Pooled \in Nat /\ Lone \in Nat
        /\ Creating \in Nat /\ Posting \in Nat /\ Cardinality(Threads) \in Nat
        /\ pending \in Nat /\ idle \in Nat /\ active \in Nat /\ total \in Nat
        /\ semaphore \in Nat /\ waiting \in Nat /\ woken \in Nat
        /\ Cardinality(wrapped) \in Nat
    BY Before
  <1>1. ASSUME NEW t \in Threads, Enqueue(c, t)
        PROVE  IInv'
    <2>1. /\ stage' \in [Threads -> Stages]
          /\ Queued' = Queued + 1 /\ Taken' = Taken /\ Pooled' = Pooled /\ Lone' = Lone
      BY <1>0, <1>1, StageStep DEF Enqueue, Stages
    <2>2. /\ pc' \in [Callers -> Places] /\ pc[c] = "idle" /\ pc'[c] = "stats"
          /\ \A d \in Callers \ {c} : pc'[d] = pc[d]
          /\ Creating' = Creating /\ Posting' = Posting + 1
      BY <1>0, <1>1, CallerStep DEF Enqueue, Places
    <2>3. /\ list' \in Seq(Threads) /\ Len(list') = Len(list) + 1
          /\ pending + 1 <= Cardinality(Threads)
      <3>1. stage[t] = "free"
        BY <1>1 DEF Enqueue, Stage
      <3>2. pending + 1 <= Cardinality(Threads)
        BY <1>0, <3>1, RoomToQueue DEF Sums
      <3>. QED
        BY <1>0, <1>1, <3>2 DEF Enqueue, Shape
    <2>4. Shape'
      <3>1. seen' \in [Callers -> Nat] /\ UNCHANGED <<semaphore, statsLock, waiting, woken, empty, mine, wrapped>>
        BY <1>0, <1>1 DEF Enqueue, Shape
      <3>. QED
        BY <1>0, <2>1, <2>2, <2>3, <3>1 DEF Shape
    <2>5. Sums'
      BY <1>0, <1>1, <2>1, <2>2, <2>3 DEF Enqueue, Sums
    <2>6. Thrifty'
      BY <1>0, <1>1, <2>1, <2>2, <2>3 DEF Enqueue, Thrifty, Shape
    <2>. QED
      BY <2>4, <2>5, <2>6 DEF IInv
  <1>2. ASSUME NEW t \in Threads, Claim(c, t)
        PROVE  IInv'
    <2>1. /\ stage' \in [Threads -> Stages]
          /\ Queued' = Queued /\ Taken' = Taken /\ Pooled' = Pooled /\ Lone' = Lone
      BY <1>0, <1>2, StageStep DEF Claim, Stages
    <2>2. /\ pc' \in [Callers -> Places] /\ pc[c] = "idle" /\ pc'[c] = "single"
          /\ \A d \in Callers \ {c} : pc'[d] = pc[d]
          /\ Creating' = Creating /\ Posting' = Posting
      BY <1>0, <1>2, CallerStep DEF Claim, Places
    <2>4. Shape'
      BY <1>0, <1>2, <2>1, <2>2 DEF Claim, Shape
    <2>5. Sums'
      BY <1>0, <1>2, <2>1, <2>2 DEF Claim, Sums
    <2>6. Thrifty'
      BY <1>0, <1>2, <2>1, <2>2 DEF Claim, Thrifty, Shape
    <2>. QED
      BY <2>4, <2>5, <2>6 DEF IInv
  <1>3. ASSUME Check(c)
        PROVE  IInv'
    <2>1. /\ stage' \in [Threads -> Stages]
          /\ Queued' = Queued /\ Taken' = Taken /\ Pooled' = Pooled /\ Lone' = Lone
      BY <1>0, <1>3, StagesSame DEF Check, Shape
    <2>2. /\ statsLock' \in [owner : Callers \cup {NoCaller}, depth : Nat]
          /\ statsLock'.depth = 0 <=> statsLock'.owner = NoCaller
          /\ statsLock' = statsLock \/ (pc[c] = "again" /\ statsLock.owner = c)
      <3>1. CASE pc[c] = "again"
        <4>1. statsLock.owner = c /\ statsLock.depth \in Nat \ {0}
          BY <1>0, <3>1, ThreadPoolAssumption DEF Shape
        <4>. QED
          BY <1>3, <3>1, <4>1, ThreadPoolAssumption DEF Check, Release
      <3>2. CASE pc[c] # "again"
        BY <1>0, <1>3, <3>2 DEF Check, Shape
      <3>. QED
        BY <3>1, <3>2
    <2>3. \A d \in Callers \ {c} : pc[d] = "again" => statsLock'.owner = d
      BY <1>0, <2>2 DEF Shape
    <2>4. CASE /\ seen[c] >= idle /\ total' = total + 1 /\ idle' = idle + 1
               /\ Go(c, {"stats", "again"}, "create")
      <3>1. /\ pc' \in [Callers -> Places] /\ pc[c] \in {"stats", "again"} /\ pc'[c] = "create"
            /\ \A d \in Callers \ {c} : pc'[d] = pc[d]
            /\ Creating' = Creating + 1 /\ Posting' = Posting
        BY <1>0, <2>4, CallerStep DEF Places
      <3>2. Shape'
        BY <1>0, <1>3, <2>1, <2>2, <2>3, <3>1 DEF Check, Shape
      <3>3. Sums'
        <4>1. UNCHANGED <<list, pending, semaphore, waiting, woken, active, wrapped>>
          BY <1>3 DEF Check
        <4>2. (pending = Len(list) /\ pending = Queued)'
          BY <1>0, <2>1, <2>4, <3>1, <4>1 DEF Sums
        <4>3. (idle = waiting + woken + Taken + Creating)'
          BY <1>0, <2>1, <2>4, <3>1, <4>1 DEF Sums
        <4>4. (active = Pooled + Lone + Cardinality(wrapped) /\ total = idle + Pooled + Lone)'
          BY <1>0, <2>1, <2>4, <3>1, <4>1 DEF Sums
        <4>5. (semaphore + woken + Posting = pending)'
          BY <1>0, <2>1, <2>4, <3>1, <4>1 DEF Sums
        <4>. QED
          BY <4>2, <4>3, <4>4, <4>5 DEF Sums
      <3>4. total + 1 - Lone <= 2 * Cardinality(Threads)
        <4>1. Posting >= 1
          <5>1. c \in Calling({"stats", "again", "create", "post"})
            BY <3>1 DEF Calling
          <5>2. Posting # 0
            BY <5>1, Counted, FS_EmptySet DEF Posting
          <5>. QED
            BY <1>0, <5>2
        <4>2. Pooled + 1 <= Cardinality(Threads)
          BY <1>0, <4>1, QueuedOrPooled DEF Sums, Shape
        <4>3. idle <= Cardinality(Threads)
          BY <1>0, <2>4 DEF Thrifty, Shape
        <4>. QED
          BY <1>0, <4>2, <4>3 DEF Sums
      <3>5. Thrifty'
        BY <1>0, <1>3, <2>1, <2>4, <3>4 DEF Check, Thrifty
      <3>. QED
        BY <3>2, <3>3, <3>5 DEF IInv
    <2>5. CASE Go(c, {"stats", "again"}, "post") /\ UNCHANGED <<total, idle>>
      <3>1. /\ pc' \in [Callers -> Places] /\ pc[c] \in {"stats", "again"} /\ pc'[c] = "post"
            /\ \A d \in Callers \ {c} : pc'[d] = pc[d]
            /\ Creating' = Creating /\ Posting' = Posting
        BY <1>0, <2>5, CallerStep DEF Places
      <3>2. Shape'
        BY <1>0, <1>3, <2>1, <2>2, <2>3, <3>1 DEF Check, Shape
      <3>3. Sums'
        BY <1>0, <1>3, <2>1, <2>5, <3>1 DEF Check, Sums
      <3>4. Thrifty'
        BY <1>0, <1>3, <2>1, <2>5 DEF Check, Thrifty
      <3>. QED
        BY <3>2, <3>3, <3>4 DEF IInv
    <2>. QED
      BY <1>3, <2>4, <2>5 DEF Check
  <1>4. ASSUME CreateWorker(c)
        PROVE  IInv'
    <2>1. /\ stage' \in [Threads -> Stages]
          /\ Queued' = Queued /\ Taken' = Taken /\ Pooled' = Pooled /\ Lone' = Lone
      BY <1>0, <1>4, StagesSame DEF CreateWorker, Shape
    <2>2. /\ pc' \in [Callers -> Places] /\ pc[c] = "create" /\ pc'[c] = "post"
          /\ \A d \in Callers \ {c} : pc'[d] = pc[d]
          /\ Creating' = Creating - 1 /\ Posting' = Posting
      BY <1>0, <1>4, CallerStep DEF CreateWorker, Places
    <2>4. Shape'
      BY <1>0, <1>4, <2>1, <2>2 DEF CreateWorker, Shape
    <2>5. Sums'
      <3>1. /\ waiting' = waiting + 1
            /\ UNCHANGED <<list, pending, semaphore, woken, idle, active, total, wrapped>>
        BY <1>0, <1>4 DEF CreateWorker
      <3>2. (pending = Len(list) /\ pending = Queued)'
        BY <1>0, <2>1, <2>2, <3>1 DEF Sums
      <3>3. (idle = waiting + woken + Taken + Creating)'
        BY <1>0, <2>1, <2>2, <3>1 DEF Sums
      <3>4. (active = Pooled + Lone + Cardinality(wrapped) /\ total = idle + Pooled + Lone)'
        BY <1>0, <2>1, <2>2, <3>1 DEF Sums
      <3>5. (semaphore + woken + Posting = pending)'
        BY <1>0, <2>1, <2>2, <3>1 DEF Sums
      <3>. QED
        BY <3>2, <3>3, <3>4, <3>5 DEF Sums
    <2>6. Thrifty'
      BY <1>0, <1>4, <2>1, <2>2 DEF CreateWorker, Thrifty, Shape
    <2>. QED
      BY <2>4, <2>5, <2>6 DEF IInv
  <1>5. ASSUME Post(c)
        PROVE  IInv'
    <2>1. /\ stage' \in [Threads -> Stages]
          /\ Queued' = Queued /\ Taken' = Taken /\ Pooled' = Pooled /\ Lone' = Lone
      BY <1>0, <1>5, StagesSame DEF Post, Shape
    <2>2. /\ pc' \in [Callers -> Places] /\ pc[c] = "post" /\ pc'[c] = "idle"
          /\ \A d \in Callers \ {c} : pc'[d] = pc[d]
          /\ Creating' = Creating /\ Posting' = Posting - 1
      BY <1>0, <1>5, CallerStep DEF Post, Places
    <2>4. Shape'
      <3>1. semaphore' \in Nat /\ seen' \in [Callers -> Nat] /\ UNCHANGED <<list, statsLock, waiting, woken, empty, mine, wrapped>>
        BY <1>0, <1>5 DEF Post, Shape
      <3>. QED
        BY <1>0, <2>1, <2>2, <3>1 DEF Shape
    <2>5. Sums'
      <3>1. /\ semaphore' = semaphore + 1
            /\ UNCHANGED <<list, pending, waiting, woken, idle, active, total, wrapped>>
        BY <1>0, <1>5 DEF Post
      <3>2. (pending = Len(list) /\ pending = Queued)'
        BY <1>0, <2>1, <2>2, <3>1 DEF Sums
      <3>3. (idle = waiting + woken + Taken + Creating)'
        BY <1>0, <2>1, <2>2, <3>1 DEF Sums
      <3>4. (active = Pooled + Lone + Cardinality(wrapped) /\ total = idle + Pooled + Lone)'
        BY <1>0, <2>1, <2>2, <3>1 DEF Sums
      <3>5. (semaphore + woken + Posting = pending)'
        BY <1>0, <2>1, <2>2, <3>1 DEF Sums
      <3>. QED
        BY <3>2, <3>3, <3>4, <3>5 DEF Sums
    <2>6. Thrifty'
      BY <1>0, <1>5, <2>1, <2>2 DEF Post, Thrifty, Shape
    <2>. QED
      BY <2>4, <2>5, <2>6 DEF IInv
  <1>6. ASSUME CreateFail(c)
        PROVE  IInv'
    <2>1. /\ stage' \in [Threads -> Stages]
          /\ Queued' = Queued /\ Taken' = Taken /\ Pooled' = Pooled /\ Lone' = Lone
      BY <1>0, <1>6, StagesSame DEF CreateFail, Shape
    <2>2. /\ pc' \in [Callers -> Places] /\ pc[c] = "create" /\ pc'[c] = "again"
          /\ \A d \in Callers \ {c} : pc'[d] = pc[d]
          /\ Creating' = Creating - 1 /\ Posting' = Posting
      BY <1>0, <1>6, CallerStep DEF CreateFail, Places
    <2>3. /\ statsLock' \in [owner : Callers \cup {NoCaller}, depth : Nat]
          /\ statsLock'.owner = c /\ statsLock'.depth # 0
          /\ \A d \in Callers \ {c} : pc[d] # "again"
      <3>1. /\ statsLock' \in [owner : Callers \cup {NoCaller}, depth : Nat]
            /\ statsLock'.owner = c /\ statsLock'.depth # 0
            /\ statsLock.owner \in {NoCaller, c}
        BY <1>0, <1>6 DEF CreateFail, Shape, StatsOpen
      <3>2. \A d \in Callers \ {c} : pc[d] # "again"
        BY <1>0, <3>1, ThreadPoolAssumption DEF Shape
      <3>. QED
        BY <3>1, <3>2
    <2>7. seen' \in [Callers -> Nat] /\ UNCHANGED <<list, semaphore, waiting, woken, empty, mine, wrapped>>
      BY <1>0, <1>6 DEF CreateFail, Shape
    <2>8. pending <= Cardinality(Threads)
      BY <1>0, QueuedOrPooled DEF Sums
    <2>4. Shape'
      <3>1. statsLock'.depth = 0 <=> statsLock'.owner = NoCaller
        BY <2>3, ThreadPoolAssumption
      <3>2. \A d \in Callers : /\ pc'[d] = "single" => mine'[d] \in Threads
                               /\ pc'[d] = "again" => statsLock'.owner = d
        BY <1>0, <2>2, <2>3, <2>7 DEF Shape
      <3>. QED
        BY <1>0, <2>1, <2>2, <2>3, <2>7, <3>1, <3>2 DEF Shape
    <2>5. Sums'
      <3>1. /\ idle' = idle - 1 /\ total' = total - 1
            /\ UNCHANGED <<list, pending, semaphore, waiting, woken, active, wrapped>>
        BY <1>0, <1>6 DEF CreateFail
      <3>2. (pending = Len(list) /\ pending = Queued)'
        BY <1>0, <2>1, <2>2, <3>1 DEF Sums
      <3>3. (idle = waiting + woken + Taken + Creating)'
        BY <1>0, <2>1, <2>2, <3>1 DEF Sums
      <3>4. (active = Pooled + Lone + Cardinality(wrapped) /\ total = idle + Pooled + Lone)'
        BY <1>0, <2>1, <2>2, <3>1 DEF Sums
      <3>5. (semaphore + woken + Posting = pending)'
        BY <1>0, <2>1, <2>2, <3>1 DEF Sums
      <3>. QED
        BY <3>2, <3>3, <3>4, <3>5 DEF Sums
    <2>6. Thrifty'
      BY <1>0, <1>6, <2>1, <2>2, <2>8 DEF CreateFail, Thrifty, Shape
    <2>. QED
      BY <2>4, <2>5, <2>6 DEF IInv
  <1>7. ASSUME CreateSingle(c)
        PROVE  IInv'
    <2>1. /\ stage' \in [Threads -> Stages]
          /\ Queued' = Queued /\ Taken' = Taken /\ Pooled' = Pooled /\ Lone' = Lone
      <3>1. mine[c] \in Threads
        BY <1>0, <1>7 DEF CreateSingle, Shape, Go
      <3>. QED
        BY <1>0, <1>7, <3>1, StageStep DEF CreateSingle, Stages
    <2>2. /\ pc' \in [Callers -> Places] /\ pc[c] = "single" /\ pc'[c] = "idle"
          /\ \A d \in Callers \ {c} : pc'[d] = pc[d]
          /\ Creating' = Creating /\ Posting' = Posting
      BY <1>0, <1>7, CallerStep DEF CreateSingle, Places
    <2>4. Shape'
      BY <1>0, <1>7, <2>1, <2>2 DEF CreateSingle, Shape
    <2>5. Sums'
      BY <1>0, <1>7, <2>1, <2>2 DEF CreateSingle, Sums
    <2>6. Thrifty'
      BY <1>0, <1>7, <2>1, <2>2 DEF CreateSingle, Thrifty, Shape
    <2>. QED
      BY <2>4, <2>5, <2>6 DEF IInv
  <1>. QED
    BY <1>1, <1>2, <1>3, <1>4, <1>5, <1>6, <1>7 DEF Start, Schedule

\* A wrap counts one more active thread, and its end one less.
LEMMA WrapSteps ==
  ASSUME IInv, NEW c \in Callers, Wrap(c) \/ WrapEnd(c)
  PROVE  IInv'
  <1>. USE DEF work, stats, loose, caller
  <1>0. /\ Shape /\ Sums /\ Thrifty
        /\ Queued \in Nat /\ Taken \in Nat /\ Pooled \in Nat /\ Lone \in Nat
        /\ active \in Nat /\ Cardinality(wrapped) \in Nat
    BY Before
  <1>1. /\ UNCHANGED <<list, pending, semaphore, waiting, woken, idle, total>>
        /\ UNCHANGED <<statsLock, empty, stage, pc, seen, mine>>
    BY DEF Wrap, WrapEnd
  <1>2. UNCHANGED <<Queued, Taken, Pooled, Lone, Creating, Posting>>
    BY <1>1, StagesSame, CallersSame
  <1>3. IsFiniteSet(wrapped) /\ wrapped' \in SUBSET Wrappers
    BY <1>0, ThreadPoolAssumption, FS_Subset DEF Wrap, WrapEnd, Shape
  <1>4. active' = active + Cardinality(wrapped') - Cardinality(wrapped)
    <2>1. CASE Wrap(c)
      <3>1. c \notin wrapped /\ wrapped' = wrapped \cup {c} /\ active' = active + 1
        BY <2>1 DEF Wrap
      <3>2. Cardinality(wrapped \cup {c}) = Cardinality(wrapped) + 1
        BY <1>3, <3>1, FS_AddElement
      <3>. QED
        BY <1>0, <3>1, <3>2
    <2>2. CASE WrapEnd(c)
      <3>1. c \in wrapped /\ wrapped' = wrapped \ {c} /\ active' = active - 1
        BY <2>2 DEF WrapEnd
      <3>2. Cardinality(wrapped \ {c}) = Cardinality(wrapped) - 1
        BY <1>3, <3>1, FS_RemoveElement
      <3>. QED
        BY <1>0, <3>1, <3>2
    <2>. QED
      BY <2>1, <2>2
  <1>5. IsFiniteSet(wrapped') /\ Cardinality(wrapped') \in Nat
    BY <1>3, ThreadPoolAssumption, FS_Subset, FS_CardinalityType
  <1>6. Shape'
    BY <1>0, <1>1, <1>3 DEF Shape
  <1>7. Sums'
    <2>1. (active = Pooled + Lone + Cardinality(wrapped))'
      BY <1>0, <1>2, <1>4, <1>5 DEF Sums
    <2>. QED
      BY <1>0, <1>1, <1>2, <2>1 DEF Sums
  <1>8. Thrifty'
    BY <1>0, <1>1, <1>2 DEF Thrifty
  <1>. QED
    BY <1>6, <1>7, <1>8 DEF IInv

\* One step per action of a worker, and of a system thread of its own.
LEMMA ThreadSteps ==
  ASSUME IInv, NEW t \in Threads, Worker(t) \/ Single(t)
  PROVE  IInv'
  <1>. USE DEF work, stats, loose, caller
  <1>0. /\ Shape /\ Sums /\ Thrifty
        /\ Queued \in Nat /\ Taken \in Nat /\ Pooled \in Nat /\ Lone \in Nat
        /\ Creating \in Nat /\ Posting \in Nat /\ Cardinality(Threads) \in Nat
        /\ pending \in Nat /\ idle \in Nat /\ active \in Nat /\ total \in Nat
        /\ semaphore \in Nat /\ waiting \in Nat /\ woken \in Nat
        /\ Cardinality(wrapped) \in Nat
    BY Before
  <1>1. CASE Begin(t)
    <2>1. /\ stage' \in [Threads -> Stages]
          /\ Queued' = Queued /\ Taken' = Taken - 1 /\ Pooled' = Pooled + 1 /\ Lone' = Lone
      BY <1>0, <1>1, StageStep DEF Begin, Stages
    <2>2. /\ idle' = idle - 1 /\ active' = active + 1
          /\ UNCHANGED <<list, pending, semaphore, waiting, woken, total>>
          /\ UNCHANGED <<statsLock, empty, wrapped, pc, seen, mine>>
      BY <1>1 DEF Begin
    <2>3. Creating' = Creating /\ Posting' = Posting
      BY <2>2, CallersSame
    <2>4. Shape'
      BY <1>0, <2>1, <2>2 DEF Shape
    <2>5. Sums'
      <3>1. (pending = Len(list) /\ pending = Queued)'
        BY <1>0, <2>1, <2>2 DEF Sums
      <3>2. (idle = waiting + woken + Taken + Creating)'
        BY <1>0, <2>1, <2>2, <2>3 DEF Sums
      <3>3. (active = Pooled + Lone + Cardinality(wrapped) /\ total = idle + Pooled + Lone)'
        BY <1>0, <2>1, <2>2 DEF Sums
      <3>4. (semaphore + woken + Posting = pending)'
        BY <1>0, <2>2, <2>3 DEF Sums
      <3>. QED
        BY <3>1, <3>2, <3>3, <3>4 DEF Sums
    <2>6. Thrifty'
      BY <1>0, <2>1, <2>2 DEF Thrifty
    <2>. QED
      BY <2>4, <2>5, <2>6 DEF IInv
  <1>2. CASE Finish(t)
    <2>1. /\ stage' \in [Threads -> Stages]
          /\ Queued' = Queued /\ Taken' = Taken /\ Pooled' = Pooled /\ Lone' = Lone
      BY <1>0, <1>2, StageStep DEF Finish, Stages
    <2>2. /\ UNCHANGED <<list, pending, semaphore, waiting, woken, idle, active, total>>
          /\ UNCHANGED <<statsLock, empty, wrapped, pc, seen, mine>>
      BY <1>2 DEF Finish
    <2>3. Creating' = Creating /\ Posting' = Posting
      BY <2>2, CallersSame
    <2>4. Shape'
      BY <1>0, <2>1, <2>2 DEF Shape
    <2>5. Sums'
      <3>1. (pending = Len(list) /\ pending = Queued)'
        BY <1>0, <2>1, <2>2 DEF Sums
      <3>2. (idle = waiting + woken + Taken + Creating)'
        BY <1>0, <2>1, <2>2, <2>3 DEF Sums
      <3>3. (active = Pooled + Lone + Cardinality(wrapped) /\ total = idle + Pooled + Lone)'
        BY <1>0, <2>1, <2>2 DEF Sums
      <3>4. (semaphore + woken + Posting = pending)'
        BY <1>0, <2>2, <2>3 DEF Sums
      <3>. QED
        BY <3>1, <3>2, <3>3, <3>4 DEF Sums
    <2>6. Thrifty'
      BY <1>0, <2>1, <2>2 DEF Thrifty
    <2>. QED
      BY <2>4, <2>5, <2>6 DEF IInv
  <1>3. CASE Rest(t)
    <2>1. /\ stage' \in [Threads -> Stages]
          /\ Queued' = Queued /\ Taken' = Taken /\ Pooled' = Pooled - 1 /\ Lone' = Lone
      BY <1>0, <1>3, StageStep DEF Rest, Stages
    <2>2. /\ active' = active - 1 /\ idle' = idle + 1 /\ waiting' = waiting + 1
          /\ UNCHANGED <<list, pending, semaphore, woken, total>>
          /\ UNCHANGED <<statsLock, empty, wrapped, pc, seen, mine>>
      BY <1>3 DEF Rest
    <2>3. Creating' = Creating /\ Posting' = Posting
      BY <2>2, CallersSame
    <2>4. Shape'
      BY <1>0, <2>1, <2>2 DEF Shape
    <2>5. Sums'
      <3>1. (pending = Len(list) /\ pending = Queued)'
        BY <1>0, <2>1, <2>2 DEF Sums
      <3>2. (idle = waiting + woken + Taken + Creating)'
        BY <1>0, <2>1, <2>2, <2>3 DEF Sums
      <3>3. (active = Pooled + Lone + Cardinality(wrapped) /\ total = idle + Pooled + Lone)'
        BY <1>0, <2>1, <2>2 DEF Sums
      <3>4. (semaphore + woken + Posting = pending)'
        BY <1>0, <2>2, <2>3 DEF Sums
      <3>. QED
        BY <3>1, <3>2, <3>3, <3>4 DEF Sums
    <2>6. Thrifty'
      BY <1>0, <2>1, <2>2 DEF Thrifty
    <2>. QED
      BY <2>4, <2>5, <2>6 DEF IInv
  <1>4. CASE Retire(t)
    <2>1. /\ stage' \in [Threads -> Stages]
          /\ Queued' = Queued /\ Taken' = Taken /\ Pooled' = Pooled - 1 /\ Lone' = Lone
      BY <1>0, <1>4, StageStep DEF Retire, Stages
    <2>2. /\ active' = active - 1 /\ total' = total - 1
          /\ UNCHANGED <<list, pending, semaphore, waiting, woken, idle>>
          /\ UNCHANGED <<statsLock, empty, wrapped, pc, seen, mine>>
      BY <1>4 DEF Retire
    <2>3. Creating' = Creating /\ Posting' = Posting
      BY <2>2, CallersSame
    <2>4. Shape'
      BY <1>0, <2>1, <2>2 DEF Shape
    <2>5. Sums'
      <3>1. (pending = Len(list) /\ pending = Queued)'
        BY <1>0, <2>1, <2>2 DEF Sums
      <3>2. (idle = waiting + woken + Taken + Creating)'
        BY <1>0, <2>1, <2>2, <2>3 DEF Sums
      <3>3. (active = Pooled + Lone + Cardinality(wrapped) /\ total = idle + Pooled + Lone)'
        BY <1>0, <2>1, <2>2 DEF Sums
      <3>4. (semaphore + woken + Posting = pending)'
        BY <1>0, <2>2, <2>3 DEF Sums
      <3>. QED
        BY <3>1, <3>2, <3>3, <3>4 DEF Sums
    <2>6. Thrifty'
      BY <1>0, <2>1, <2>2 DEF Thrifty
    <2>. QED
      BY <2>4, <2>5, <2>6 DEF IInv
  <1>5. CASE SingleBegin(t)
    <2>1. /\ stage' \in [Threads -> Stages]
          /\ Queued' = Queued /\ Taken' = Taken /\ Pooled' = Pooled /\ Lone' = Lone + 1
      BY <1>0, <1>5, StageStep DEF SingleBegin, Stages
    <2>2. /\ total' = total + 1 /\ active' = active + 1
          /\ UNCHANGED <<list, pending, semaphore, waiting, woken, idle>>
          /\ UNCHANGED <<statsLock, empty, wrapped, pc, seen, mine>>
      BY <1>5 DEF SingleBegin
    <2>3. Creating' = Creating /\ Posting' = Posting
      BY <2>2, CallersSame
    <2>4. Shape'
      BY <1>0, <2>1, <2>2 DEF Shape
    <2>5. Sums'
      <3>1. (pending = Len(list) /\ pending = Queued)'
        BY <1>0, <2>1, <2>2 DEF Sums
      <3>2. (idle = waiting + woken + Taken + Creating)'
        BY <1>0, <2>1, <2>2, <2>3 DEF Sums
      <3>3. (active = Pooled + Lone + Cardinality(wrapped) /\ total = idle + Pooled + Lone)'
        BY <1>0, <2>1, <2>2 DEF Sums
      <3>4. (semaphore + woken + Posting = pending)'
        BY <1>0, <2>2, <2>3 DEF Sums
      <3>. QED
        BY <3>1, <3>2, <3>3, <3>4 DEF Sums
    <2>6. Thrifty'
      BY <1>0, <2>1, <2>2 DEF Thrifty
    <2>. QED
      BY <2>4, <2>5, <2>6 DEF IInv
  <1>6. CASE SingleFinish(t)
    <2>1. /\ stage' \in [Threads -> Stages]
          /\ Queued' = Queued /\ Taken' = Taken /\ Pooled' = Pooled /\ Lone' = Lone
      BY <1>0, <1>6, StageStep DEF SingleFinish, Stages
    <2>2. /\ UNCHANGED <<list, pending, semaphore, waiting, woken, idle, active, total>>
          /\ UNCHANGED <<statsLock, empty, wrapped, pc, seen, mine>>
      BY <1>6 DEF SingleFinish
    <2>3. Creating' = Creating /\ Posting' = Posting
      BY <2>2, CallersSame
    <2>4. Shape'
      BY <1>0, <2>1, <2>2 DEF Shape
    <2>5. Sums'
      <3>1. (pending = Len(list) /\ pending = Queued)'
        BY <1>0, <2>1, <2>2 DEF Sums
      <3>2. (idle = waiting + woken + Taken + Creating)'
        BY <1>0, <2>1, <2>2, <2>3 DEF Sums
      <3>3. (active = Pooled + Lone + Cardinality(wrapped) /\ total = idle + Pooled + Lone)'
        BY <1>0, <2>1, <2>2 DEF Sums
      <3>4. (semaphore + woken + Posting = pending)'
        BY <1>0, <2>2, <2>3 DEF Sums
      <3>. QED
        BY <3>1, <3>2, <3>3, <3>4 DEF Sums
    <2>6. Thrifty'
      BY <1>0, <2>1, <2>2 DEF Thrifty
    <2>. QED
      BY <2>4, <2>5, <2>6 DEF IInv
  <1>7. CASE SingleEnd(t)
    <2>1. /\ stage' \in [Threads -> Stages]
          /\ Queued' = Queued /\ Taken' = Taken /\ Pooled' = Pooled /\ Lone' = Lone - 1
      BY <1>0, <1>7, StageStep DEF SingleEnd, Stages
    <2>2. /\ total' = total - 1 /\ active' = active - 1
          /\ UNCHANGED <<list, pending, semaphore, waiting, woken, idle>>
          /\ UNCHANGED <<statsLock, empty, wrapped, pc, seen, mine>>
      BY <1>7 DEF SingleEnd
    <2>3. Creating' = Creating /\ Posting' = Posting
      BY <2>2, CallersSame
    <2>4. Shape'
      BY <1>0, <2>1, <2>2 DEF Shape
    <2>5. Sums'
      <3>1. (pending = Len(list) /\ pending = Queued)'
        BY <1>0, <2>1, <2>2 DEF Sums
      <3>2. (idle = waiting + woken + Taken + Creating)'
        BY <1>0, <2>1, <2>2, <2>3 DEF Sums
      <3>3. (active = Pooled + Lone + Cardinality(wrapped) /\ total = idle + Pooled + Lone)'
        BY <1>0, <2>1, <2>2 DEF Sums
      <3>4. (semaphore + woken + Posting = pending)'
        BY <1>0, <2>2, <2>3 DEF Sums
      <3>. QED
        BY <3>1, <3>2, <3>3, <3>4 DEF Sums
    <2>6. Thrifty'
      BY <1>0, <2>1, <2>2 DEF Thrifty
    <2>. QED
      BY <2>4, <2>5, <2>6 DEF IInv
  <1>. QED
    BY <1>1, <1>2, <1>3, <1>4, <1>5, <1>6, <1>7 DEF Worker, Single

LEMMA SemaWaitStep == IInv /\ SemaWait => IInv'
  <1>. SUFFICES ASSUME IInv, SemaWait PROVE IInv'
    OBVIOUS
  <1>. USE DEF work, stats, loose, caller
  <1>0. /\ Shape /\ Sums /\ Thrifty
        /\ Queued \in Nat /\ Taken \in Nat /\ Pooled \in Nat /\ Lone \in Nat
        /\ Creating \in Nat /\ Posting \in Nat /\ Cardinality(Threads) \in Nat
        /\ pending \in Nat /\ idle \in Nat /\ active \in Nat /\ total \in Nat
        /\ semaphore \in Nat /\ waiting \in Nat /\ woken \in Nat
        /\ Cardinality(wrapped) \in Nat
    BY Before
  <1>1. /\ semaphore' = semaphore - 1 /\ waiting' = waiting - 1 /\ woken' = woken + 1
        /\ semaphore > 0 /\ waiting > 0
        /\ UNCHANGED <<list, pending, idle, active, total>>
        /\ UNCHANGED <<statsLock, empty, wrapped, stage, pc, seen, mine>>
    BY DEF SemaWait
  <1>2. UNCHANGED <<Queued, Taken, Pooled, Lone, Creating, Posting>>
    BY <1>1, StagesSame, CallersSame
  <1>3. Shape'
    BY <1>0, <1>1 DEF Shape
  <1>4. Sums'
    <2>1. (idle = waiting + woken + Taken + Creating)'
      BY <1>0, <1>1, <1>2 DEF Sums
    <2>2. (semaphore + woken + Posting = pending)'
      BY <1>0, <1>1, <1>2 DEF Sums
    <2>. QED
      BY <1>0, <1>1, <1>2, <2>1, <2>2 DEF Sums
  <1>5. Thrifty'
    BY <1>0, <1>1, <1>2 DEF Thrifty
  <1>. QED
    BY <1>3, <1>4, <1>5 DEF IInv

\* A worker that was woken finds the list not empty.
LEMMA PopStep == IInv /\ Pop => IInv'
  <1>. SUFFICES ASSUME IInv, Pop PROVE IInv'
    OBVIOUS
  <1>. USE DEF work, stats, loose, caller
  <1>0. /\ Shape /\ Sums /\ Thrifty
        /\ Queued \in Nat /\ Taken \in Nat /\ Pooled \in Nat /\ Lone \in Nat
        /\ Creating \in Nat /\ Posting \in Nat /\ Cardinality(Threads) \in Nat
        /\ pending \in Nat /\ idle \in Nat /\ active \in Nat /\ total \in Nat
        /\ semaphore \in Nat /\ waiting \in Nat /\ woken \in Nat
        /\ Cardinality(wrapped) \in Nat
    BY Before
  <1>1. list # <<>>
    <2>1. Len(list) > 0
      BY <1>0 DEF Sums, Pop
    <2>. QED
      BY <2>1
  <1>2. /\ list' = Tail(list) /\ pending' = pending - 1 /\ woken' = woken - 1 /\ woken > 0
        /\ Stage(Head(list), "queued", "taken")
        /\ UNCHANGED <<semaphore, waiting, idle, active, total>>
        /\ UNCHANGED <<statsLock, empty, wrapped, pc, seen, mine>>
    BY <1>1 DEF Pop
  <1>3. Head(list) \in Threads /\ list' \in Seq(Threads) /\ Len(list') = Len(list) - 1
    BY <1>0, <1>1, <1>2 DEF Shape
  <1>4. /\ stage' \in [Threads -> Stages]
        /\ Queued' = Queued - 1 /\ Taken' = Taken + 1 /\ Pooled' = Pooled /\ Lone' = Lone
    BY <1>0, <1>2, <1>3, StageStep DEF Stages
  <1>5. Creating' = Creating /\ Posting' = Posting
    BY <1>2, CallersSame
  <1>6. Shape'
    BY <1>0, <1>2, <1>3, <1>4 DEF Shape
  <1>7. Sums'
    <2>1. (pending = Len(list) /\ pending = Queued)'
      BY <1>0, <1>2, <1>3, <1>4 DEF Sums
    <2>2. (idle = waiting + woken + Taken + Creating)'
      BY <1>0, <1>2, <1>4, <1>5 DEF Sums
    <2>3. (active = Pooled + Lone + Cardinality(wrapped) /\ total = idle + Pooled + Lone)'
      BY <1>0, <1>2, <1>4 DEF Sums
    <2>4. (semaphore + woken + Posting = pending)'
      BY <1>0, <1>2, <1>5 DEF Sums
    <2>. QED
      BY <2>1, <2>2, <2>3, <2>4 DEF Sums
  <1>8. Thrifty'
    BY <1>0, <1>2, <1>4 DEF Thrifty
  <1>. QED
    BY <1>6, <1>7, <1>8 DEF IInv

LEMMA NextIInv == IInv /\ [Next]_vars => IInv'
  <1>. SUFFICES ASSUME IInv, [Next]_vars PROVE IInv'
    OBVIOUS
  <1>1. CASE UNCHANGED vars
    <2>1. UNCHANGED <<Queued, Taken, Pooled, Lone, Creating, Posting>>
      BY <1>1, StagesSame, CallersSame DEF vars, caller
    <2>. QED
      BY <1>1, <2>1 DEF vars, work, stats, loose, caller, IInv, Shape, Sums, Thrifty
  <1>2. CASE Next
    BY <1>2, CallerSteps, WrapSteps, ThreadSteps, SemaWaitStep, PopStep DEF Next
  <1>. QED
    BY <1>1, <1>2

THEOREM InductiveInvariant == Spec => []IInv
  BY InitIInv, NextIInv, PTL DEF Spec

\* The statistics are what they say, for TLC's sets as for any
\* (thread.c:803-804, 826-837, 972-973, 1291-1297, 1336): active counts the
\* workers that have a thread and the threads that wrapped themselves.
THEOREM CountersAreSound == Spec => []CountersSound
  <1>1. IInv => CountersSound
    <2>. SUFFICES ASSUME IInv PROVE CountersSound
      OBVIOUS
    <2>1. Cardinality(At({"running", "ending", "alone", "leaving"})) = Pooled + Lone
      <3>1. /\ {"running", "ending"} \cap {"alone", "leaving"} = {}
            /\ {"running", "ending"} \cup {"alone", "leaving"}
                 = {"running", "ending", "alone", "leaving"}
        OBVIOUS
      <3>. QED
        BY <3>1, DisjointStages DEF Pooled, Lone
    <2>2. idle = waiting + woken + empty + Taken + Creating
      BY Before DEF Shape, Sums
    <2>3. /\ Pooled \in Nat /\ Lone \in Nat /\ idle \in Nat /\ Cardinality(wrapped) \in Nat
          /\ active = Pooled + Lone + Cardinality(wrapped) /\ total = idle + Pooled + Lone
      BY Before DEF Sums
    <2>4. total = idle + active - Cardinality(wrapped)
      BY <2>3
    <2>5. pending = Len(list)
      BY Before DEF Sums
    <2>. QED
      BY <2>1, <2>2, <2>3, <2>4, <2>5 DEF CountersSound, Taken, Creating
  <1>. QED
    BY <1>1, InductiveInvariant, PTL

\* Whoever is woken finds work: the branch that ends a worker for want of it
\* (thread.c:797-802) is never taken.
THEOREM WorkIsFound == Spec => []WorkFound
  <1>1. IInv => WorkFound
    BY DEF IInv, Shape, Sums, WorkFound, Posting
  <1>. QED
    BY <1>1, InductiveInvariant, PTL

\* The pool is bounded by the number of threads, however callers and workers
\* interleave (thread.c:966-974).
THEOREM PoolIsBounded == Spec => []PoolBounded
  <1>1. IInv => PoolBounded
    BY DEF IInv, Thrifty, PoolBounded, Lone
  <1>. QED
    BY <1>1, InductiveInvariant, PTL

\* No counter is negative, and no semaphore.
THEOREM TypeCorrect == Spec => []TypeOK
  <1>1. ASSUME IInv PROVE TypeOK
    <2>1. pending \in Nat /\ total \in Nat /\ idle \in Nat /\ active \in Nat /\ Shape
      BY <1>1, Before
    <2>. QED
      BY <2>1 DEF Shape, TypeOK
  <1>. QED
    BY <1>1, InductiveInvariant, PTL
-----------------------------------------------------------------------------
(* The pool implements Executor.                                           *)

\* The list holds the queued threads, each once.
ListOK == /\ \A i \in 1..Len(list) : stage[list[i]] = "queued"
          /\ \A i, j \in 1..Len(list) : list[i] = list[j] => i = j

Runs == {"taken", "running", "alone"}

LEMMA OtherStage ==
  ASSUME Shape, ListOK, NEW t \in Threads, NEW a, NEW b, Stage(t, a, b), a # "queued",
         UNCHANGED list
  PROVE  ListOK'
  <1>1. \A i \in 1..Len(list) : list[i] \in Threads /\ list[i] # t
    BY DEF Shape, ListOK, Stage
  <1>2. \A u \in Threads \ {t} : stage'[u] = stage[u]
    BY DEF Shape, Stage
  <1>. QED
    BY <1>1, <1>2 DEF ListOK

LEMMA SameList ==
  ASSUME ListOK, UNCHANGED <<list, stage>>
  PROVE  ListOK'
  BY DEF ListOK

\* What Stage does to the threads that run.
LEMMA RunsStep ==
  ASSUME Shape, NEW t \in Threads, NEW a, NEW b, Stage(t, a, b)
  PROVE  /\ a \in Runs /\ b \notin Runs => t \in At(Runs) /\ At(Runs)' = At(Runs) \ {t}
         /\ a \notin Runs /\ b \in Runs => t \notin At(Runs) /\ At(Runs)' = At(Runs) \cup {t}
         /\ (a \in Runs <=> b \in Runs) => At(Runs)' = At(Runs)
  <1>1. stage[t] = a /\ stage'[t] = b /\ \A u \in Threads \ {t} : stage'[u] = stage[u]
    BY DEF Shape, Stage
  <1>2. /\ \A u \in Threads : u \in At(Runs) <=> stage[u] \in Runs
        /\ \A u \in Threads : u \in At(Runs)' <=> stage'[u] \in Runs
        /\ At(Runs) \subseteq Threads /\ At(Runs)' \subseteq Threads
    BY DEF At
  <1>. QED
    BY <1>1, <1>2

LEMMA WaitingIsList ==
  ASSUME Shape
  PROVE  \A t : t \in Abstract!Waiting <=> \E i \in 1..Len(list) : t = list[i]
  BY DEF Shape, Abstract!Waiting

\* Each step keeps ListOK, and is a step of Executor or changes nothing of it.
LEMMA ExecutorStep ==
  ASSUME IInv, ListOK, [Next]_vars
  PROVE  ListOK' /\ [Abstract!Next]_(Abstract!vars)
  <1>. USE DEF work, stats, loose, caller
  <1>0. Shape
    BY DEF IInv
  <1>. DEFINE Goal == ListOK' /\ [Abstract!Next]_(Abstract!vars)
  <1>a. At({"taken", "running", "alone"}) = At(Runs)
    BY DEF Runs
  <1>b. ASSUME UNCHANGED <<list, At(Runs)>>
        PROVE  UNCHANGED Abstract!vars
    BY <1>b DEF Abstract!vars, Runs
  <1>1. ASSUME NEW c \in Callers, NEW t \in Threads, Enqueue(c, t)
        PROVE  Goal
    <2>1. /\ list' = Append(list, t) /\ stage[t] = "free" /\ stage'[t] = "queued"
          /\ \A u \in Threads \ {t} : stage'[u] = stage[u]
          /\ list \in Seq(Threads)
      BY <1>0, <1>1 DEF Enqueue, Stage, Shape
    <2>2. /\ Len(list') = Len(list) + 1 /\ Len(list) \in Nat
          /\ \A i \in 1..Len(list) : /\ list'[i] = list[i] /\ list[i] \in Threads
                                     /\ list[i] # t
          /\ list'[Len(list) + 1] = t
      BY <2>1 DEF ListOK
    <2>3. ListOK'
      BY <2>1, <2>2 DEF ListOK
    <2>4. At(Runs)' = At(Runs) /\ t \notin At(Runs)
      BY <1>0, <1>1, <2>1, RunsStep DEF Enqueue, Runs, At
    <2>5. t \notin Abstract!Waiting
      BY <1>0, <2>2, WaitingIsList
    <2>6. Abstract!Submit(t)
      BY <2>1, <2>4, <2>5 DEF Abstract!Submit, Runs
    <2>. QED
      BY <2>3, <2>6 DEF Abstract!Next
  <1>2. ASSUME Pop
        PROVE  Goal
    <2>1. list # <<>>
      <3>1. woken > 0 /\ woken \in Nat /\ semaphore \in Nat /\ Posting \in Nat
            /\ semaphore + woken + Posting = Len(list)
        BY <1>2, Before DEF Pop, Sums
      <3>2. Len(list) > 0
        BY <3>1
      <3>. QED
        BY <3>2
    <2>2. /\ list' = Tail(list) /\ Stage(Head(list), "queued", "taken")
          /\ list \in Seq(Threads) /\ Head(list) \in Threads /\ Head(list) = list[1]
      BY <1>0, <1>2, <2>1 DEF Pop, Shape
    <2>3. \A u \in Threads \ {Head(list)} : stage'[u] = stage[u]
      BY <1>0, <2>2 DEF Stage, Shape
    <2>4. /\ Len(list) \in Nat \ {0} /\ Len(list') = Len(list) - 1
          /\ \A i \in 1..Len(list') : list'[i] = list[i + 1] /\ i + 1 \in 1..Len(list)
      BY <2>1, <2>2
    <2>5. \A i \in 1..Len(list') : list'[i] \in Threads /\ list'[i] # Head(list)
      BY <2>2, <2>4 DEF ListOK
    <2>6. ListOK'
      <3>1. \A i \in 1..Len(list') : stage'[list'[i]] = "queued"
        BY <2>3, <2>4, <2>5 DEF ListOK
      <3>2. \A i, j \in 1..Len(list') : list'[i] = list'[j] => i = j
        <4>1. TAKE i, j \in 1..Len(list')
        <4>2. HAVE list'[i] = list'[j]
        <4>3. i + 1 = j + 1
          BY <2>4, <4>2 DEF ListOK
        <4>. QED
          BY <2>4, <4>3
      <3>. QED
        BY <3>1, <3>2 DEF ListOK
    <2>7. At(Runs)' = At(Runs) \cup {Head(list)}
      BY <1>0, <2>2, RunsStep DEF Runs
    <2>8. Abstract!Begin
      BY <2>1, <2>2, <2>7 DEF Abstract!Begin, Runs
    <2>. QED
      BY <2>6, <2>8 DEF Abstract!Next
  <1>3. ASSUME NEW t \in Threads, SingleBegin(t)
        PROVE  Goal
    <2>1. Stage(t, "created", "alone") /\ UNCHANGED list
      BY <1>3 DEF SingleBegin
    <2>2. ListOK'
      BY <1>0, <2>1, OtherStage
    <2>3. At(Runs)' = At(Runs) \cup {t} /\ t \notin At(Runs)
      BY <1>0, <2>1, RunsStep DEF Runs
    <2>4. t \notin Abstract!Waiting
      BY <1>0, <2>1, WaitingIsList DEF ListOK, Stage
    <2>5. Abstract!BeginAlone(t)
      BY <2>1, <2>3, <2>4 DEF Abstract!BeginAlone, Runs
    <2>. QED
      BY <2>2, <2>5 DEF Abstract!Next
  <1>4. ASSUME NEW t \in Threads, Finish(t) \/ SingleFinish(t)
        PROVE  Goal
    <2>1. UNCHANGED list /\ (Stage(t, "running", "ending") \/ Stage(t, "alone", "leaving"))
      BY <1>4 DEF Finish, SingleFinish
    <2>2. ListOK'
      BY <1>0, <2>1, OtherStage
    <2>3. At(Runs)' = At(Runs) \ {t} /\ t \in At(Runs)
      BY <1>0, <2>1, RunsStep DEF Runs
    <2>4. Abstract!Finish(t)
      BY <2>1, <2>3 DEF Abstract!Finish, Runs
    <2>. QED
      BY <2>2, <2>4 DEF Abstract!Next
  \* The other changes of stage are not seen by Executor.
  <1>5. ASSUME NEW t \in Threads, UNCHANGED list,
               \/ Stage(t, "taken", "running") \/ Stage(t, "ending", "free")
               \/ Stage(t, "free", "claimed") \/ Stage(t, "claimed", "created")
               \/ Stage(t, "leaving", "free")
        PROVE  Goal
    <2>1. ListOK'
      BY <1>0, <1>5, OtherStage
    <2>2. At(Runs)' = At(Runs)
      BY <1>0, <1>5, RunsStep DEF Runs
    <2>. QED
      BY <1>5, <1>b, <2>1, <2>2
  <1>6. ASSUME UNCHANGED <<list, stage>>
        PROVE  Goal
    <2>1. ListOK'
      BY <1>6, SameList
    <2>2. At(Runs)' = At(Runs)
      BY <1>6 DEF At
    <2>. QED
      BY <1>6, <1>b, <2>1, <2>2
  <1>7. ASSUME NEW t \in Threads, Begin(t) \/ Rest(t) \/ Retire(t) \/ SingleEnd(t)
        PROVE  Goal
    BY <1>5, <1>7 DEF Begin, Rest, Retire, SingleEnd
  <1>8. ASSUME NEW c \in Callers, NEW t \in Threads, Claim(c, t)
        PROVE  Goal
    BY <1>5, <1>8 DEF Claim
  <1>9. ASSUME NEW c \in Callers, CreateSingle(c)
        PROVE  Goal
    <2>1. mine[c] \in Threads /\ UNCHANGED list /\ Stage(mine[c], "claimed", "created")
      BY <1>0, <1>9 DEF CreateSingle, Shape, Go
    <2>. QED
      BY <1>5, <2>1
  <1>10. ASSUME NEW c \in Callers, Check(c) \/ CreateWorker(c) \/ Post(c) \/ CreateFail(c)
                                       \/ Wrap(c) \/ WrapEnd(c)
        PROVE  Goal
    BY <1>6, <1>10 DEF Check, CreateWorker, Post, CreateFail, Wrap, WrapEnd
  <1>11. ASSUME SemaWait \/ UNCHANGED vars
         PROVE  Goal
    BY <1>6, <1>11 DEF SemaWait, vars
  <1>. HIDE DEF Goal
  <1>12. ASSUME NEW c \in Callers, Start(c) \/ Schedule(c) \/ CreateFail(c)
                                       \/ Wrap(c) \/ WrapEnd(c)
        PROVE  Goal
    BY <1>1, <1>8, <1>9, <1>10, <1>12 DEF Start, Schedule
  <1>13. ASSUME NEW t \in Threads, Worker(t) \/ Single(t)
        PROVE  Goal
    BY <1>3, <1>4, <1>7, <1>13 DEF Worker, Single
  <1>14. ASSUME Next PROVE Goal
    BY <1>2, <1>11, <1>12, <1>13, <1>14 DEF Next
  <1>15. Next \/ UNCHANGED vars
    OBVIOUS
  <1>16. Goal
    BY <1>11, <1>14, <1>15
  <1>. QED
    BY <1>16 DEF Goal

\* Each function that is started is run by one worker, and in the order of the
\* queue (thread.c:962-967, 787-794).
THEOREM ImplementsExecutor == Spec => ExecutorSpec
  <1>1. Init => ListOK /\ Abstract!Init
    <2>. SUFFICES ASSUME Init PROVE ListOK /\ Abstract!Init
      OBVIOUS
    <2>1. At({"taken", "running", "alone"}) = {}
      BY DEF Init, At
    <2>2. ListOK
      BY DEF Init, ListOK
    <2>. QED
      BY <2>1, <2>2 DEF Init, Abstract!Init
  <1>2. IInv /\ ListOK /\ [Next]_vars => ListOK' /\ [Abstract!Next]_(Abstract!vars)
    BY ExecutorStep
  <1>. QED
    BY <1>1, <1>2, InductiveInvariant, PTL DEF Spec, ExecutorSpec, Abstract!Spec
=============================================================================
