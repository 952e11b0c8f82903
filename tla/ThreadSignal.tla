---------------------------- MODULE ThreadSignal ----------------------------
(***************************************************************************)
(* The signals of one thread structure of src/memmgr/thread.c, through all *)
(* of its lives: XplThreadSignal pushes a signal on the stack under the    *)
(* lock of the structure and posts its semaphore afterwards; XplThreadCatch*)
(* and XplThreadJoin take a post first and look at the stack, or at        *)
(* running, under the lock.  The context of a signal goes with it and is   *)
(* left out.                                                               *)
(*                                                                         *)
(* Self is the thread, run by a worker; Clients are others who know it: by *)
(* the handle of XplThreadStart, or as a member of its group.              *)
(***************************************************************************)
EXTENDS Integers, Sequences, FiniteSets

CONSTANTS
  Clients, Self,
  Signals, SIGTERM,
  MAX_SIGNAL_STACK,
  JoinOnce            \* do the clients join a thread only once?

ASSUME ThreadSignalAssumption ==
  /\ IsFiniteSet(Clients) /\ Self \notin Clients
  /\ SIGTERM \in Signals
  /\ MAX_SIGNAL_STACK \in Nat \ {0}
  /\ JoinOnce \in BOOLEAN

Actors == Clients \cup {Self}

VARIABLES
  running,     \* userThread.running
  stack,       \* signalStack, up to its first 0
  posts,       \* signalLock.sema
  held,        \* is there a handle?
  joined,      \* was the thread joined?
  pc           \* where an actor is

vars == <<running, stack, posts, held, joined, pc>>

Init ==
  /\ running = FALSE
  /\ stack = <<>> /\ posts = 0
  /\ held = FALSE /\ joined = FALSE
  /\ pc = [a \in Actors |-> IF a = Self THEN "free" ELSE "idle"]

Go(a, from, to) == pc[a] = from /\ pc' = [pc EXCEPT ![a] = to]

\* Where a thread is a member of its group.
Linked == pc[Self] \notin {"free", "drain", "drainPop", "gone"}
-----------------------------------------------------------------------------
(* XplThreadSignal and XplThreadGroupSignal *)

\* Under the lock: a signal that finds no place is refused with ENOSPC.
Push(a, s, from, to, full) ==
  /\ IF Len(stack) < MAX_SIGNAL_STACK
     THEN Go(a, from, to) /\ stack' = Append(stack, s)
     ELSE Go(a, from, full) /\ UNCHANGED stack
  /\ UNCHANGED <<running, posts, held, joined>>

\* XplCondSignal, after the lock is released.
Post(a, from, to) ==
  /\ Go(a, from, to)
  /\ posts' = posts + 1
  /\ UNCHANGED <<running, stack, held, joined>>

\* With the handle, or from the thread itself.
Signal(a) ==
  /\ a # Self => held
  /\ \E s \in Signals :
       IF a = Self THEN Push(a, s, "run", "post", "run") ELSE Push(a, s, "idle", "post", "idle")

SignalPost(a) == Post(a, "post", IF a = Self THEN "run" ELSE "idle")

\* With the group's lock, which the thread needs to leave the group.
GroupSignal(c) == /\ Linked /\ \A d \in Clients : pc[d] # "groupPost"
                  /\ \E s \in Signals : Push(c, s, "idle", "groupPost", "idle")

GroupSignalPost(c) == Post(c, "groupPost", "idle")
-----------------------------------------------------------------------------
(* XplThreadCatch, XplThreadTerminated *)

\* XplCondWait returns with a post.
Take(a, from, to) ==
  /\ posts > 0
  /\ Go(a, from, to)
  /\ posts' = posts - 1
  /\ UNCHANGED <<running, stack, held, joined>>

\* It times out, when it may.
Timeout(a, from, to) ==
  /\ posts = 0
  /\ Go(a, from, to)
  /\ UNCHANGED <<running, stack, posts, held, joined>>

\* Mutant: the stack is cleared, not moved up.
PoppedAll == <<>>

\* _GetSignal takes the first signal, if there is one.
Popped == IF stack = <<>> THEN <<>> ELSE Tail(stack)

Call(op) == /\ Go(Self, "run", op)
            /\ UNCHANGED <<running, stack, posts, held, joined>>

CatchPop ==
  /\ Go(Self, "pop", "run")
  /\ stack' = Popped
  /\ UNCHANGED <<running, posts, held, joined>>

\* XplThreadTerminated drops a signal that is not SIGTERM, and puts SIGTERM
\* back behind the others.
TerminatedPop ==
  /\ Go(Self, "terminatedPop", IF stack # <<>> /\ Head(stack) = SIGTERM THEN "again" ELSE "run")
  /\ stack' = Popped
  /\ UNCHANGED <<running, posts, held, joined>>

TerminatedAgain == Push(Self, SIGTERM, "again", "post", "run")

Catch == \/ Call("catch") \/ Call("terminated")
         \/ Timeout(Self, "catch", "run") \/ Timeout(Self, "terminated", "run")
         \/ CatchPop \/ TerminatedPop \/ TerminatedAgain

CatchTake == Take(Self, "catch", "pop") \/ Take(Self, "terminated", "terminatedPop")
-----------------------------------------------------------------------------
(* XplThreadJoin *)

Join(c) ==
  /\ held
  /\ JoinOnce => ~joined /\ \A d \in Clients : pc[d] \notin {"join", "joinTest", "joinPost"}
  /\ Go(c, "idle", "join")
  /\ UNCHANGED <<running, stack, posts, held, joined>>

JoinTake(c) == Take(c, "join", "joinTest")

JoinTimeout(c) == Timeout(c, "join", "idle")

\* Mutant: the post is not given back while the thread runs.
JoinTestKeep(c) ==
  /\ Go(c, "joinTest", IF running THEN "join" ELSE "idle")
  /\ joined' = (joined \/ ~running)
  /\ UNCHANGED <<running, stack, posts, held>>

\* While the thread runs the post is left to whoever catches its signals; when
\* it has ended it is kept.
JoinTest(c) ==
  /\ Go(c, "joinTest", IF running THEN "joinPost" ELSE "idle")
  /\ joined' = (joined \/ ~running)
  /\ UNCHANGED <<running, stack, posts, held>>

JoinPost(c) == Post(c, "joinPost", "join")
-----------------------------------------------------------------------------
(* The life of the structure: start, end, XplThreadFree *)

\* XplThreadStart takes the structure from the cache.
Start ==
  /\ Go(Self, "free", "run")
  /\ running' = TRUE
  /\ stack' = <<>>
  /\ held' \in BOOLEAN
  /\ joined' = FALSE
  /\ UNCHANGED posts

Return ==
  /\ Go(Self, "run", "exit")
  /\ running' = FALSE
  /\ UNCHANGED <<stack, posts, held, joined>>

\* Mutant: nobody is told.
ExitSilent ==
  /\ Go(Self, "exit", "leave")
  /\ UNCHANGED <<running, stack, posts, held, joined>>

\* The worker signals the thread it has run, for those who join.
Exit == Push(Self, SIGTERM, "exit", "exitPost", "leave")

ExitPost == Post(Self, "exitPost", "leave")

\* _XplThreadDestroy takes the group's lock; XplThreadFree drops the worker's
\* reference.
Leave ==
  /\ \A c \in Clients : pc[c] # "groupPost"
  /\ Go(Self, "leave", IF held THEN "gone" ELSE "drain")
  /\ UNCHANGED <<running, stack, posts, held, joined>>

\* The clients free the handle when none of them uses it any more.
FreeHandle(c) ==
  /\ held
  /\ \A d \in Clients : pc[d] \in {"idle", "groupPost"}
  /\ Go(c, "idle", IF pc[Self] = "gone" THEN "drain" ELSE "idle")
  /\ held' = FALSE
  /\ UNCHANGED <<running, stack, posts, joined>>

\* Whoever drops the last reference catches what is left, without waiting ...
DrainTake(a) == Take(a, "drain", "drainPop")

DrainPop(a) ==
  /\ Go(a, "drainPop", "drain")
  /\ stack' = Popped
  /\ UNCHANGED <<running, posts, held, joined>>

\* Mutant: the posts stay.
RecycleUndrained(a) ==
  /\ pc[a] = "drain"
  /\ running' = FALSE
  /\ stack' = <<>>
  /\ pc' = [pc EXCEPT ![a] = IF a = Self THEN "free" ELSE "idle", ![Self] = "free"]
  /\ UNCHANGED <<posts, held, joined>>

\* ... and puts the structure into the cache.
Recycle(a) ==
  /\ pc[a] = "drain" /\ posts = 0
  /\ running' = FALSE
  /\ stack' = <<>>
  /\ pc' = [pc EXCEPT ![a] = IF a = Self THEN "free" ELSE "idle", ![Self] = "free"]
  /\ UNCHANGED <<posts, held, joined>>
-----------------------------------------------------------------------------
Clear(a) == DrainTake(a) \/ DrainPop(a) \/ Recycle(a)

Ending == Exit \/ ExitPost \/ Leave

Joining(c) == JoinTest(c) \/ JoinPost(c)

Next == \/ \E a \in Actors : Signal(a) \/ SignalPost(a) \/ Clear(a)
        \/ \E c \in Clients : \/ GroupSignal(c) \/ GroupSignalPost(c)
                              \/ Join(c) \/ JoinTake(c) \/ JoinTimeout(c) \/ Joining(c)
                              \/ FreeHandle(c)
        \/ Catch \/ CatchTake
        \/ Start \/ Return \/ Ending

\* Whoever is inside the library goes on.  A semaphore that is posted again and
\* again is not always taken by others.
Fairness == /\ WF_vars(Ending) /\ WF_vars(CatchPop \/ TerminatedPop \/ TerminatedAgain)
            /\ SF_vars(CatchTake)
            /\ \A a \in Actors : WF_vars(SignalPost(a)) /\ WF_vars(Clear(a))
            /\ \A c \in Clients : /\ WF_vars(GroupSignalPost(c)) /\ WF_vars(Joining(c))
                                  /\ SF_vars(JoinTake(c))

Spec == Init /\ [][Next]_vars

FairSpec == Spec /\ Fairness
-----------------------------------------------------------------------------
(* Properties *)

At(S) == {a \in Actors : pc[a] \in S}

SelfPlaces == {"free", "run", "post", "catch", "pop", "terminated", "terminatedPop",
               "again", "exit", "exitPost", "leave", "gone", "drain", "drainPop"}

ClientPlaces == {"idle", "post", "groupPost", "join", "joinTest", "joinPost", "drain", "drainPop"}

TypeOK ==
  /\ running \in BOOLEAN /\ held \in BOOLEAN /\ joined \in BOOLEAN
  /\ stack \in Seq(Signals) /\ Len(stack) <= MAX_SIGNAL_STACK
  /\ posts \in Nat
  /\ pc \in [Actors -> SelfPlaces \cup ClientPlaces]
  /\ pc[Self] \in SelfPlaces
  /\ \A c \in Clients : pc[c] \in ClientPlaces

\* Who has taken a post and not yet its signal, or pushed and not yet posted.
HandPlaces == {"post", "groupPost", "exitPost", "pop", "terminatedPop", "joinTest",
               "joinPost", "drainPop"}

InHand == At(HandPlaces)

\* Semaphore and stack stay in step though they change at different times: no
\* post is without its signal, and while the thread runs no signal is without
\* its post (thread.c:1499-1511, 1604-1612, 1658-1663).
PostsAgree ==
  /\ posts + Cardinality(InHand) <= Len(stack)
  /\ running => posts + Cardinality(InHand) = Len(stack)

\* A catch that was woken finds a signal: the assertion of thread.c:1662.
SignalFound == At({"pop", "terminatedPop", "drainPop"}) # {} => stack # <<>>

\* A structure in the cache has neither a signal nor a post from its former
\* life, and nobody refers to it (thread.c:1364-1385).
CleanReuse ==
  pc[Self] = "free" => /\ posts = 0 /\ stack = <<>> /\ ~held
                       /\ \A c \in Clients : pc[c] = "idle"

\* A thread that waits for a signal gets the one that was sent, whoever joins
\* it meanwhile (thread.c:1607-1612, 1658).
CatchReturns == pc[Self] = "catch" /\ stack # <<>> ~> pc[Self] # "catch"

\* XplThreadJoin blocks until the thread has exited (xplthread.h:480-481).
JoinReturns == \A c \in Clients : pc[c] = "join" /\ ~running ~> pc[c] # "join"
=============================================================================
