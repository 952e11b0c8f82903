------------------------- MODULE ThreadSignalProofs -------------------------
(***************************************************************************)
(* The signals of a thread, for any number of clients and any size of the  *)
(* stack.  Whoever is inside an operation accounts for the difference      *)
(* between the semaphore and the stack; each action moves one actor into   *)
(* or out of the places that count.                                        *)
(***************************************************************************)
EXTENDS ThreadSignal, FiniteSetTheorems, TLAPS

Hand == Cardinality(InHand)

InH(p) == IF p \in HandPlaces THEN 1 ELSE 0

RunPlaces == {"run", "post", "catch", "pop", "terminated", "terminatedPop", "again"}

Unreferenced == {"free", "drain", "drainPop"}

\* Where clients are, and what that says of the handle and of the thread.
Roles ==
  /\ running => pc[Self] \in RunPlaces
  /\ \A c \in Clients :
       /\ pc[c] \in {"post", "join", "joinTest", "joinPost"} => held
       /\ pc[c] = "groupPost" => Linked
       /\ pc[c] \in {"drain", "drainPop"} => ~held /\ pc[Self] = "gone"
  /\ \A c, d \in Clients :
       pc[c] \in {"drain", "drainPop"} /\ pc[d] \in {"drain", "drainPop"} => c = d
  /\ pc[Self] \in Unreferenced => ~held
  /\ pc[Self] = "free" => posts = 0 /\ stack = <<>>

IInv == TypeOK /\ Roles /\ PostsAgree
-----------------------------------------------------------------------------
LEMMA HandNat == Hand \in Nat /\ IsFiniteSet(InHand)
  <1>1. InHand \in SUBSET Actors
    BY DEF InHand, At
  <1>2. IsFiniteSet(Actors)
    BY ThreadSignalAssumption, FS_AddElement DEF Actors
  <1>3. IsFiniteSet(InHand)
    BY <1>1, <1>2, FS_Subset
  <1>. QED
    BY <1>3, FS_CardinalityType DEF Hand

\* One actor moves.
LEMMA Moved ==
  ASSUME TypeOK, NEW a \in Actors, NEW to, pc' = [pc EXCEPT ![a] = to]
  PROVE  /\ Hand \in Nat /\ Hand' \in Nat
         /\ Hand' = Hand + InH(to) - InH(pc[a])
  <1>1. pc \in [Actors -> SelfPlaces \cup ClientPlaces]
    BY DEF TypeOK
  <1>2. IsFiniteSet(InHand) /\ Hand \in Nat
    BY HandNat
  <1>3. a \in InHand <=> pc[a] \in HandPlaces
    BY DEF InHand, At
  <1>4. InHand' = IF to \in HandPlaces THEN InHand \cup {a} ELSE InHand \ {a}
    BY <1>1 DEF InHand, At
  <1>5. CASE to \in HandPlaces
    <2>1. Hand' = Cardinality(InHand \cup {a})
      BY <1>4, <1>5 DEF Hand
    <2>2. Hand' = IF a \in InHand THEN Hand ELSE Hand + 1
      BY <2>1, <1>2, FS_AddElement DEF Hand
    <2>. QED
      BY <2>2, <1>2, <1>3, <1>5 DEF InH
  <1>6. CASE to \notin HandPlaces
    <2>1. Hand' = Cardinality(InHand \ {a})
      BY <1>4, <1>6 DEF Hand
    <2>2. Hand' = IF a \in InHand THEN Hand - 1 ELSE Hand
      BY <2>1, <1>2, FS_RemoveElement DEF Hand
    <2>3. IsFiniteSet(InHand \ {a})
      BY <1>2, FS_RemoveElement
    <2>4. Hand' \in Nat
      BY <2>1, <2>3, FS_CardinalityType
    <2>. QED
      BY <2>2, <2>4, <1>2, <1>3, <1>6 DEF InH
  <1>. QED
    BY <1>5, <1>6

\* ... from one place to another.
LEMMA MovedFrom ==
  ASSUME TypeOK, NEW a \in Actors, NEW from, NEW to, Go(a, from, to)
  PROVE  /\ Hand \in Nat /\ Hand' \in Nat
         /\ from \in HandPlaces /\ to \notin HandPlaces => Hand' = Hand - 1
         /\ from \notin HandPlaces /\ to \in HandPlaces => Hand' = Hand + 1
         /\ from \notin HandPlaces /\ to \notin HandPlaces => Hand' = Hand
         /\ from \in HandPlaces /\ to \in HandPlaces => Hand' = Hand
  <1>1. pc[a] = from /\ pc' = [pc EXCEPT ![a] = to]
    BY DEF Go
  <1>2. /\ Hand \in Nat /\ Hand' \in Nat
        /\ Hand' = Hand + InH(to) - InH(pc[a])
    BY <1>1, Moved
  <1>3. Hand' = Hand + InH(to) - InH(from)
    BY <1>1, <1>2
  <1>. QED
    BY <1>2, <1>3 DEF InH

\* Nobody has anything in hand.
LEMMA NobodyInHand == InHand = {} => Hand = 0
  BY FS_EmptySet DEF Hand
-----------------------------------------------------------------------------
(* Semaphore and stack *)

Agree == /\ posts + Hand <= Len(stack)
         /\ running => posts + Hand = Len(stack)

LEMMA AgreeIsPostsAgree == PostsAgree <=> Agree
  BY DEF PostsAgree, Agree, Hand

LEMMA PushAgrees ==
  ASSUME TypeOK, Agree, NEW a \in Actors, NEW s \in Signals, NEW from, NEW to, NEW full,
         Push(a, s, from, to, full),
         from \notin HandPlaces, to \in HandPlaces, full \notin HandPlaces
  PROVE  Agree'
  <1>1. stack \in Seq(Signals) /\ posts \in Nat /\ running' = running /\ posts' = posts
    BY DEF TypeOK, Push
  <1>2. CASE Len(stack) < MAX_SIGNAL_STACK
    <2>0. Go(a, from, to)
      BY <1>2 DEF Push
    <2>1. stack' = Append(stack, s)
      BY <1>2 DEF Push
    <2>2. Hand \in Nat /\ Hand' = Hand + 1
      BY <2>0, MovedFrom
    <2>3. Len(stack') = Len(stack) + 1
      BY <2>1, <1>1
    <2>. QED
      BY <1>1, <2>2, <2>3 DEF Agree
  <1>3. CASE ~(Len(stack) < MAX_SIGNAL_STACK)
    <2>0. Go(a, from, full)
      BY <1>3 DEF Push
    <2>1. stack' = stack
      BY <1>3 DEF Push
    <2>2. Hand \in Nat /\ Hand' = Hand
      BY <2>0, MovedFrom
    <2>. QED
      BY <1>1, <2>1, <2>2 DEF Agree
  <1>. QED
    BY <1>2, <1>3

LEMMA PostAgrees ==
  ASSUME TypeOK, Agree, NEW a \in Actors, NEW from, NEW to, Post(a, from, to),
         from \in HandPlaces, to \notin HandPlaces
  PROVE  Agree'
  <1>1. Hand \in Nat /\ Hand' = Hand - 1
    BY MovedFrom DEF Post
  <1>. QED
    BY <1>1 DEF Post, Agree, TypeOK

LEMMA TakeAgrees ==
  ASSUME TypeOK, Agree, NEW a \in Actors, NEW from, NEW to, Take(a, from, to),
         from \notin HandPlaces, to \in HandPlaces
  PROVE  Agree'
  <1>1. Hand \in Nat /\ Hand' = Hand + 1
    BY MovedFrom DEF Take
  <1>. QED
    BY <1>1 DEF Take, Agree, TypeOK

\* A move that touches neither, among the places that do not count.
LEMMA IdleAgrees ==
  ASSUME TypeOK, Agree, NEW a \in Actors, NEW from, NEW to, Go(a, from, to),
         stack' = stack, posts' = posts, running' => running,
         from \notin HandPlaces, to \notin HandPlaces
  PROVE  Agree'
  <1>1. Hand \in Nat /\ Hand' = Hand
    BY MovedFrom
  <1>. QED
    BY <1>1 DEF Agree, TypeOK

\* Whoever has a post in hand finds a signal.
LEMMA HandFinds ==
  ASSUME TypeOK, Agree, NEW a \in Actors, pc[a] \in HandPlaces
  PROVE  stack # <<>>
  <1>1. a \in InHand
    BY DEF InHand, At
  <1>2. Hand # 0 /\ Hand \in Nat
    BY <1>1, HandNat, FS_EmptySet DEF Hand
  <1>3. Len(stack) > 0
    BY <1>2 DEF Agree, TypeOK
  <1>. QED
    BY <1>3

LEMMA PopAgrees ==
  ASSUME TypeOK, Agree, NEW a \in Actors, NEW from, NEW to, Go(a, from, to),
         stack' = Popped, posts' = posts, running' = running,
         from \in HandPlaces, to \notin HandPlaces
  PROVE  Agree'
  <1>1. Hand \in Nat /\ Hand' = Hand - 1
    BY MovedFrom
  <1>2. stack # <<>>
    BY HandFinds DEF Go
  <1>3. Len(stack') = Len(stack) - 1
    BY <1>2 DEF Popped, TypeOK
  <1>. QED
    BY <1>1, <1>3 DEF Agree, TypeOK
-----------------------------------------------------------------------------
(* Types *)

LEMMA SelfIsActor == Self \in Actors
  BY DEF Actors

LEMMA ClientIsActor ==
  ASSUME NEW c \in Clients
  PROVE  c \in Actors /\ c # Self
  BY ThreadSignalAssumption DEF Actors

LEMMA EmptyStack == <<>> \in Seq(Signals) /\ Len(<<>>) <= MAX_SIGNAL_STACK
  BY ThreadSignalAssumption

LEMMA GoTypes ==
  ASSUME TypeOK, NEW a \in Actors, NEW from, NEW to, Go(a, from, to),
         a = Self => to \in SelfPlaces, a # Self => to \in ClientPlaces,
         running' \in BOOLEAN, held' \in BOOLEAN, joined' \in BOOLEAN,
         stack' \in Seq(Signals), Len(stack') <= MAX_SIGNAL_STACK, posts' \in Nat
  PROVE  TypeOK'
  BY ThreadSignalAssumption DEF TypeOK, Go, Actors

LEMMA PushTypes ==
  ASSUME TypeOK, NEW a \in Actors, NEW s \in Signals, NEW from, NEW to, NEW full,
         Push(a, s, from, to, full),
         a = Self => to \in SelfPlaces /\ full \in SelfPlaces,
         a # Self => to \in ClientPlaces /\ full \in ClientPlaces
  PROVE  TypeOK'
  <1>1. /\ running' \in BOOLEAN /\ held' \in BOOLEAN /\ joined' \in BOOLEAN /\ posts' \in Nat
        /\ stack \in Seq(Signals) /\ Len(stack) <= MAX_SIGNAL_STACK
        /\ MAX_SIGNAL_STACK \in Nat
    BY ThreadSignalAssumption DEF Push, TypeOK
  <1>2. CASE Len(stack) < MAX_SIGNAL_STACK
    <2>1. Go(a, from, to) /\ stack' = Append(stack, s)
      BY <1>2 DEF Push
    <2>2. stack' \in Seq(Signals) /\ Len(stack') <= MAX_SIGNAL_STACK
      BY <1>1, <1>2, <2>1
    <2>. QED
      BY <1>1, <2>1, <2>2, GoTypes
  <1>3. CASE ~(Len(stack) < MAX_SIGNAL_STACK)
    <2>1. Go(a, from, full) /\ stack' = stack
      BY <1>3 DEF Push
    <2>. QED
      BY <1>1, <2>1, GoTypes
  <1>. QED
    BY <1>2, <1>3

LEMMA PoppedTypes ==
  ASSUME TypeOK
  PROVE  Popped \in Seq(Signals) /\ Len(Popped) <= MAX_SIGNAL_STACK
  BY ThreadSignalAssumption DEF TypeOK, Popped

\* Every step keeps the types.
LEMMA TypeStep ==
  ASSUME TypeOK, Next \/ UNCHANGED vars
  PROVE  TypeOK'
  <1>1. ASSUME NEW a \in Actors, Signal(a) PROVE TypeOK'
    <2>1. PICK s \in Signals : Push(a, s, IF a = Self THEN "run" ELSE "idle", "post", IF a = Self THEN "run" ELSE "idle")
      BY <1>1 DEF Signal
    <2>. QED
      BY <2>1, PushTypes DEF SelfPlaces, ClientPlaces
  <1>2. ASSUME NEW a \in Actors, SignalPost(a) PROVE TypeOK'
    BY <1>2, GoTypes DEF SignalPost, Post, TypeOK, SelfPlaces, ClientPlaces
  <1>3. ASSUME NEW a \in Actors, DrainTake(a) PROVE TypeOK'
    BY <1>3, GoTypes DEF DrainTake, Take, TypeOK, SelfPlaces, ClientPlaces
  <1>4. ASSUME NEW a \in Actors, DrainPop(a) PROVE TypeOK'
    BY <1>4, GoTypes, PoppedTypes DEF DrainPop, TypeOK, SelfPlaces, ClientPlaces
  <1>5. ASSUME NEW a \in Actors, Recycle(a) PROVE TypeOK'
    <2>1. stack' \in Seq(Signals) /\ Len(stack') <= MAX_SIGNAL_STACK
      BY <1>5, EmptyStack DEF Recycle
    <2>2. /\ pc' \in [Actors -> SelfPlaces \cup ClientPlaces]
          /\ pc'[Self] \in SelfPlaces
          /\ \A c \in Clients : pc'[c] \in ClientPlaces
      BY <1>5, ThreadSignalAssumption DEF Recycle, TypeOK, Actors, SelfPlaces, ClientPlaces
    <2>. QED
      BY <1>5, <2>1, <2>2 DEF Recycle, TypeOK
  <1>6. ASSUME NEW c \in Clients, GroupSignal(c) PROVE TypeOK'
    <2>1. PICK s \in Signals : Push(c, s, "idle", "groupPost", "idle")
      BY <1>6 DEF GroupSignal
    <2>. QED
      BY <2>1, ClientIsActor, PushTypes DEF ClientPlaces
  <1>7. ASSUME NEW c \in Clients, GroupSignalPost(c) PROVE TypeOK'
    BY <1>7, ClientIsActor, GoTypes DEF GroupSignalPost, Post, TypeOK, ClientPlaces
  <1>8. ASSUME NEW c \in Clients, Join(c) PROVE TypeOK'
    BY <1>8, ClientIsActor, GoTypes DEF Join, TypeOK, ClientPlaces
  <1>9. ASSUME NEW c \in Clients, JoinTake(c) PROVE TypeOK'
    BY <1>9, ClientIsActor, GoTypes DEF JoinTake, Take, TypeOK, ClientPlaces
  <1>10. ASSUME NEW c \in Clients, JoinTimeout(c) PROVE TypeOK'
    BY <1>10, ClientIsActor, GoTypes DEF JoinTimeout, Timeout, TypeOK, ClientPlaces
  <1>11. ASSUME NEW c \in Clients, JoinTest(c) PROVE TypeOK'
    BY <1>11, ClientIsActor, GoTypes DEF JoinTest, TypeOK, ClientPlaces
  <1>12. ASSUME NEW c \in Clients, JoinPost(c) PROVE TypeOK'
    BY <1>12, ClientIsActor, GoTypes DEF JoinPost, Post, TypeOK, ClientPlaces
  <1>13. ASSUME NEW c \in Clients, FreeHandle(c) PROVE TypeOK'
    BY <1>13, ClientIsActor, GoTypes DEF FreeHandle, TypeOK, ClientPlaces
  <1>14. ASSUME (Call("catch") \/ Call("terminated")) PROVE TypeOK'
    BY <1>14, SelfIsActor, GoTypes DEF Call, TypeOK, SelfPlaces
  <1>15. ASSUME (Timeout(Self, "catch", "run") \/ Timeout(Self, "terminated", "run")) PROVE TypeOK'
    BY <1>15, SelfIsActor, GoTypes DEF Timeout, TypeOK, SelfPlaces
  <1>16. ASSUME CatchPop PROVE TypeOK'
    BY <1>16, SelfIsActor, GoTypes, PoppedTypes DEF CatchPop, TypeOK, SelfPlaces
  <1>17. ASSUME TerminatedPop PROVE TypeOK'
    BY <1>17, SelfIsActor, GoTypes, PoppedTypes DEF TerminatedPop, TypeOK, SelfPlaces
  <1>18. ASSUME TerminatedAgain PROVE TypeOK'
    BY <1>18, SelfIsActor, PushTypes, ThreadSignalAssumption DEF TerminatedAgain, SelfPlaces
  <1>19. ASSUME CatchTake PROVE TypeOK'
    BY <1>19, SelfIsActor, GoTypes DEF CatchTake, Take, TypeOK, SelfPlaces
  <1>20. ASSUME Start PROVE TypeOK'
    <2>1. stack' \in Seq(Signals) /\ Len(stack') <= MAX_SIGNAL_STACK
      BY <1>20, EmptyStack DEF Start
    <2>. QED
      BY <1>20, <2>1, SelfIsActor, GoTypes DEF Start, TypeOK, SelfPlaces
  <1>21. ASSUME Return PROVE TypeOK'
    BY <1>21, SelfIsActor, GoTypes DEF Return, TypeOK, SelfPlaces
  <1>22. ASSUME Exit PROVE TypeOK'
    BY <1>22, SelfIsActor, PushTypes, ThreadSignalAssumption DEF Exit, SelfPlaces
  <1>23. ASSUME ExitPost PROVE TypeOK'
    BY <1>23, SelfIsActor, GoTypes DEF ExitPost, Post, TypeOK, SelfPlaces
  <1>24. ASSUME Leave PROVE TypeOK'
    BY <1>24, SelfIsActor, GoTypes DEF Leave, TypeOK, SelfPlaces
  <1>25. ASSUME UNCHANGED vars PROVE TypeOK'
    BY <1>25 DEF vars, TypeOK
  <1>. QED
    BY <1>1, <1>2, <1>3, <1>4, <1>5, <1>6, <1>7, <1>8, <1>9, <1>10, <1>11, <1>12, <1>13,
       <1>14, <1>15, <1>16, <1>17, <1>18, <1>19, <1>20, <1>21, <1>22, <1>23, <1>24, <1>25
       DEF Next, Clear, Catch, Ending, Joining

-----------------------------------------------------------------------------
(* Roles, and the invariant *)

\* Every step keeps the roles of the clients.
LEMMA RoleStep ==
  ASSUME TypeOK, Roles, Next \/ UNCHANGED vars
  PROVE  Roles'
  <1> USE ThreadSignalAssumption DEF Roles, RunPlaces, Unreferenced, Linked, TypeOK, Actors, Go
  <1>1. ASSUME NEW a \in Actors, Signal(a) PROVE Roles'
    BY <1>1 DEF Signal, Push
  <1>2. ASSUME NEW a \in Actors, SignalPost(a) PROVE Roles'
    BY <1>2 DEF SignalPost, Post
  <1>3. ASSUME NEW a \in Actors, DrainTake(a) PROVE Roles'
    BY <1>3 DEF DrainTake, Take
  <1>4. ASSUME NEW a \in Actors, DrainPop(a) PROVE Roles'
    BY <1>4 DEF DrainPop, Popped
  <1>5. ASSUME NEW a \in Actors, Recycle(a) PROVE Roles'
    BY <1>5 DEF Recycle
  <1>6. ASSUME NEW c \in Clients, GroupSignal(c) PROVE Roles'
    BY <1>6 DEF GroupSignal, Push
  <1>7. ASSUME NEW c \in Clients, GroupSignalPost(c) PROVE Roles'
    BY <1>7 DEF GroupSignalPost, Post
  <1>8. ASSUME NEW c \in Clients, Join(c) PROVE Roles'
    BY <1>8 DEF Join
  <1>9. ASSUME NEW c \in Clients, JoinTake(c) PROVE Roles'
    BY <1>9 DEF JoinTake, Take
  <1>10. ASSUME NEW c \in Clients, JoinTimeout(c) PROVE Roles'
    BY <1>10 DEF JoinTimeout, Timeout
  <1>11. ASSUME NEW c \in Clients, JoinTest(c) PROVE Roles'
    BY <1>11 DEF JoinTest
  <1>12. ASSUME NEW c \in Clients, JoinPost(c) PROVE Roles'
    BY <1>12 DEF JoinPost, Post
  <1>13. ASSUME NEW c \in Clients, FreeHandle(c) PROVE Roles'
    BY <1>13 DEF FreeHandle
  <1>14. ASSUME (Call("catch") \/ Call("terminated")) PROVE Roles'
    BY <1>14 DEF Call
  <1>15. ASSUME (Timeout(Self, "catch", "run") \/ Timeout(Self, "terminated", "run")) PROVE Roles'
    BY <1>15 DEF Timeout
  <1>16. ASSUME CatchPop PROVE Roles'
    BY <1>16 DEF CatchPop, Popped
  <1>17. ASSUME TerminatedPop PROVE Roles'
    BY <1>17 DEF TerminatedPop, Popped
  <1>18. ASSUME TerminatedAgain PROVE Roles'
    BY <1>18 DEF TerminatedAgain, Push
  <1>19. ASSUME CatchTake PROVE Roles'
    BY <1>19 DEF CatchTake, Take
  <1>20. ASSUME Start PROVE Roles'
    BY <1>20 DEF Start
  <1>21. ASSUME Return PROVE Roles'
    BY <1>21 DEF Return
  <1>22. ASSUME Exit PROVE Roles'
    BY <1>22 DEF Exit, Push
  <1>23. ASSUME ExitPost PROVE Roles'
    BY <1>23 DEF ExitPost, Post
  <1>24. ASSUME Leave PROVE Roles'
    BY <1>24 DEF Leave
  <1>25. ASSUME UNCHANGED vars PROVE Roles'
    BY <1>25 DEF vars
  <1>. QED
    BY <1>1, <1>2, <1>3, <1>4, <1>5, <1>6, <1>7, <1>8, <1>9, <1>10, <1>11, <1>12, <1>13,
       <1>14, <1>15, <1>16, <1>17, <1>18, <1>19, <1>20, <1>21, <1>22, <1>23, <1>24, <1>25
       DEF Next, Clear, Catch, Ending, Joining

\* Every step keeps semaphore and stack together.
LEMMA AgreeStep ==
  ASSUME TypeOK, Roles, Agree, Next \/ UNCHANGED vars
  PROVE  Agree'
  <1>1. ASSUME NEW a \in Actors, Signal(a) PROVE Agree'
    <2>1. PICK s \in Signals : Push(a, s, IF a = Self THEN "run" ELSE "idle", "post", IF a = Self THEN "run" ELSE "idle")
      BY <1>1 DEF Signal
    <2>. QED
      BY <2>1, PushAgrees DEF HandPlaces
  <1>2. ASSUME NEW a \in Actors, SignalPost(a) PROVE Agree'
    BY <1>2, PostAgrees DEF SignalPost, HandPlaces
  <1>3. ASSUME NEW a \in Actors, DrainTake(a) PROVE Agree'
    BY <1>3, TakeAgrees DEF DrainTake, HandPlaces
  <1>4. ASSUME NEW a \in Actors, DrainPop(a) PROVE Agree'
    BY <1>4, PopAgrees DEF DrainPop, HandPlaces
  <1>5. ASSUME NEW a \in Actors, Recycle(a) PROVE Agree'
    <2>1. pc \in [Actors -> SelfPlaces \cup ClientPlaces]
      BY DEF TypeOK
    <2>2. pc' = [pc EXCEPT ![a] = IF a = Self THEN "free" ELSE "idle", ![Self] = "free"]
      BY <1>5 DEF Recycle
    <2>3. ~held /\ pc[Self] \notin HandPlaces /\ ~Linked
      BY <1>5 DEF Recycle, Roles, Actors, Linked, HandPlaces, Unreferenced
    <2>4. \A c \in Clients : c # a => pc[c] \notin HandPlaces
      BY <1>5, <2>3, ThreadSignalAssumption DEF Recycle, Roles, Actors, HandPlaces, TypeOK, ClientPlaces, Linked
    <2>5. \A b \in Actors : pc'[b] \notin HandPlaces
      BY <2>1, <2>2, <2>3, <2>4 DEF HandPlaces, Actors
    <2>6. InHand' = {}
      BY <2>5 DEF InHand, At
    <2>7. Hand' = 0
      BY <2>6, FS_EmptySet DEF Hand
    <2>. QED
      BY <1>5, <2>7 DEF Recycle, Agree
  <1>6. ASSUME NEW c \in Clients, GroupSignal(c) PROVE Agree'
    <2>1. PICK s \in Signals : Push(c, s, "idle", "groupPost", "idle")
      BY <1>6 DEF GroupSignal
    <2>. QED
      BY <2>1, ClientIsActor, PushAgrees DEF HandPlaces
  <1>7. ASSUME NEW c \in Clients, GroupSignalPost(c) PROVE Agree'
    BY <1>7, ClientIsActor, PostAgrees DEF GroupSignalPost, HandPlaces
  <1>8. ASSUME NEW c \in Clients, Join(c) PROVE Agree'
    BY <1>8, ClientIsActor, IdleAgrees DEF Join, HandPlaces
  <1>9. ASSUME NEW c \in Clients, JoinTake(c) PROVE Agree'
    BY <1>9, ClientIsActor, TakeAgrees DEF JoinTake, HandPlaces
  <1>10. ASSUME NEW c \in Clients, JoinTimeout(c) PROVE Agree'
    BY <1>10, ClientIsActor, IdleAgrees DEF JoinTimeout, Timeout, HandPlaces
  <1>11. ASSUME NEW c \in Clients, JoinTest(c) PROVE Agree'
    <2>1. c \in Actors /\ Go(c, "joinTest", IF running THEN "joinPost" ELSE "idle")
      BY <1>11, ClientIsActor DEF JoinTest
    <2>2. /\ Hand \in Nat
          /\ running => Hand' = Hand
          /\ ~running => Hand' = Hand - 1
      BY <2>1, MovedFrom DEF HandPlaces
    <2>. QED
      BY <1>11, <2>2 DEF JoinTest, Agree, TypeOK
  <1>12. ASSUME NEW c \in Clients, JoinPost(c) PROVE Agree'
    BY <1>12, ClientIsActor, PostAgrees DEF JoinPost, HandPlaces
  <1>13. ASSUME NEW c \in Clients, FreeHandle(c) PROVE Agree'
    BY <1>13, ClientIsActor, IdleAgrees DEF FreeHandle, HandPlaces
  <1>14. ASSUME (Call("catch") \/ Call("terminated")) PROVE Agree'
    BY <1>14, SelfIsActor, IdleAgrees DEF Call, HandPlaces
  <1>15. ASSUME (Timeout(Self, "catch", "run") \/ Timeout(Self, "terminated", "run")) PROVE Agree'
    BY <1>15, SelfIsActor, IdleAgrees DEF Timeout, HandPlaces
  <1>16. ASSUME CatchPop PROVE Agree'
    BY <1>16, SelfIsActor, PopAgrees DEF CatchPop, HandPlaces
  <1>17. ASSUME TerminatedPop PROVE Agree'
    BY <1>17, SelfIsActor, PopAgrees DEF TerminatedPop, HandPlaces
  <1>18. ASSUME TerminatedAgain PROVE Agree'
    BY <1>18, SelfIsActor, PushAgrees, ThreadSignalAssumption DEF TerminatedAgain, HandPlaces
  <1>19. ASSUME CatchTake PROVE Agree'
    BY <1>19, SelfIsActor, TakeAgrees DEF CatchTake, HandPlaces
  <1>20. ASSUME Start PROVE Agree'
    <2>1. Hand \in Nat /\ Hand' = Hand
      BY <1>20, SelfIsActor, MovedFrom DEF Start, HandPlaces
    <2>2. posts = 0 /\ stack = <<>>
      BY <1>20 DEF Start, Go, Roles
    <2>. QED
      BY <1>20, <2>1, <2>2 DEF Start, Agree, TypeOK
  <1>21. ASSUME Return PROVE Agree'
    BY <1>21, SelfIsActor, IdleAgrees DEF Return, HandPlaces
  <1>22. ASSUME Exit PROVE Agree'
    BY <1>22, SelfIsActor, PushAgrees, ThreadSignalAssumption DEF Exit, HandPlaces
  <1>23. ASSUME ExitPost PROVE Agree'
    BY <1>23, SelfIsActor, PostAgrees DEF ExitPost, HandPlaces
  <1>24. ASSUME Leave PROVE Agree'
    BY <1>24, SelfIsActor, IdleAgrees DEF Leave, HandPlaces
  <1>25. ASSUME UNCHANGED vars PROVE Agree'
    BY <1>25 DEF vars, Agree, Hand, InHand, At
  <1>. QED
    BY <1>1, <1>2, <1>3, <1>4, <1>5, <1>6, <1>7, <1>8, <1>9, <1>10, <1>11, <1>12, <1>13,
       <1>14, <1>15, <1>16, <1>17, <1>18, <1>19, <1>20, <1>21, <1>22, <1>23, <1>24, <1>25
       DEF Next, Clear, Catch, Ending, Joining

LEMMA Initially == Init => TypeOK /\ Roles /\ PostsAgree
  <1> SUFFICES ASSUME Init PROVE TypeOK /\ Roles /\ PostsAgree
    OBVIOUS
  <1>1. /\ pc \in [Actors -> SelfPlaces \cup ClientPlaces]
        /\ pc[Self] = "free"
        /\ \A c \in Clients : pc[c] = "idle"
    BY ThreadSignalAssumption DEF Init, Actors, SelfPlaces, ClientPlaces
  <1>2. TypeOK
    BY <1>1, EmptyStack DEF Init, TypeOK, SelfPlaces, ClientPlaces
  <1>3. Roles
    BY <1>1 DEF Init, Roles, Unreferenced
  <1>4. InHand = {}
    BY <1>1 DEF InHand, At, Actors, HandPlaces
  <1>5. Hand = 0
    BY <1>4, NobodyInHand
  <1>6. Agree
    BY <1>5 DEF Agree, Init
  <1>. QED
    BY <1>2, <1>3, <1>6, AgreeIsPostsAgree

LEMMA Step == IInv /\ [Next]_vars => IInv'
  <1> SUFFICES ASSUME IInv, [Next]_vars PROVE IInv'
    OBVIOUS
  <1>1. TypeOK /\ Roles /\ Agree
    BY AgreeIsPostsAgree DEF IInv
  <1>2. Next \/ UNCHANGED vars
    OBVIOUS
  <1>3. TypeOK' /\ Roles' /\ Agree'
    BY <1>1, <1>2, TypeStep, RoleStep, AgreeStep
  <1>4. PostsAgree'
    BY <1>3 DEF PostsAgree, Agree, Hand
  <1>. QED
    BY <1>3, <1>4 DEF IInv

LEMMA Invariant == Spec => []IInv
  <1>1. Init => IInv
    BY Initially DEF IInv
  <1>. QED
    BY <1>1, Step, PTL DEF Spec

\* The stack keeps within its bound and the semaphore does not go below 0.
THEOREM TypeCorrect == Spec => []TypeOK
  <1>1. IInv => TypeOK
    BY DEF IInv
  <1>. QED
    BY <1>1, Invariant, PTL

\* Whoever interleaves, no post is without its signal and, while the thread
\* runs, no signal without its post (thread.c:1499-1511, 1604-1612, 1658-1663).
THEOREM PostsAlwaysAgree == Spec => []PostsAgree
  <1>1. IInv => PostsAgree
    BY DEF IInv
  <1>. QED
    BY <1>1, Invariant, PTL

\* The assertion of thread.c:1662: a catch that was woken finds a signal.
THEOREM SignalIsFound == Spec => []SignalFound
  <1>1. IInv => SignalFound
    <2> SUFFICES ASSUME IInv, NEW a \in Actors, pc[a] \in {"pop", "terminatedPop", "drainPop"}
                 PROVE  stack # <<>>
      BY DEF SignalFound, At
    <2>1. TypeOK /\ Agree
      BY AgreeIsPostsAgree DEF IInv
    <2>. QED
      BY <2>1, HandFinds DEF HandPlaces
  <1>. QED
    BY <1>1, Invariant, PTL

\* A structure that is used again has nothing left of its former life
\* (thread.c:1364-1385).
THEOREM ReuseIsClean == Spec => []CleanReuse
  <1>1. IInv => CleanReuse
    <2> SUFFICES ASSUME IInv, pc[Self] = "free"
                 PROVE  /\ posts = 0 /\ stack = <<>> /\ ~held
                        /\ \A c \in Clients : pc[c] = "idle"
      BY DEF CleanReuse
    <2>1. posts = 0 /\ stack = <<>> /\ ~held
      BY DEF IInv, Roles, Unreferenced
    <2>2. ASSUME NEW c \in Clients PROVE pc[c] = "idle"
      BY <2>1 DEF IInv, Roles, TypeOK, ClientPlaces, Linked
    <2>. QED
      BY <2>1, <2>2
  <1>. QED
    BY <1>1, Invariant, PTL
=============================================================================
