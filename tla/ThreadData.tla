----------------------------- MODULE ThreadData -----------------------------
(***************************************************************************)
(* What a thread carries, src/memmgr/thread.c: the data in its registered  *)
(* slots, and the cancel points on its stack, which another thread marks.  *)
(* The library is initialized.                                             *)
(*                                                                         *)
(* A structure that is used for another thread keeps its data: the slots   *)
(* are those of the structure.  The points of a list are under its lock;   *)
(* their owner looks at them without it.                                   *)
(***************************************************************************)
EXTENDS Integers, Sequences, Lists

CONSTANTS
  Owners, Groups,    \* the threads, and their groups
  Labels, MaxData,   \* the names that are registered, MAX_USER_DATA
  Data, NoData, NoLabel,
  Points, Contexts, NoContext, NoOwner

SlotIds == 0..(MaxData - 1)

VARIABLES
  userRegistration, userData,
  first,       \* the slot each name was given at first, or MaxData
  cancelList, point, stack,
  walk,        \* the XplCancelThread under way: whom it looks for, where it is
  due          \* the context each point should have been given, or NoContext

dataVars == <<userRegistration, userData, first, cancelList, point, stack, walk, due>>

Idle    == [thread |-> NoOwner, context |-> NoContext, todo |-> <<>>, half |-> FALSE]
NoPoint == [thread |-> NoOwner, cancelled |-> FALSE, context |-> NoContext]

DataInit ==
  /\ userRegistration = [s \in SlotIds |-> NoLabel] /\ first = [n \in Labels |-> MaxData]
  /\ userData = [o \in Owners \cup Groups |-> [s \in SlotIds |-> NoData]]
  /\ cancelList = <<>> /\ point = [p \in Points |-> NoPoint] /\ stack = [t \in Owners |-> <<>>]
  /\ walk = Idle /\ due = [p \in Points |-> NoContext]

SlotsUnchanged  == UNCHANGED <<userRegistration, userData, first>>
CancelUnchanged == UNCHANGED <<cancelList, point, stack, walk, due>>
-----------------------------------------------------------------------------
(* Slots *)

Registered(n) == {s \in SlotIds : userRegistration[s] = n}

\* The slot that has the name, otherwise the first that is free.
SlotFor(n) == IF Registered(n) # {} THEN Registered(n) ELSE Registered(NoLabel)

RegisterData(n) ==
  /\ \E s \in SlotFor(n) :
       /\ \A r \in SlotFor(n) : s <= r
       /\ userRegistration' = [userRegistration EXCEPT ![s] = n]
       /\ first' = [first EXCEPT ![n] = IF @ = MaxData THEN s ELSE @]
  /\ UNCHANGED userData /\ CancelUnchanged

ValidateSlot(s) == userRegistration[s] # NoLabel

Store(o, s, d) ==
  /\ ValidateSlot(s) /\ userData' = [userData EXCEPT ![o][s] = d]
  /\ UNCHANGED <<userRegistration, first>> /\ CancelUnchanged

SetData(t, s, d)      == t \in Owners /\ Store(t, s, d)
GroupSetData(g, s, d) == g \in Groups /\ Store(g, s, d)
-----------------------------------------------------------------------------
(* Cancel points *)

Unlocked == walk = Idle

\* Mutant: a new point goes to the end of the list.
LinkedLast(p) == Append(cancelList, p)

Linked(p) == <<p>> \o cancelList

CancelInit(t, p) ==
  /\ Unlocked /\ \A u \in Owners : ~Contains(stack[u], p)
  /\ point' = [point EXCEPT ![p] = [thread |-> t, cancelled |-> FALSE, context |-> NoContext]]
  /\ cancelList' = Linked(p) /\ stack' = [stack EXCEPT ![t] = <<p>> \o @]
  /\ UNCHANGED <<walk, due>> /\ SlotsUnchanged

\* A thread destroys its points in the order it likes.
CancelDestroy(t, p) ==
  /\ Unlocked /\ Contains(stack[t], p)
  /\ cancelList' = Without(cancelList, p) /\ stack' = [stack EXCEPT ![t] = Without(@, p)]
  /\ point' = [point EXCEPT ![p].thread = NoOwner, ![p].context = NoContext]
  /\ due' = [due EXCEPT ![p] = NoContext] /\ UNCHANGED walk /\ SlotsUnchanged

\* The points a call is for: the innermost of a thread, or, without one, all.
Meant(t) == IF t = NoOwner THEN UNION {Range(stack[u]) : u \in Owners}
            ELSE IF stack[t] = <<>> THEN {} ELSE {Head(stack[t])}

BeginCancel(t, c) ==
  /\ Unlocked /\ cancelList # <<>>
  /\ walk' = [thread |-> t, context |-> c, todo |-> cancelList, half |-> FALSE]
  /\ due' = [p \in Points |-> IF p \in Meant(t) THEN c ELSE due[p]]
  /\ UNCHANGED <<cancelList, point, stack>> /\ SlotsUnchanged

\* Marks the point, then hands it the context; a call for one thread ends there.
CancelNext ==
  /\ ~Unlocked
  /\ LET p == Head(walk.todo)
         passes == walk.thread \notin {NoOwner, point[p].thread}
         ends == Len(walk.todo) = 1 \/ (walk.thread # NoOwner /\ ~passes)
     IN  IF ~passes /\ ~walk.half
         THEN walk' = [walk EXCEPT !.half = TRUE] /\ point' = [point EXCEPT ![p].cancelled = TRUE]
         ELSE /\ walk' = IF ends THEN Idle ELSE [walk EXCEPT !.half = FALSE, !.todo = Tail(@)]
              /\ point' = IF passes THEN point ELSE [point EXCEPT ![p].context = walk.context]
  /\ UNCHANGED <<cancelList, stack, due>> /\ SlotsUnchanged

SlotsNext ==
  \/ \E n \in Labels : RegisterData(n)
  \/ \E o \in Owners \cup Groups, s \in SlotIds, d \in Data : SetData(o, s, d) \/ GroupSetData(o, s, d)

CancelsNext ==
  \/ \E t \in Owners, p \in Points : CancelInit(t, p) \/ CancelDestroy(t, p)
  \/ \E t \in Owners \cup {NoOwner}, c \in Contexts : BeginCancel(t, c)
  \/ CancelNext
-----------------------------------------------------------------------------
(* Properties *)

\* A name keeps its slot, and no data is set in a slot without a name.
SlotsSound ==
  /\ \A n \in Labels : Registered(n) = IF first[n] = MaxData THEN {} ELSE {first[n]}
  /\ \A o \in Owners \cup Groups, s \in SlotIds : userData[o][s] # NoData => userRegistration[s] # NoLabel

\* The list holds the points that are on a stack, and a call marks the points it
\* is for and no others, with its context.
PointsSound ==
  /\ IsInjective(cancelList) /\ Range(cancelList) = UNION {Range(stack[t]) : t \in Owners}
  /\ \A p \in Range(cancelList) :
       /\ Unlocked => point[p].context = due[p]
       /\ point[p].cancelled => due[p] # NoContext

\* Both (thread.c:1750-1809, 1963-2139).
ThreadDataSound == SlotsSound /\ PointsSound
=============================================================================
