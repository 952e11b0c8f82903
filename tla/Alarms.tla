------------------------------- MODULE Alarms -------------------------------
(***************************************************************************)
(* The alarms of src/xpl/xplalarm.c on POSIX: callbacks after a delay in   *)
(* seconds, once or repeated, driven by the one alarm(2) of the process.   *)
(*                                                                         *)
(* An alarm keeps the time of its last iteration and its delay; here it    *)
(* keeps its age, the seconds since then, up to MaxDelay + 1.  What holds  *)
(* XplAlarms.lock throughout is one step; the walk of XplAlarmCreate for   *)
(* the next tick and its alarm() hold no lock and are steps of their own.  *)
(* An alarm is its address, which malloc may hand out again.               *)
(***************************************************************************)
EXTENDS Integers, Sequences, FiniteSets, SequencesExt

CONSTANTS
  Users,        \* threads that use alarms, each with a handle of its own
  Addresses,    \* of alarms
  Plans,        \* the delays and repetitions asked for, as pairs
  MaxDelay,     \* the longest of them
  MaxCalls,     \* bound on the calls of XplAlarmCreate and XplAlarmDestroy
  None

ASSUME AlarmAssumption ==
  /\ MaxDelay \in Nat \ {0} /\ MaxCalls \in Nat
  /\ Plans \subseteq (0..MaxDelay) \X (0..MaxDelay)

VARIABLES
  consumers,    \* XplAlarms.consumers
  handles,      \* XplAlarms.handles, named by their users
  list,         \* XplAlarms.head
  info,         \* what is in the memory of an alarm
  chain,        \* the copies of the signal thread that are to be called
  tick,         \* seconds to SIGALRM, 0 in the one in which it comes, or None
  raised,       \* is SIGALRM pending?
  apc, delay,   \* where each user is, and its local variable
  calls         \* counts calls

alarmVars == <<consumers, handles, list, info, chain, tick, raised, apc, delay, calls>>

AlarmInit ==
  /\ consumers = 0 /\ handles = {}
  /\ list = <<>> /\ info = [a \in Addresses |-> None]
  /\ chain = <<>>
  /\ tick = None /\ raised = FALSE
  /\ apc = [u \in Users |-> "idle"] /\ delay = [u \in Users |-> 0]
  /\ calls = 0

Step(u, from, to) == apc[u] = from /\ apc' = [apc EXCEPT ![u] = to]

Call(u, from, to) == /\ calls < MaxCalls /\ u \in handles /\ calls' = calls + 1
                     /\ Step(u, from, to)
-----------------------------------------------------------------------------
(* The clock and alarm(2): SIGALRM comes within the second that is due.    *)

Older(i) == [i EXCEPT !.age = Min({@ + 1, MaxDelay + 1})]

Second ==
  /\ tick # 0
  /\ tick' = IF tick = None THEN None ELSE tick - 1
  /\ info' = [a \in Addresses |-> IF info[a] = None THEN None ELSE Older(info[a])]
  /\ UNCHANGED <<consumers, handles, list, chain, raised, apc, delay, calls>>

Expire ==
  /\ tick = 0
  /\ tick' = None /\ raised' = TRUE
  /\ UNCHANGED <<consumers, handles, list, info, chain, apc, delay, calls>>
-----------------------------------------------------------------------------
(* XplAlarmPrepareNextTick *)

\* The delay is that of the alarm, or else its repetition.
TimeLeft(i) == (IF i.delay # 0 THEN i.delay ELSE i.repeat) - i.age

\* Mutant: an alarm whose time has passed asks for no tick.
NextDelayForgets(l, m) ==
  LET ahead == {TimeLeft(m[l[k]]) : k \in DOMAIN l} \cap (Nat \ {0})
  IN  IF ahead = {} THEN 0 ELSE Min(ahead)

\* 0 is for none; one that has passed its time asks for one second.
NextDelay(l, m) ==
  IF l = <<>> THEN 0 ELSE Max({1, Min({TimeLeft(m[l[k]]) : k \in DOMAIN l})})

\* The caller has the lock.
PrepareNextTick(l, m) == tick' = IF NextDelay(l, m) = 0 THEN tick ELSE NextDelay(l, m)

Freed(l) == [a \in Addresses |-> IF a \in Range(l) THEN info[a] ELSE None]
-----------------------------------------------------------------------------
(* XplAlarmSignal, on the signal thread *)

IsDue(a) == info[a].delay - info[a].age <= 1

\* An alarm that is due is copied and starts again, or is freed.
AlarmSignal ==
  LET due  == SelectSeq(list, IsDue)
      kept == SelectSeq(list, LAMBDA a : ~IsDue(a) \/ info[a].repeat # 0)
      next == [a \in Addresses |->
                 IF a \notin Range(kept) THEN None
                 ELSE IF IsDue(a) THEN [info[a] EXCEPT !.age = 0, !.delay = info[a].repeat]
                 ELSE info[a]]
  IN  /\ IF consumers = 0
         THEN UNCHANGED <<list, info, chain, tick>>
         ELSE /\ list' = kept /\ info' = next
              /\ chain' = Reverse(due)
              /\ PrepareNextTick(kept, next)
      /\ UNCHANGED <<consumers, handles, raised, apc, delay, calls>>

\* XplThreadStart, for the first of the chain.
StartCallback ==
  /\ chain # <<>>
  /\ chain' = Tail(chain)
  /\ UNCHANGED <<consumers, handles, list, info, tick, raised, apc, delay, calls>>
-----------------------------------------------------------------------------
(* The calls of the users *)

\* A first consumer initializes the lock: no other may be in XplAlarmShutdown.
XplAlarmInit(u) ==
  /\ u \notin handles /\ \A v \in Users : apc[v] \notin {"release", "clear"}
  /\ Step(u, "idle", "init")
  /\ consumers' = consumers + 1
  /\ UNCHANGED <<handles, list, info, chain, tick, raised, delay, calls>>

AddHandle(u) ==
  /\ Step(u, "init", "idle")
  /\ handles' = handles \cup {u}
  /\ UNCHANGED <<consumers, list, info, chain, tick, raised, delay, calls>>

XplAlarmCreate(u) ==
  /\ Call(u, "idle", "prepare")
  /\ \E a \in Addresses, p \in Plans :
       /\ info[a] = None
       /\ info' = [info EXCEPT ![a] = [delay |-> p[1], repeat |-> p[2], age |-> 0, handle |-> u]]
       /\ list' = <<a>> \o list
  /\ UNCHANGED <<consumers, handles, chain, tick, raised, delay>>

\* Without the lock: what it has read may change before it calls alarm().
Prepare(u) ==
  /\ Step(u, "prepare", IF NextDelay(list, info) = 0 THEN "idle" ELSE "arm")
  /\ delay' = [delay EXCEPT ![u] = NextDelay(list, info)]
  /\ UNCHANGED <<consumers, handles, list, info, chain, tick, raised, calls>>

Arm(u) ==
  /\ Step(u, "arm", "idle")
  /\ tick' = delay[u] /\ delay' = [delay EXCEPT ![u] = 0]
  /\ UNCHANGED <<consumers, handles, list, info, chain, raised, calls>>

\* An address that is not in the list is ignored; one that was handed out again
\* is another alarm.
XplAlarmDestroy(u, a) ==
  LET kept == SelectSeq(list, LAMBDA b : b # a) IN
  /\ Call(u, "idle", "idle")
  /\ list' = kept /\ info' = Freed(kept)
  /\ PrepareNextTick(kept, info)
  /\ UNCHANGED <<consumers, handles, chain, raised, delay>>

XplAlarmShutdown(u) ==
  LET kept == SelectSeq(list, LAMBDA a : info[a].handle # u) IN
  /\ u \in handles
  /\ Step(u, "idle", "release")
  /\ list' = kept /\ info' = Freed(kept)
  /\ handles' = handles \ {u}
  /\ UNCHANGED <<consumers, chain, tick, raised, delay, calls>>

Release(u) ==
  /\ Step(u, "release", IF consumers = 1 THEN "clear" ELSE "idle")
  /\ consumers' = consumers - 1
  /\ UNCHANGED <<handles, list, info, chain, tick, raised, delay, calls>>

\* The last consumer destroys every alarm and calls alarm(0).
Clear(u) ==
  /\ Step(u, "clear", "idle")
  /\ list' = <<>> /\ info' = Freed(<<>>)
  /\ tick' = None
  /\ UNCHANGED <<consumers, handles, chain, raised, delay, calls>>

Begin(u) == XplAlarmInit(u) \/ XplAlarmCreate(u) \/ XplAlarmShutdown(u)
            \/ \E a \in Addresses : XplAlarmDestroy(u, a)

Finish(u) == AddHandle(u) \/ Prepare(u) \/ Arm(u) \/ Release(u) \/ Clear(u)
-----------------------------------------------------------------------------
(* Properties *)

\* When XplAlarmDestroy returns, no callback of the alarm is still to come
\* (xplalarmtest.c:127).
CancelIsFinal ==
  [][\A u \in Users, a \in Addresses : XplAlarmDestroy(u, a) => a \notin Range(chain')]_alarmVars
=============================================================================
