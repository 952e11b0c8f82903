------------------------------ MODULE WinAlarms ------------------------------
(***************************************************************************)
(* Alarms on Windows, src/xpl/xplalarm.c: every alarm has a timer of the   *)
(* system, whose firing starts a thread that looks the alarm up again by   *)
(* its address.                                                            *)
(*                                                                         *)
(* An address may be given to a new alarm while its maker, a firing or the *)
(* owner of the old one still use it, and a timer may fire before the      *)
(* alarm knows it.  A timer whose alarm is gone before it is stored there  *)
(* cannot be deleted any more; lost holds those, and the timers they       *)
(* overwrite.  Times are left out.                                         *)
(***************************************************************************)
EXTENDS Integers, Sequences, FiniteSets, Lists

CONSTANTS
  Clients,    \* each with a handle of its own
  Addresses,  \* bound on the alarms
  TimerIds,   \* bound on the timers of the system
  NoTimer, NoAlarm

VARIABLES
  alarms,     \* XplAlarms.head
  alarm,      \* what is at an address
  consumers, handles,
  osTimers, lost,
  wrappers,   \* the firings under way: alarm, and the timer it deletes
  made,       \* the alarm each client makes, and whether it was unlinked meanwhile
  mine, step  \* the alarms a client was given, and where it is

winVars == <<alarms, alarm, consumers, handles, osTimers, lost, wrappers, made, mine, step>>

Blank   == [repeat |-> FALSE, timer |-> NoTimer, handle |-> CHOOSE t \in Clients : TRUE]
NotMade == [alarm |-> NoAlarm, timer |-> NoTimer, repeat |-> FALSE, gone |-> FALSE]

WinInit ==
  /\ alarms = <<>> /\ alarm = [a \in Addresses |-> Blank] /\ consumers = 0 /\ handles = {}
  /\ osTimers = {} /\ lost = {} /\ wrappers = {} /\ made = [t \in Clients |-> NotMade]
  /\ mine = [t \in Clients |-> {}] /\ step = [t \in Clients |-> "out"]

Moves(t, from, to) == step[t] = from /\ step' = [step EXCEPT ![t] = to]

\* Unlinks the alarms of a set and frees them; whoever makes one of them does not notice.
Unlinked(gone) ==
  /\ \E at \in InOrder({k \in DOMAIN alarms : alarms[k] \notin gone}) :
       alarms' = [k \in DOMAIN at |-> alarms[at[k]]]
  /\ alarm' = [a \in Addresses |-> IF a \in gone THEN Blank ELSE alarm[a]]
  /\ made' = [t \in Clients |-> [made[t] EXCEPT !.gone = @ \/ made[t].alarm \in gone]]

DeleteTimers(ids) == osTimers' = {k \in osTimers : k.id \notin ids}

Listed == Range(alarms)

removeAlarm(gone) ==
  Unlinked(gone \cap Listed) /\ DeleteTimers({alarm[a].timer : a \in gone \cap Listed})
-----------------------------------------------------------------------------
Open(t) ==
  /\ Moves(t, "out", "in") /\ consumers' = consumers + 1 /\ handles' = handles \cup {t}
  /\ UNCHANGED <<alarms, alarm, osTimers, lost, wrappers, made, mine>>

\* The alarms of the handle go, and the handle; the count follows, and after
\* the last whatever there is then.
Shutdown(t) ==
  /\ Moves(t, "in", "count")
  /\ removeAlarm({a \in Addresses : alarm[a].handle = t}) /\ handles' = handles \ {t}
  /\ UNCHANGED <<consumers, lost, wrappers, mine>>

CountOut(t) ==
  /\ Moves(t, "count", IF consumers = 1 THEN "last" ELSE "out")
  /\ consumers' = consumers - 1 /\ mine' = [mine EXCEPT ![t] = {}]
  /\ UNCHANGED <<alarms, alarm, handles, osTimers, lost, wrappers, made>>

CloseLast(t) ==
  /\ Moves(t, "last", "out") /\ removeAlarm(Addresses)
  /\ UNCHANGED <<consumers, handles, lost, wrappers, mine>>

Destroy(t) ==
  /\ step[t] = "in" /\ mine[t] # {}
  /\ \E a \in mine[t] : removeAlarm({a}) /\ mine' = [mine EXCEPT ![t] = @ \ {a}]
  /\ UNCHANGED <<consumers, handles, lost, wrappers, step>>
-----------------------------------------------------------------------------
(* XplAlarmCreate: lists the alarm, and asks for its timer without the lock *)

Insert(t) ==
  /\ Moves(t, "in", "make")
  /\ \E a \in Addresses \ Listed, r \in BOOLEAN :
       /\ alarms' = <<a>> \o alarms
       /\ alarm' = [alarm EXCEPT ![a] = [repeat |-> r, timer |-> NoTimer, handle |-> t]]
       /\ made' = [made EXCEPT ![t] = [alarm |-> a, timer |-> NoTimer, repeat |-> r, gone |-> FALSE]]
  /\ UNCHANGED <<consumers, handles, osTimers, lost, wrappers, mine>>

InUse == {k.id : k \in osTimers} \cup {w.timer : w \in wrappers}

CreateTimer(t) ==
  /\ Moves(t, "make", "store")
  /\ \E k \in TimerIds \ InUse :
       /\ osTimers' = osTimers \cup {[id |-> k, alarm |-> made[t].alarm,
                                      once |-> ~made[t].repeat, fired |-> FALSE]}
       /\ made' = [made EXCEPT ![t].timer = k]
  /\ UNCHANGED <<alarms, alarm, consumers, handles, lost, wrappers, mine>>

Lost(ids) == ids \cap {k.id : k \in osTimers}

\* The handle is written to where the alarm was, also when it is gone.
Store(t) ==
  LET a == made[t].alarm IN
  /\ Moves(t, "store", "in")
  /\ alarm' = IF a \in Listed THEN [alarm EXCEPT ![a].timer = made[t].timer] ELSE alarm
  /\ lost' = IF made[t].gone THEN Lost(lost \cup {made[t].timer, alarm[a].timer}) ELSE lost
  /\ mine' = [mine EXCEPT ![t] = @ \cup {a}] /\ made' = [made EXCEPT ![t] = NotMade]
  /\ UNCHANGED <<alarms, consumers, handles, osTimers, wrappers>>

CreateFails(t) ==
  LET a == made[t].alarm IN
  /\ Moves(t, "make", "in")
  /\ lost' = IF made[t].gone THEN Lost(lost \cup {alarm[a].timer}) ELSE lost
  /\ alarms' = Without(alarms, a)
  /\ alarm' = [alarm EXCEPT ![a] = Blank]
  /\ made' = [u \in Clients |-> IF u = t THEN NotMade ELSE [made[u] EXCEPT !.gone = @ \/ made[u].alarm = a]]
  /\ UNCHANGED <<consumers, handles, osTimers, wrappers, mine>>
-----------------------------------------------------------------------------
(* _XplAlarmCallback and _XplAlarmWrapper *)

\* That it has fired matters of a timer that fires once.
Fire ==
  /\ \E k \in osTimers :
       /\ ~(k.once /\ k.fired) /\ \A w \in wrappers : w.of # k.id
       /\ wrappers' = wrappers \cup {[of |-> k.id, alarm |-> k.alarm, timer |-> NoTimer, at |-> "find"]}
       /\ osTimers' = (osTimers \ {k}) \cup {[k EXCEPT !.fired = k.once]}
  /\ UNCHANGED <<alarms, alarm, consumers, handles, lost, made, mine, step>>

\* Mutant: the timer of an alarm that does not repeat is not deleted.
TakenNot(a) == NoTimer

Taken(a) == alarm[a].timer

\* An alarm that does not repeat is unlinked under the lock.
Find ==
  /\ \E w \in wrappers :
       LET a == w.alarm  once == a \in Listed /\ ~alarm[a].repeat IN
       /\ w.at = "find"
       /\ Unlinked(IF once THEN {a} ELSE {})
       /\ wrappers' = (wrappers \ {w}) \cup
                      {[w EXCEPT !.at = "call", !.timer = IF once THEN Taken(a) ELSE NoTimer]}
  /\ UNCHANGED <<consumers, handles, osTimers, lost, mine, step>>

Call ==
  /\ \E w \in wrappers :
       w.at = "call" /\ DeleteTimers({w.timer}) /\ wrappers' = wrappers \ {w}
  /\ UNCHANGED <<alarms, alarm, consumers, handles, lost, made, mine, step>>

Client(t) ==
  \/ Open(t) \/ Shutdown(t) \/ CountOut(t) \/ CloseLast(t) \/ Destroy(t)
  \/ Insert(t) \/ CreateTimer(t) \/ Store(t) \/ CreateFails(t)

WinNext == Fire \/ Find \/ Call \/ \E t \in Clients : Client(t)
-----------------------------------------------------------------------------
(* Properties *)

Kept(k) ==
  \/ \E a \in Listed : alarm[a].timer = k.id
  \/ \E w \in wrappers : w.timer = k.id
  \/ \E t \in Clients : made[t].timer = k.id
  \/ k.id \in lost

\* Every timer of the system is that of a listed alarm, or someone is about to
\* delete or store it, or it was lost to an alarm that went before its timer
\* was stored; and a listed alarm that has a timer has one that exists
\* (xplalarm.c:54-74, 151-188, 199-236).
WinAlarmsSound ==
  /\ IsInjective(alarms)
  /\ \A k \in osTimers : Kept(k)
  /\ \A a \in Listed : alarm[a].timer # NoTimer => \E k \in osTimers : k.id = alarm[a].timer
=============================================================================
