------------------------------- MODULE Service -------------------------------
(***************************************************************************)
(* A program under XplMain that uses alarms: the system raises SIGALRM,    *)
(* XPLSignalProcessor sends it to the signal thread, and the signal thread *)
(* calls XplAlarmSignal and starts the callbacks.                          *)
(*                                                                         *)
(* The program sets a signal handler before it uses alarms, as SIGALRM     *)
(* would kill it otherwise, and shuts them down before _XplMain returns.   *)
(* A behaviour has shutdown handlers or alarms, which have no state in     *)
(* common.                                                                 *)
(***************************************************************************)
EXTENDS Alarms, XplMain

vars == <<alarmVars, mainVars>>

Init == AlarmInit /\ MainInit

NoAlarms == consumers = 0 /\ \A u \in Users : apc[u] = "idle"

MainStep ==
  /\ \/ MainGoesOn
     \/ Return /\ ~terminate /\ NoAlarms
     \/ XplSignalHandler /\ ~installed
     \/ consumers = 0 /\ calls = 0 /\ \E t \in Threads \cup {"main"} :
          \/ XplOnShutdown(t)
          \/ \E cb \in Callbacks \cup {Null}, b \in Batons \cup {Null} : XplOnShutdownCancel(t, cb, b)
  /\ UNCHANGED alarmVars

SystemSignal == (\E s \in Signals : SignalProcessor(s)) /\ UNCHANGED alarmVars

\* alarm(2) and the signal of its end.
AlarmRings == /\ raised /\ raised' = FALSE
              /\ SignalProcessor("SIGALRM")
              /\ UNCHANGED <<consumers, handles, list, info, chain, tick, apc, delay, calls>>

SignalThreadStep == SignalThread /\ UNCHANGED alarmVars

SignalAlarm == AlarmSignal /\ Goes("alarm", "chain") /\ UNCHANGED <<signo, stack>>

SignalChain == IF chain = <<>>
               THEN Goes("chain", "catch") /\ signo' = None /\ UNCHANGED <<stack, alarmVars>>
               ELSE StartCallback /\ spc = "chain" /\ UNCHANGED mainVars

UserBegins == /\ mpc = "main" /\ installed /\ registered = 0 /\ ~terminate
              /\ \E u \in Users : Begin(u)
              /\ UNCHANGED mainVars

UserGoesOn(u) == Finish(u) /\ UNCHANGED mainVars

\* Told to terminate, the program gives its alarms up and returns.
Obey == /\ mpc = "main" /\ terminate
        /\ \/ \E u \in Users : XplAlarmShutdown(u) /\ UNCHANGED mainVars
           \/ Return /\ NoAlarms /\ UNCHANGED alarmVars

Clock == (Second \/ Expire) /\ UNCHANGED mainVars

Next == \/ MainStep \/ SystemSignal \/ AlarmRings
        \/ SignalThreadStep \/ SignalAlarm \/ SignalChain
        \/ UserBegins \/ Obey \/ Clock
        \/ \E u \in Users : UserGoesOn(u)

\* Time passes and signals arrive; threads go on; callbacks return; a program
\* that was sent SIGTERM returns.
Fairness ==
  /\ WF_vars(Clock) /\ SF_vars(AlarmRings)
  /\ WF_vars(MainGoesOn /\ UNCHANGED alarmVars)
  /\ WF_vars(SignalThreadStep \/ SignalAlarm \/ SignalChain)
  /\ \A u \in Users : WF_vars(UserGoesOn(u))
  /\ WF_vars(Obey)

Spec == Init /\ [][Next]_vars /\ Fairness
-----------------------------------------------------------------------------
(* Properties *)

\* An alarm that waits is called or destroyed, though creators and the signal
\* thread set the one tick of the process in any order, from what they saw
\* (xplalarm.c:368, 466).
AlarmsFire ==
  \A a \in Addresses : spc # "none" /\ info[a] # None /\ info[a].age > 0
                         ~> (info[a] = None \/ info[a].age = 0)
=============================================================================
