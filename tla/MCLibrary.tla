----------------------------- MODULE MCLibrary -----------------------------
(***************************************************************************)
(* The smaller parts of the library, one at a time: a behaviour is of one  *)
(* of them, and the others stay as they begin.                             *)
(***************************************************************************)
EXTENDS MemSizes

CONSTANTS
  Main, Others, Files, MaxReports, MaxOpens, MaxPending,  \* MemLibrary
  Letters, MaxDepth, MaxText, MaxPattern,                 \* Strings
  Sections, Items, Values, Unnamed, NoCfg, MaxLines,      \* CfgFile
  PerSecond, MaxNow, MaxCount,                            \* Timers
  Names, Matching, NoName,                                \* Directories
  Clients, Addresses, TimerIds, NoTimer, NoAlarm,         \* WinAlarms
  Owners, Groups, Labels, MaxData, Data, NoData, NoLabel, \* ThreadData
  Points, Contexts, NoContext, NoOwner,
  Workers, Width, NoOp,                                   \* Atomics
  Capacity, Keys, NoNode,                                 \* NodeMarks
  PerSec, PerMilli, MaxTime, MaxPosts, Timeouts           \* TimedWait

CONSTANTS m1, o1, f1, f2, s1, i1, i2, v1, v2, n1, n2, n3, c1, c2, a1, k1, k2,
          t1, t2, g1, l1, l2, l3, d1, p1, p2, p3, e1, e2

ASSUME LibraryAssumption ==
  /\ NoOp \notin Workers
  /\ NoTimer \notin TimerIds /\ NoAlarm \notin Addresses
  /\ MaxData \in Nat /\ NoLabel \notin Labels
  /\ NoContext \notin Contexts /\ NoOwner \notin Owners
  /\ NoName \notin Names
  /\ Main \notin Others
  /\ Capacity \in Seq(Nat) /\ Capacity # <<>> /\ NoNode \notin DOMAIN Capacity
  /\ PerSecond \in Nat \ {0} /\ PerSec \in Nat \ {0} /\ PerMilli \in Nat \ {0}
  /\ Timeouts \subseteq Nat \cup {-1}

\* Sixteen pools of sizes 1 to 16.
MCSizes == [i \in 1..16 |-> i]

MCCapacity == <<1, 3>>
MCTimeouts == {-1, 0, 2, 4}

VARIABLES part,
  initState, state, useCount, consumers, list, asked, worker, signals, refused,
  stringHash, at, file, seen, named,
  subject, pattern,
  cfg, disk, toWrite, then, unsaved,
  now, start, lap, laps, accum, longest, shortest,
  kind, place, present, stayed, unread, entry, spare, chain, base, heap,
  starved, shown,
  alarms, alarm, winConsumers, handles, osTimers, lost, wrappers, made,
  mine, step,
  userRegistration, userData, first, cancelList, point, stack, walk, due,
  number, holder, op, returned, total, promised,
  node, holding, doing, locked, spoilt, report,
  time, value, wait, posted, taken

L == INSTANCE MemLibrary
S == INSTANCE Strings
C == INSTANCE CfgFile
T == INSTANCE Timers
D == INSTANCE Directories
W == INSTANCE WinAlarms WITH consumers <- winConsumers
X == INSTANCE ThreadData
A == INSTANCE Atomics
N == INSTANCE NodeMarks
P == INSTANCE TimedWait

library == <<initState, state, useCount, consumers, list, asked, worker,
             signals, refused, stringHash, at, file, seen, named>>
strings == <<subject, pattern>>
config == <<cfg, disk, toWrite, then, unsaved>>
timers == <<now, start, lap, laps, accum, longest, shortest>>
directory == <<kind, place, present, stayed, unread, entry, spare, chain,
               base, heap, starved, shown>>
winAlarms == <<alarms, alarm, winConsumers, handles, osTimers, lost, wrappers,
               made, mine, step>>
data == <<userRegistration, userData, first, cancelList, point, stack, walk,
          due>>
atomics == <<number, holder, op, returned, total, promised>>
marks == <<node, holding, doing, locked, spoilt, report>>
waits == <<time, value, wait, posted, taken>>

vars == <<part, sizeVars, library, strings, config, timers,
          directory, winAlarms, data, atomics, marks, waits>>

(* Only one part moves. *)
OnSizes == part = "sizes" /\ UNCHANGED
  <<part, library, strings, config, timers, directory, winAlarms, data, atomics,
   marks, waits>>
OnLibrary == part = "library" /\ UNCHANGED
  <<part, sizeVars, strings, config, timers, directory, winAlarms, data, atomics,
   marks, waits>>
OnStrings == part = "strings" /\ UNCHANGED
  <<part, sizeVars, library, config, timers, directory, winAlarms, data, atomics,
   marks, waits>>
OnConfig == part = "config" /\ UNCHANGED
  <<part, sizeVars, library, strings, timers, directory, winAlarms, data, atomics,
   marks, waits>>
OnTimers == part = "timers" /\ UNCHANGED
  <<part, sizeVars, library, strings, config, directory, winAlarms, data, atomics,
   marks, waits>>
OnDirectory == part = "directory" /\ UNCHANGED
  <<part, sizeVars, library, strings, config, timers, winAlarms, data, atomics,
   marks, waits>>
OnAlarms == part = "alarms" /\ UNCHANGED
  <<part, sizeVars, library, strings, config, timers, directory, data, atomics,
   marks, waits>>
OnAtomics == part = "atomics" /\ UNCHANGED
  <<part, sizeVars, library, strings, config, timers, directory, winAlarms, data,
   marks, waits>>
OnSlots == part = "slots" /\ UNCHANGED
  <<part, sizeVars, library, strings, config, timers, directory, winAlarms, atomics,
   marks, waits>>
OnPoints == part = "points" /\ UNCHANGED
  <<part, sizeVars, library, strings, config, timers, directory, winAlarms, atomics,
   marks, waits>>
OnMarks == part = "marks" /\ UNCHANGED
  <<part, sizeVars, library, strings, config, timers, directory, winAlarms, data,
   atomics, waits>>
OnWaits == part = "waits" /\ UNCHANGED
  <<part, sizeVars, library, strings, config, timers, directory, winAlarms, data,
   atomics, marks>>

Parts == {"sizes", "library", "strings", "config", "timers", "directory", "alarms",
          "atomics", "slots", "points", "marks", "waits"}

Init ==
  /\ part \in Parts /\ SizesInit
  /\ L!LibInit /\ S!StringsInit /\ C!CfgInit /\ T!TimersInit
  /\ D!DirInit /\ W!WinInit /\ X!DataInit /\ A!AtomInit
  /\ N!MarksInit /\ P!WaitInit
  /\ part # "timers" => now = 0
  /\ part # "directory" => kind = "x" /\ present = {}

Next ==
  \/ OnSizes /\ SizesNext
  \/ OnLibrary /\ L!LibNext
  \/ OnStrings /\ S!Grow
  \/ OnConfig /\ C!CfgNext
  \/ OnTimers /\ T!TimersNext
  \/ OnDirectory /\ D!DirNext
  \/ OnAlarms /\ W!WinNext
  \/ OnSlots /\ X!SlotsNext
  \/ OnPoints /\ X!CancelsNext
  \/ OnAtomics /\ A!AtomNext
  \/ OnMarks /\ N!MarksNext
  \/ OnWaits /\ P!WaitNext

\* The worker's thread runs, and a caller that has queued work goes on to tell it.
Fairness ==
  /\ WF_vars(OnLibrary /\ L!MemoryWorker)
  /\ \A t \in L!Callers : WF_vars(OnLibrary /\ L!WorkSchedule(t) /\ at[t] = "signal")

Spec == Init /\ [][Next]_vars /\ Fairness
-----------------------------------------------------------------------------
(* The properties of the parts *)

\* Memory: its life cycle, the names of its files, sizes and contents, and the
\* marks around them (slab.c:1540, 605-633, 1693-1838, 149-217).
MemorySound == L!LibrarySound /\ BlockSound /\ PoolFits /\ N!MarksSound

\* What is scheduled for the memory worker is done, but for as many pieces as
\* signals were refused (slab.c:1023-1083).
WorkDone == L!WorkDone

\* Patterns, fields and command lines, and settings in memory and in the file
\* (str.c, procwin.c:100-288, cfgfile.c:353-504).
TextSound == S!StringsSound /\ C!CfgSound

\* Listings of directories (dir.c:206-603).
ListingsSound == D!DirSound

\* Stop watches, waits with a timeout, and numbers that several threads change
\* (mem.c:509-873, thread.c:263-312, rwlock.c:159-358).
NumbersSound == T!TimersSound /\ P!WaitSound /\ A!AtomicsSound

\* Alarms and timers of Windows (xplalarm.c:54-245).
WinAlarmsSound == W!WinAlarmsSound

\* What a thread carries (thread.c:1750-2139).
ThreadDataSound == X!ThreadDataSound
=============================================================================
