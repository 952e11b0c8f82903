----------------------------- MODULE MemLibrary -----------------------------
(***************************************************************************)
(* The memory library between its first open and its last close,           *)
(* src/memmgr/slab.c: the consumers, the worker that writes reports, and   *)
(* the strings that name the files allocations come from.                  *)
(*                                                                         *)
(* Main opens first and closes as XplMain does, when the others are not in *)
(* the library; it may find consumers that forgot to close.  The report    *)
(* itself is left out.                                                     *)
(***************************************************************************)
EXTENDS Integers, Sequences, Functions

CONSTANTS
  Main, Others,
  Files,            \* that allocations come from, all of one hash
  MaxReports,       \* bound on the reports asked for
  MaxOpens,         \* bound on the calls of MMOpenEx
  MaxPending        \* the worker's signal stack, MAX_SIGNAL_STACK

Callers == {Main} \cup Others

VARIABLES
  initState, state, useCount, consumers,
  list, asked,      \* the work queue, and how often work was scheduled
  worker, signals,  \* the worker's place, its signal stack
  refused,          \* history: the pieces of work whose signal was refused
  stringHash,       \* the chain of one hash
  at, file, seen,   \* where a caller is, the file it looks up, the chain it walks
  named             \* the files each caller has been given a string for

libVars == <<initState, state, useCount, consumers, list, asked, worker, signals, refused,
             stringHash, at, file, seen, named>>

LibInit ==
  /\ initState = 0 /\ state = "Loaded" /\ useCount = 0 /\ consumers = {}
  /\ list = <<>> /\ asked = 0 /\ worker = "none" /\ signals = <<>>
  /\ refused = 0 /\ stringHash = <<>>
  /\ at = [t \in Callers |-> "closed"]
  /\ file = [t \in Callers |-> CHOOSE f \in Files : TRUE]
  /\ seen = [t \in Callers |-> <<>>] /\ named = [t \in Callers |-> {}]

Moves(t, from, to) == at[t] = from /\ at' = [at EXCEPT ![t] = to]

LookupUnchanged == UNCHANGED <<stringHash, file, seen, named>>
WorkUnchanged   == UNCHANGED <<list, asked, worker, signals, refused>>

MainOpen == at[Main] = "open"

\* A full stack refuses the signal, and nobody looks at what XplThreadSignal
\* returns.
Full    == Len(signals) >= MaxPending
Told(s) == IF Full THEN signals ELSE Append(signals, s)
-----------------------------------------------------------------------------
(* MMOpenEx: whoever comes first initializes, the others wait until it has  *)

OpenBegins(t) ==
  /\ initState < MaxOpens
  /\ t # Main => at[Main] \in {"init", "await", "add", "open"}
  /\ Moves(t, "closed", IF initState = 0 THEN "init" ELSE "await")
  /\ initState' = initState + 1
  /\ UNCHANGED <<state, useCount, consumers>> /\ WorkUnchanged /\ LookupUnchanged

Initialize(t) ==
  /\ Moves(t, "init", "await")
  /\ state' = "Initialized" /\ useCount' = 0 /\ consumers' = {}
  /\ list' = <<>> /\ worker' = "look" /\ signals' = <<>> /\ refused' = 0
  /\ UNCHANGED <<initState, asked>> /\ LookupUnchanged

CountUse(t) ==
  /\ Moves(t, "await", "add") /\ state = "Initialized"
  /\ useCount' = useCount + 1
  /\ UNCHANGED <<initState, state, consumers>> /\ WorkUnchanged /\ LookupUnchanged

AddConsumer(t) ==
  /\ Moves(t, "add", "open") /\ consumers' = consumers \cup {t}
  /\ UNCHANGED <<initState, state, useCount>> /\ WorkUnchanged /\ LookupUnchanged
-----------------------------------------------------------------------------
(* MMClose *)

RemoveConsumer(t) ==
  /\ IF t = Main THEN \A o \in Others : at[o] \in {"closed", "open"} ELSE MainOpen
  /\ Moves(t, "open", "close") /\ consumers' = consumers \ {t}
  /\ UNCHANGED <<initState, state, useCount>> /\ WorkUnchanged /\ LookupUnchanged

\* Main's close ends the library, whoever has it open.
CountOut(t) ==
  LET early == t = Main /\ useCount # 1
      left  == IF early THEN useCount ELSE useCount - 1
  IN  /\ Moves(t, "close", IF early THEN "abandon" ELSE IF left = 0 THEN "last" ELSE "closed")
      /\ useCount' = left /\ UNCHANGED <<initState, state, consumers>> /\ WorkUnchanged /\ LookupUnchanged

\* XplThreadFree tells the worker to end and waits for it.
StopWorker(t) ==
  /\ at[t] \in {"last", "abandon"} /\ at' = [at EXCEPT ![t] = "stop"]
  /\ signals' = Told("SIGTERM")
  /\ UNCHANGED <<initState, state, useCount, consumers, list, asked, worker, refused>> /\ LookupUnchanged

Unload(t) ==
  /\ Moves(t, "stop", "gone") /\ worker = "ended" /\ state' = "Loaded"
  /\ UNCHANGED <<initState, useCount, consumers>> /\ WorkUnchanged /\ LookupUnchanged
-----------------------------------------------------------------------------
(* _WorkSchedule, for MMGenerateReports or a pool that grows past its       *)
(* threshold, and the worker, which takes one piece of work when it wakes   *)

MayCall(t) == at[t] = "open" /\ MainOpen

TellWorker == signals' = Told("SIGINT") /\ refused' = IF Full THEN refused + 1 ELSE refused

\* Mutant: the worker is told of the work before the work is there.
TellFirst(t) ==
  \/ /\ MayCall(t) /\ asked < MaxReports /\ Moves(t, "open", "signal")
     /\ TellWorker /\ asked' = asked + 1 /\ UNCHANGED list
  \/ /\ Moves(t, "signal", "open") /\ list' = Append(list, asked)
     /\ UNCHANGED <<signals, refused, asked>>

Tell(t) ==
  \/ /\ MayCall(t) /\ asked < MaxReports /\ Moves(t, "open", "signal")
     /\ list' = Append(list, asked + 1) /\ asked' = asked + 1
     /\ UNCHANGED <<signals, refused>>
  \/ /\ Moves(t, "signal", "open") /\ TellWorker /\ UNCHANGED <<list, asked>>

WorkSchedule(t) ==
  Tell(t) /\ UNCHANGED <<initState, state, useCount, consumers, worker>> /\ LookupUnchanged

MemoryWorker ==
  /\ \/ worker = "look" /\ worker' = "catch" /\ UNCHANGED signals
        /\ list' = IF list = <<>> THEN list ELSE Tail(list)
     \/ /\ worker = "catch" /\ signals # <<>> /\ signals' = Tail(signals)
        /\ worker' = IF Head(signals) = "SIGTERM" THEN "ended" ELSE "look"
        /\ UNCHANGED list
  /\ UNCHANGED <<initState, state, useCount, consumers, asked, refused, at>> /\ LookupUnchanged
-----------------------------------------------------------------------------
(* _MemStringLookup: walks the chain, then inserts under its lock           *)

Pushed(t) == <<file[t]>> \o stringHash

Given(t, f) == named' = [named EXCEPT ![t] = @ \cup {f}]

Walk(t) ==
  /\ MayCall(t)
  /\ \E f \in Files :
       IF f \in Range(stringHash) THEN Given(t, f) /\ UNCHANGED <<at, file, seen>>
       ELSE /\ Moves(t, "open", "insert") /\ UNCHANGED named
            /\ file' = [file EXCEPT ![t] = f] /\ seen' = [seen EXCEPT ![t] = stringHash]
  /\ UNCHANGED <<initState, state, useCount, consumers, stringHash>> /\ WorkUnchanged

Insert(t) ==
  /\ Moves(t, "insert", "open") /\ stringHash' = Pushed(t) /\ Given(t, file[t])
  /\ seen' = [seen EXCEPT ![t] = <<>>]
  /\ UNCHANGED <<initState, state, useCount, consumers, file>> /\ WorkUnchanged

Open(t)  == OpenBegins(t) \/ Initialize(t) \/ CountUse(t) \/ AddConsumer(t)
Close(t) == RemoveConsumer(t) \/ CountOut(t) \/ StopWorker(t) \/ Unload(t)
Lookup(t) == Walk(t) \/ Insert(t)

LibNext == MemoryWorker \/ \E t \in Callers : Open(t) \/ Close(t) \/ WorkSchedule(t) \/ Lookup(t)
-----------------------------------------------------------------------------
(* Properties *)

\* Whoever counts the last use out finds the list of consumers empty, though
\* the two have locks of their own (assertion slab.c:1540).
LastOutSound == \A t \in Callers : at[t] = "last" => consumers = {}

\* No file that was given a string loses it, whatever is inserted while another
\* walks the chain (slab.c:605-633).
ChainSound == \A t \in Callers : named[t] \subseteq Range(stringHash)

\* Both.
LibrarySound == LastOutSound /\ ChainSound

\* Each refused signal leaves one piece at the end of the queue, whatever is
\* scheduled and told later.
LeftOver(w) == \E i \in DOMAIN list : list[i] = w /\ i + refused > Len(list)

\* Scheduled work is taken from the queue unless the library is closed, though
\* the worker takes one piece for one signal; only as many pieces may stay for
\* ever, the last ones, as signals found the worker's stack full
\* (slab.c:1023-1039, 1076-1083).
WorkDone ==
  \A w \in 1..MaxReports :
    w \in Range(list) ~> (w \notin Range(list) \/ ~MainOpen \/ LeftOver(w))
=============================================================================
