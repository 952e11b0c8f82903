------------------------------- MODULE XplMain -------------------------------
(***************************************************************************)
(* The life of a program under XplMain, src/memmgr/xplmain.c on Linux: the *)
(* main thread runs _XplMain, then the shutdown handlers, and ends the     *)
(* signal thread; XPLSignalProcessor, the handler of system signals, sends *)
(* them on to both threads; other threads register and cancel handlers.    *)
(*                                                                         *)
(* The stack of signals of the signal thread is a sequence with the bound  *)
(* of thread.c; ThreadSignal models it in detail, and shows that a join    *)
(* of a thread that has ended returns.  A shutdown handler is the address  *)
(* of its memory.  Main's signals are reduced to SIGTERM.                  *)
(***************************************************************************)
EXTENDS Integers, Sequences, FiniteSets, Lists

CONSTANTS
  Threads,           \* threads that register handlers and cancel them
  Callbacks, Batons, \* what they register
  Cells,             \* addresses of handlers
  MaxRegistered,     \* bound on the calls of XplOnShutdown
  Signals,           \* what the system sends
  MAX_SIGNAL_STACK,
  Burst,             \* the signals that the system sends ahead of the signal thread
  LoadsOnce,         \* does the build load ApplicationSignalHandler only once?
  Null

ASSUME MainAssumption ==
  /\ MAX_SIGNAL_STACK \in Nat \ {0} /\ Burst \in 0..MAX_SIGNAL_STACK
  /\ "SIGTERM" \in Signals /\ LoadsOnce \in BOOLEAN

ASSUME HandlersAssumption ==
  Null \notin Cells \cup [cb : Callbacks, baton : Batons]

VARIABLES
  mpc,               \* where the main thread is
  terminate,         \* has it been sent SIGTERM?
  shutdown_handlers, \* _xpl_shutdown_handlers
  cell,              \* what is in the memory of a handler
  handler,           \* the one that XplHandleShutdown has in hand
  registered,        \* counts calls of XplOnShutdown
  installed,         \* does XPLSignalProcessor handle the signals?
  ApplicationSignalHandler,  \* is there one?
  spc, signo,        \* where the signal thread is, and what it has caught
  stack              \* its signals

mainVars == <<mpc, terminate, shutdown_handlers, cell, handler, registered, installed,
              ApplicationSignalHandler, spc, signo, stack>>

Signal(s, done) == [sig |-> s, done |-> done]

MainInit ==
  /\ mpc = "start" /\ terminate = FALSE
  /\ shutdown_handlers = <<>> /\ cell = [h \in Cells |-> Null]
  /\ handler = Null /\ registered = 0
  /\ installed = FALSE /\ ApplicationSignalHandler = FALSE
  /\ spc = "none" /\ signo = Null /\ stack = <<>>

To(from, to) == mpc = from /\ mpc' = to

\* XplThreadSignal refuses what finds no room.
Pushed(s) == IF Len(stack) < MAX_SIGNAL_STACK THEN Append(stack, s) ELSE stack
-----------------------------------------------------------------------------
(* Shutdown handlers.  XplHandleShutdown holds the recursive mutex to its  *)
(* end: until then only its callbacks get it.                              *)

Started == mpc \notin {"start", "end"}

MayLock(t) == Started /\ (t = "main" => mpc \in {"main", "callback"})
                      /\ (t # "main" => mpc \notin {"shutdown", "callback"})

XplOnShutdown(t) ==
  /\ MayLock(t) /\ registered < MaxRegistered
  /\ \E h \in Cells, cb \in Callbacks, b \in Batons :
       /\ cell[h] = Null
       /\ cell' = [cell EXCEPT ![h] = [cb |-> cb, baton |-> b]]
       /\ shutdown_handlers' = <<h>> \o shutdown_handlers
  /\ registered' = registered + 1
  /\ UNCHANGED <<mpc, terminate, handler, installed, ApplicationSignalHandler, spc, signo, stack>>

\* Without a callback, or a baton, any will do.
Matches(h, cb, b) == cb \in {Null, cell[h].cb} /\ b \in {Null, cell[h].baton}

\* One pass over the list, which steps over the handler behind a removed one.
Removes(cb, b, out) ==
  \A k \in DOMAIN shutdown_handlers :
    k \in out <=> Matches(shutdown_handlers[k], cb, b) /\ k - 1 \notin out

XplOnShutdownCancel(t, cb, b) ==
  /\ MayLock(t) /\ shutdown_handlers # <<>>
  /\ \E out \in SUBSET DOMAIN shutdown_handlers :
       /\ Removes(cb, b, out)
       /\ \E at \in InOrder(DOMAIN shutdown_handlers \ out) :
            shutdown_handlers' = [k \in DOMAIN at |-> shutdown_handlers[at[k]]]
       /\ cell' = [h \in Cells |-> IF \E k \in out : shutdown_handlers[k] = h
                                  THEN Null ELSE cell[h]]
  /\ UNCHANGED <<mpc, terminate, handler, registered, installed, ApplicationSignalHandler, spc, signo, stack>>

\* Mutant: the handler is unlinked after its callback.
HandleNextLinked ==
  /\ shutdown_handlers # <<>>
  /\ To("shutdown", "callback")
  /\ handler' = Head(shutdown_handlers)
  /\ UNCHANGED <<terminate, shutdown_handlers, cell, registered, installed, ApplicationSignalHandler, spc, signo, stack>>

\* XplHandleShutdown unlinks before it calls.
HandleNext ==
  /\ shutdown_handlers # <<>>
  /\ To("shutdown", "callback")
  /\ handler' = Head(shutdown_handlers)
  /\ shutdown_handlers' = Tail(shutdown_handlers)
  /\ UNCHANGED <<terminate, cell, registered, installed, ApplicationSignalHandler, spc, signo, stack>>

Handled ==
  /\ To("callback", "shutdown")
  /\ cell' = [cell EXCEPT ![handler] = Null]
  /\ handler' = Null
  /\ UNCHANGED <<terminate, shutdown_handlers, registered, installed, ApplicationSignalHandler, spc, signo, stack>>

AllHandled ==
  /\ shutdown_handlers = <<>>
  /\ To("shutdown", "unhandle")
  /\ UNCHANGED <<terminate, shutdown_handlers, cell, handler, registered, installed, ApplicationSignalHandler, spc, signo, stack>>
-----------------------------------------------------------------------------
(* _LinuxMain_ *)

\* XplStart may refuse; XplThreadStart may fail, and then there is no signal thread.
Start ==
  /\ \/ To("start", "end") /\ UNCHANGED spc
     \/ To("start", "main") /\ spc' \in {"none", "catch"}
  /\ UNCHANGED <<terminate, shutdown_handlers, cell, handler, registered, installed, ApplicationSignalHandler, signo, stack>>

\* _XplMain returns, at the latest when it is sent SIGTERM.
Return ==
  /\ To("main", "shutdown")
  /\ UNCHANGED <<terminate, shutdown_handlers, cell, handler, registered, installed, ApplicationSignalHandler, spc, signo, stack>>

SetHandler(on, from, to) ==
  /\ To(from, to)
  /\ installed' = TRUE /\ ApplicationSignalHandler' = on
  /\ UNCHANGED <<terminate, shutdown_handlers, cell, handler, registered, spc, signo, stack>>

\* XplSignalHandler, called by _XplMain, or by _LinuxMain_ for none.
XplSignalHandler == SetHandler(TRUE, "main", "main")
Unhandle         == SetHandler(FALSE, "unhandle", "wrapEnd")

\* From here on the main thread has no structure.
WrapEnd ==
  /\ To("wrapEnd", IF spc = "none" THEN "close" ELSE "tell")
  /\ UNCHANGED <<terminate, shutdown_handlers, cell, handler, registered, installed, ApplicationSignalHandler, spc, signo, stack>>

\* Mutant: the last signal has no context.
TellWithout ==
  /\ To("tell", "join")
  /\ stack' = Pushed(Signal("SIGTERM", FALSE))
  /\ UNCHANGED <<terminate, shutdown_handlers, cell, handler, registered, installed, ApplicationSignalHandler, spc, signo>>

\* Whether the signal was taken is not looked at.
Tell ==
  /\ To("tell", "join")
  /\ stack' = Pushed(Signal("SIGTERM", TRUE))
  /\ UNCHANGED <<terminate, shutdown_handlers, cell, handler, registered, installed, ApplicationSignalHandler, spc, signo>>

Join ==
  /\ spc = "ended"
  /\ To("join", "close")
  /\ spc' = "none" /\ stack' = <<>>
  /\ UNCHANGED <<terminate, shutdown_handlers, cell, handler, registered, installed, ApplicationSignalHandler, signo>>

Close ==
  /\ To("close", "end")
  /\ UNCHANGED <<terminate, shutdown_handlers, cell, handler, registered, installed, ApplicationSignalHandler, spc, signo, stack>>
-----------------------------------------------------------------------------
(* XPLSignalProcessor interrupts some thread.  When the main thread has no *)
(* structure, its SIGTERM goes to the interrupted one.                     *)

SignalProcessor(s) ==
  /\ installed /\ mpc # "end" /\ Len(stack) < Burst
  /\ \E onSignalThread \in BOOLEAN :
       LET mine == spc \notin {"none", "ended"} /\ onSignalThread
                   /\ mpc \in {"tell", "join"} /\ s \in {"SIGINT", "SIGTERM"}
           sent == IF spc = "none" THEN stack ELSE Pushed(Signal(s, FALSE))
       IN  stack' = IF mine /\ Len(sent) < MAX_SIGNAL_STACK
                    THEN Append(sent, Signal("SIGTERM", FALSE)) ELSE sent
  /\ terminate' = (terminate \/ (s \in {"SIGINT", "SIGTERM"} /\ mpc \notin {"tell", "join", "close"}))
  /\ UNCHANGED <<mpc, shutdown_handlers, cell, handler, registered, installed, ApplicationSignalHandler, spc, signo>>
-----------------------------------------------------------------------------
(* _signal_thread_ *)

Goes(from, to) ==
  /\ spc = from /\ spc' = to
  /\ UNCHANGED <<mpc, terminate, shutdown_handlers, cell, handler, registered, installed, ApplicationSignalHandler>>

Catch ==
  /\ stack # <<>>
  /\ Goes("catch", "test")
  /\ signo' = Head(stack) /\ stack' = Tail(stack)

Test ==
  /\ Goes("test", IF ApplicationSignalHandler THEN "call" ELSE "switch")
  /\ UNCHANGED <<signo, stack>>

\* A build that reads the handler again may find that it is gone, and crash.
CallHandler ==
  /\ Goes("call", IF LoadsOnce \/ ApplicationSignalHandler THEN "handler" ELSE "crash")
  /\ UNCHANGED <<signo, stack>>

HandlerReturns == Goes("handler", "switch") /\ UNCHANGED <<signo, stack>>

\* SIGALRM goes to XplAlarmSignal.
Switch ==
  /\ Goes("switch", IF signo.sig = "SIGALRM" THEN "alarm"
                    ELSE IF signo = Signal("SIGTERM", TRUE) THEN "ended" ELSE "catch")
  /\ signo' = IF signo.sig = "SIGALRM" THEN signo ELSE Null
  /\ UNCHANGED stack

MainGoesOn == Start \/ HandleNext \/ Handled \/ AllHandled \/ Unhandle \/ WrapEnd \/ Tell \/ Join \/ Close

SignalThread == Catch \/ Test \/ CallHandler \/ HandlerReturns \/ Switch
-----------------------------------------------------------------------------
(* Properties *)

\* A handler is called once: the one in hand is not listed, those that are
\* listed are in memory and there once, and none is lost, though a callback
\* cancels or registers handlers (xplmain.c:57-61).
HandlersSound ==
  LET linked == Range(shutdown_handlers) IN
  /\ IsInjective(shutdown_handlers)
  /\ handler \notin linked
  /\ {h \in Cells : cell[h] # Null} = linked \cup ({handler} \ {Null})

\* The program ends when it is told to, or when _XplMain returns: the signal
\* thread gets the signal that ends it (xplmain.c:159-164, 610).
MainReturns == (terminate \/ mpc = "shutdown") ~> mpc = "end"
=============================================================================
