------------------------------- MODULE Agents -------------------------------
(***************************************************************************)
(* XplProcess of src/xpl/process.c: a thread runs a child process (an      *)
(* agent) under a name, reads what it writes until it closes its output,   *)
(* takes it off the list of agents and waits until it can be reaped, with  *)
(* a stop, then a kill, when that takes long.  Other threads walk the list *)
(* under processlock to set flags, to signal and to wait for agents.       *)
(*                                                                         *)
(* processes is the list, first agent first; a handle is named by the      *)
(* thread that runs it.  Walking is one step per agent, as the caller of   *)
(* XplListAgents keeps the lock between them; creating and removing an     *)
(* agent hold the lock throughout and are one step.  Time only counts      *)
(* the delays of the poll loop.  The platform is POSIX.                    *)
(***************************************************************************)
EXTENDS Integers, Sequences, FiniteSets, Lists

CONSTANTS
  Runners, Clients,            \* threads in XplProcess, other threads
  Names,                       \* of agents
  MayRun,                      \* the agents each runner may run
  FAST, MEDIUM, SLOW, CRAWL,   \* intervals and times of the poll loop,
  STOPTIME, KILLTIME, CRAWLTIME,  \* in units of FAST
  MaxWait,                     \* bound on the timeout of XplWaitAgent
  Nil

ASSUME TimesAssumption ==
  /\ {FAST, MEDIUM, SLOW, CRAWL, STOPTIME, KILLTIME, CRAWLTIME} \subseteq Nat \ {0}
  /\ STOPTIME < KILLTIME /\ KILLTIME < CRAWLTIME

ASSUME AgentsAssumption ==
  /\ Nil \notin Runners \cup Clients \cup Names
  /\ MayRun \in [Runners -> SUBSET Names]
  /\ MaxWait \in Nat

VARIABLES
  processes, processlock,
  rpc,        \* where each runner is
  handle,     \* XPLPROCESS: its name, flags and descriptors
  poll,       \* i and delay of the poll loop
  told,       \* the flags that the exit or the signal callback is given
  child,      \* the operating system's side: the child of each runner
  cpc, call   \* where each client is, and the call it is in

agentVars == <<processes, processlock, rpc, handle, poll, told, child, cpc, call>>

AgentSignals == {"TERM", "KILL"}
NoChild    == [life |-> "none", writes |-> FALSE, killed |-> FALSE]
FreedAgent == [agent |-> Nil, flags |-> FALSE, pipes |-> {}]
NoCall     == [op |-> "none", agent |-> Nil, at |-> Nil, timeout |-> 0]
Listed     == {processes[k] : k \in DOMAIN processes}

AgentInit ==
  /\ processes = <<>> /\ processlock = Nil
  /\ rpc = [r \in Runners |-> "idle"]
  /\ handle = [r \in Runners |-> FreedAgent]
  /\ poll = [r \in Runners |-> [i |-> 0, delay |-> FAST]]
  /\ told = [r \in Runners |-> Nil]
  /\ child = [r \in Runners |-> NoChild]
  /\ cpc = [c \in Clients |-> "idle"] /\ call = [c \in Clients |-> NoCall]

Goto(r, from, to) == rpc[r] = from /\ rpc' = [rpc EXCEPT ![r] = to]
-----------------------------------------------------------------------------
(* The child: it may close its output before it ends.  A stop may end it   *)
(* or be ignored, as it may end at any time; a kill ends it.               *)

CloseOutput(r) ==
  /\ child[r].life = "running" /\ child[r].writes
  /\ child' = [child EXCEPT ![r].writes = FALSE]

End(r) ==
  /\ child[r].life = "running"
  /\ child' = [child EXCEPT ![r] = [NoChild EXCEPT !.life = "zombie"]]

ChildStep(r) ==
  /\ CloseOutput(r) \/ End(r)
  /\ UNCHANGED <<processes, processlock, rpc, handle, poll, told, cpc, call>>

\* XplSignalProcess.  It clears the start time, too, which XplProcess has read
\* long before and gives to the callback all the same.
Delivered(C, p, s) ==
  IF s = "KILL" /\ C[p].life = "running" THEN [C EXCEPT ![p].killed = TRUE] ELSE C
-----------------------------------------------------------------------------
(* XplProcess *)

Taken(name) == \E p \in Listed : handle[p].agent = name

Created(r, name) ==
  /\ Goto(r, "idle", "read")
  /\ processes' = <<r>> \o processes
  /\ handle' = [handle EXCEPT ![r] = [agent |-> name, flags |-> FALSE,
                                      pipes |-> {"ipipe", "opipe"}]]
  /\ child' = [child EXCEPT ![r] = [NoChild EXCEPT !.life = "running", !.writes = TRUE]]

\* Mutant: the agent is added whether its name is taken or not.
AddAnyway(r, name) ==
  /\ processlock = Nil
  /\ Created(r, name)
  /\ UNCHANGED <<processlock, poll, told, cpc, call>>

\* addProcess: the name is taken, the child cannot be created, or it is listed.
Add(r, name) ==
  /\ processlock = Nil
  /\ ~Taken(name)
  /\ Created(r, name)
  /\ UNCHANGED <<processlock, poll, told, cpc, call>>

\* XplReadProcess: until the output is closed, or at once when fdopen fails.
Read(r) ==
  /\ Goto(r, "read", "remove")
  /\ \/ ~child[r].writes /\ handle' = [handle EXCEPT ![r].pipes = @ \ {"ipipe"}]
     \/ UNCHANGED handle
  /\ UNCHANGED <<processes, processlock, poll, told, child, cpc, call>>

\* Mutant: the agent stays on the list until it has been reaped.
RemoveNot(r) ==
  /\ Goto(r, "remove", "flags")
  /\ processlock = Nil
  /\ UNCHANGED <<processes, processlock, handle, poll, told, child, cpc, call>>

RemoveProcess(r) ==
  /\ Goto(r, "remove", "flags")
  /\ processlock = Nil
  /\ processes' = Without(processes, r)
  /\ child' = [child EXCEPT ![r].writes = FALSE]     \* nobody listens any more
  /\ UNCHANGED <<processlock, handle, poll, told, cpc, call>>

\* The flags are read once nobody can find the agent any more.
Capture(r) ==
  /\ Goto(r, "flags", "poll")
  /\ told' = [told EXCEPT ![r] = handle[r].flags]
  /\ UNCHANGED <<processes, processlock, handle, poll, child, cpc, call>>

\* XplPollProcess reaps the child, closes the pipes and frees the handle.
PollDone(r) ==
  /\ Goto(r, "poll", "callback")
  /\ child[r].life = "zombie"
  /\ child' = [child EXCEPT ![r].life = "gone"]
  /\ handle' = [handle EXCEPT ![r].pipes = {}]
  /\ UNCHANGED <<processes, processlock, poll, told, cpc, call>>

\* The callback has been called; the locals and the freed memory are gone.
Reply(r) ==
  /\ Goto(r, "callback", "idle")
  /\ child' = [child EXCEPT ![r] = NoChild]
  /\ handle' = [handle EXCEPT ![r] = FreedAgent]
  /\ told' = [told EXCEPT ![r] = Nil]
  /\ poll' = [poll EXCEPT ![r] = [i |-> 0, delay |-> FAST]]
  /\ UNCHANGED <<processes, processlock, cpc, call>>

Late(r) == CASE poll[r].delay = FAST   -> poll[r].i >= STOPTIME
             [] poll[r].delay = MEDIUM -> poll[r].i >= KILLTIME
             [] poll[r].delay = SLOW   -> poll[r].i >= CRAWLTIME
             [] OTHER -> FALSE

\* XplPollProcess finds the child running, XplDelay follows.  That is one step with
\* what the loop does next: a child that ends in between is still there, as
\* nobody else reaps it, and takes no notice of a signal.
StillRuns(r) == rpc[r] = "poll" /\ child[r].life = "running" /\ UNCHANGED rpc

\* It is not yet late: at a crawl i no longer matters.
Wait(r) ==
  /\ StillRuns(r) /\ ~Late(r)
  /\ poll' = IF poll[r].delay = CRAWL THEN poll ELSE [poll EXCEPT ![r].i = @ + poll[r].delay]
  /\ UNCHANGED <<processes, processlock, handle, told, child, cpc, call>>

\* The time is up: a signal is sent, and the polls slow down.
Escalate(r, from, time, to, signal) ==
  /\ StillRuns(r) /\ Late(r) /\ poll[r].delay = from
  /\ poll' = [poll EXCEPT ![r] = [i |-> time + to, delay |-> to]]
  /\ child' = Delivered(child, r, signal)
  /\ UNCHANGED <<processes, processlock, handle, told, cpc, call>>

\* Mutant: the loop never gets as far as the kill.
KillLate(r) == Late(r) /\ Escalate(r, MEDIUM, STOPTIME, MEDIUM, "none")

Stop(r)     == Escalate(r, FAST, STOPTIME, MEDIUM, "TERM")
Kill(r)     == Escalate(r, MEDIUM, KILLTIME, SLOW, "KILL")
SlowDown(r) == Escalate(r, SLOW, CRAWLTIME, CRAWL, "none")

Process(r) == \/ \E name \in MayRun[r] : Add(r, name)
              \/ Read(r) \/ RemoveProcess(r) \/ Capture(r)
              \/ Wait(r) \/ Stop(r) \/ Kill(r) \/ SlowDown(r)
              \/ PollDone(r) \/ Reply(r)
-----------------------------------------------------------------------------
(* The calls of other threads.  A call on one agent is findAgent and what  *)
(* follows; a call on all agents visits each.  XplGetAgentFlags and        *)
(* XplAgentExists walk like the others, and change nothing.                *)

One  == {"set", "clear", "signal", "wait"}
All  == {"list", "setall", "clearall", "signalall"}

\* XplListAgents: the lock is kept unless the list is empty.
Seize(c, next) ==
  /\ processlock = Nil
  /\ IF processes = <<>>
     THEN /\ cpc' = [cpc EXCEPT ![c] = "idle"]
          /\ call' = [call EXCEPT ![c] = NoCall]
          /\ UNCHANGED processlock
     ELSE /\ cpc' = [cpc EXCEPT ![c] = "visit"]
          /\ call' = [call EXCEPT ![c] = [next EXCEPT !.at = Head(processes)]]
          /\ processlock' = c
  /\ UNCHANGED <<processes, rpc, handle, poll, told, child>>

BeginOne(c, op, name, timeout) ==
  /\ cpc[c] = "idle"
  /\ op # "wait" => timeout = 0
  /\ Seize(c, [NoCall EXCEPT !.op = op, !.agent = name, !.timeout = timeout])

BeginAll(c, op) == cpc[c] = "idle" /\ Seize(c, [NoCall EXCEPT !.op = op])

\* XplWaitAgent looks again after a second.
LookAgain(c) == cpc[c] = "sleep" /\ Seize(c, call[c])

After(p) == LET k == CHOOSE k \in DOMAIN processes : processes[k] = p
            IN IF k = Len(processes) THEN Nil ELSE processes[k + 1]

Leave(c, to) ==
  /\ processlock' = Nil
  /\ cpc' = [cpc EXCEPT ![c] = to]
  /\ call' = [call EXCEPT ![c] = IF to = "idle" THEN NoCall ELSE [@ EXCEPT !.at = Nil]]

\* XplListNextAgent: the lock is released after the last agent.
Advance(c) ==
  IF After(call[c].at) = Nil
  THEN Leave(c, "idle")
  ELSE /\ call' = [call EXCEPT ![c].at = After(@)]
       /\ UNCHANGED <<processlock, cpc>>

SetFlags(op, p) ==
  CASE op \in {"set", "setall", "signal", "signalall"} -> [handle EXCEPT ![p].flags = TRUE]
    [] op \in {"clear", "clearall"} -> [handle EXCEPT ![p].flags = FALSE]
    [] OTHER -> handle

\* What a call does with an agent it has found.
Apply(op, p) ==
  /\ handle' = SetFlags(op, p)
  /\ IF op \in {"signal", "signalall"}
     THEN \E s \in AgentSignals : child' = Delivered(child, p, s)
     ELSE UNCHANGED child

At(c) == cpc[c] = "visit" /\ UNCHANGED <<processes, rpc, poll, told>>

Skip(c) ==
  /\ At(c) /\ call[c].op \in One /\ handle[call[c].at].agent # call[c].agent
  /\ Advance(c)
  /\ UNCHANGED <<handle, child>>

FoundOne(c) ==
  /\ At(c) /\ call[c].op \in One \ {"wait"} /\ handle[call[c].at].agent = call[c].agent
  /\ Apply(call[c].op, call[c].at)
  /\ Leave(c, "idle")

FoundAll(c) ==
  /\ At(c) /\ call[c].op \in All
  /\ Apply(call[c].op, call[c].at)
  /\ Advance(c)

\* The agent that is waited for is still listed: it is killed when the timeout
\* runs out, once.
FoundWait(c) ==
  LET p == call[c].at  left == call[c].timeout IN
  /\ At(c) /\ call[c].op = "wait" /\ handle[p].agent = call[c].agent
  /\ child' = IF left = 1 THEN Delivered(child, p, "KILL") ELSE child
  /\ UNCHANGED handle
  /\ processlock' = Nil
  /\ cpc' = [cpc EXCEPT ![c] = "sleep"]
  /\ call' = [call EXCEPT ![c].at = Nil, ![c].timeout = IF left = 0 THEN 0 ELSE left - 1]

Client(c) == \/ \E op \in One, n \in Names, t \in 0..MaxWait : BeginOne(c, op, n, t)
             \/ \E op \in All : BeginAll(c, op)
             \/ LookAgain(c) \/ Skip(c) \/ FoundOne(c) \/ FoundAll(c) \/ FoundWait(c)

AgentNext == \/ \E r \in Runners : Process(r) \/ ChildStep(r)
             \/ \E c \in Clients : Client(c)

\* A thread in a call goes on and the lock is fair; a killed child dies.
AgentFairness ==
  /\ \A r \in Runners : /\ WF_agentVars(rpc[r] # "idle" /\ Process(r))
                        /\ SF_agentVars(RemoveProcess(r))
                        /\ WF_agentVars(child[r].killed /\ End(r) /\ ChildStep(r))
  /\ \A c \in Clients : WF_agentVars(cpc[c] # "idle" /\ Client(c))

AgentSpec == AgentInit /\ [][AgentNext]_agentVars /\ AgentFairness
-----------------------------------------------------------------------------
(* Properties *)

\* Listed agents have names of their own, and neither the list nor a thread that
\* walks it refers to a handle that has been freed or to a pid that has been
\* reaped: no signal reaches a process that is not ours.
ListSound ==
  /\ \A j, k \in DOMAIN processes :
       handle[processes[j]].agent = handle[processes[k]].agent => j = k
  /\ \A p \in (Listed \cup {call[c].at : c \in Clients}) \ {Nil} :
       child[p].life \in {"running", "zombie"} /\ rpc[p] \in {"read", "remove"}

\* A flag that another thread has set on an agent, and the call found it, is
\* among those the callback is given; the agent leaves no pipe open behind it.
Reported ==
  \A r \in Runners : rpc[r] \in {"poll", "callback"} =>
    /\ told[r] = handle[r].flags
    /\ rpc[r] = "callback" => handle[r].pipes = {}

\* XplProcess returns once the agent has closed its output, whether it then ends
\* by itself, on a stop, or has to be killed.
AgentReturns == \A r \in Runners : rpc[r] = "read" /\ ~child[r].writes ~> rpc[r] = "idle"
=============================================================================
