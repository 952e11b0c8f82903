------------------------------ MODULE ProcUnix ------------------------------
(***************************************************************************)
(* XplProc of src/xpl/procunix.c and proc.c: a handle on a child process   *)
(* with its standard streams on three pipes.  Both ends of the pipes stay  *)
(* open in the parent until the handle is freed, so that a read from a     *)
(* child that has ended fails on no pipe, and never sees its end.          *)
(*                                                                         *)
(* Each user has one handle at a time and is the only one to use it; the   *)
(* semaphore MTSem around fork is shared.  A system call is one step.  Of  *)
(* the child the model keeps what it waits for: its input, and room for    *)
(* its output.  What a call returns or reports is left out: it says what   *)
(* the step did and no later step depends on it.  A call that fails leaves *)
(* its user free to go on, whatever it left behind.                        *)
(***************************************************************************)
EXTENDS Integers, FiniteSets

CONSTANTS Parents,       \* threads, each with a handle of its own
          PipeSize,      \* what a pipe holds
          MaxTimeout     \* bound on timeouts, in polls of 100 ms

VARIABLES
  MTSem,
  upc,        \* where each user is
  proc,       \* XPLPROC: the descriptors it records, and reaped
  open,       \* the descriptors of its pipes open in the parent, from exec to free
  left,       \* time left of a wait
  kid,        \* the child: running, zombie, gone (reaped); what it waits for
  output,     \* what the output pipe holds
  stray       \* history: the call that gave the child up, running or not reaped

procVars == <<MTSem, upc, proc, open, left, kid, output, stray>>

Ends    == {"pi", "po", "pe"} \X {"mine", "childs"}
NoProc  == [fds |-> {}, reaped |-> FALSE]
NoKid   == [life |-> "none", wants |-> "nothing"]
Forked  == [NoKid EXCEPT !.life = "running"]
Input   == <<"pi", "mine">>

ProcInit ==
  /\ MTSem = 1
  /\ upc = [u \in Parents |-> "idle"]
  /\ proc = [u \in Parents |-> NoProc]
  /\ open = [u \in Parents |-> {}]
  /\ left = [u \in Parents |-> 0]
  /\ kid = [u \in Parents |-> NoKid]
  /\ output = [u \in Parents |-> 0]
  /\ stray = [u \in Parents |-> "none"]

To(u, from, to) == upc[u] = from /\ upc' = [upc EXCEPT ![u] = to]
-----------------------------------------------------------------------------
(* The child *)

\* It starts to wait for input, or for room in its full output pipe; the end of
\* input is seen when the parent has closed its end, which it never does when
\* the exec kept no handle.
KidAsks(u) ==
  /\ kid[u].life = "running"
  /\ \/ kid[u].wants = "nothing" /\ kid' = [kid EXCEPT ![u].wants = "input"] /\ UNCHANGED output
     \/ kid[u].wants = "input" /\ Input \notin open[u] /\ stray[u] # "exec"
        /\ kid' = [kid EXCEPT ![u].wants = "nothing"] /\ UNCHANGED output
     \/ kid[u].wants = "nothing" /\ output[u] < PipeSize
        /\ output' = [output EXCEPT ![u] = @ + 1] /\ UNCHANGED kid
     \/ kid[u].wants = "nothing" /\ output[u] = PipeSize
        /\ kid' = [kid EXCEPT ![u].wants = "room"] /\ UNCHANGED output
     \/ kid[u].wants = "room" /\ output[u] < PipeSize
        /\ kid' = [kid EXCEPT ![u].wants = "nothing"] /\ UNCHANGED output
  /\ UNCHANGED <<MTSem, upc, proc, open, left, stray>>

KidEnds(u) ==
  /\ kid[u].life = "running" /\ kid[u].wants = "nothing"
  /\ kid' = [kid EXCEPT ![u].life = "zombie"]
  /\ UNCHANGED <<MTSem, upc, proc, open, left, output, stray>>

Blocked(u) == kid[u].life = "running" /\ kid[u].wants # "nothing"
-----------------------------------------------------------------------------
(* XplProcExec and XplProcExecDetached *)

\* stat or pipe fails, the pipes made so far are closed; or there are three.
Pipes(u) ==
  /\ To(u, "idle", "sem")
  /\ open' = [open EXCEPT ![u] = Ends]
  /\ UNCHANGED <<MTSem, proc, left, kid, output, stray>>

SemWait(u) ==
  /\ upc[u] \in {"sem", "idle"}       \* from idle: detached, no pipes
  /\ MTSem > 0 /\ MTSem' = MTSem - 1
  /\ upc' = [upc EXCEPT ![u] = IF @ = "sem" THEN "fork" ELSE "fork_detached"]
  /\ UNCHANGED <<proc, open, left, kid, output, stray>>

\* Mutant: the semaphore is kept when fork has failed.
ForkFailsKeep(u) ==
  /\ To(u, "fork", "idle")
  /\ open' = [open EXCEPT ![u] = {}]
  /\ UNCHANGED <<MTSem, proc, left, kid, output, stray>>

ForkFails(u) ==
  /\ To(u, "fork", "idle")
  /\ open' = [open EXCEPT ![u] = {}]
  /\ MTSem' = MTSem + 1
  /\ UNCHANGED <<proc, left, kid, output, stray>>

Fork(u) ==
  /\ To(u, "fork", "held")
  /\ proc' = [proc EXCEPT ![u] = [fds |-> Ends, reaped |-> FALSE]]
  /\ kid' = [kid EXCEPT ![u] = Forked]
  /\ output' = [output EXCEPT ![u] = 0]
  /\ stray' = [stray EXCEPT ![u] = "none"]
  /\ MTSem' = MTSem + 1
  /\ UNCHANGED <<open, left>>

\* calloc fails after the fork: NULL is returned to a caller that goes on, the
\* child runs, its pipes stay open with nobody to close them, and the semaphore
\* is not posted.
ForkNoMemory(u) ==
  /\ To(u, "fork", "idle")
  /\ kid' = [kid EXCEPT ![u] = Forked]
  /\ open' = [open EXCEPT ![u] = {}]
  /\ stray' = [stray EXCEPT ![u] = "exec"]
  /\ UNCHANGED <<MTSem, proc, left, output>>

\* The exec answers 0, success, though the fork has failed.
DetachedFails(u) ==
  /\ To(u, "fork_detached", "idle")
  /\ MTSem' = MTSem + 1
  /\ UNCHANGED <<proc, open, left, kid, output, stray>>

\* The child forks the program and ends, as it does when chdir fails.
Detach(u) ==
  /\ To(u, "fork_detached", "wait_detached")
  /\ MTSem' = MTSem + 1
  /\ kid' = [kid EXCEPT ![u] = [NoKid EXCEPT !.life = "zombie"]]
  /\ stray' = [stray EXCEPT ![u] = "none"]
  /\ UNCHANGED <<proc, open, left, output>>

Detached(u) ==
  /\ To(u, "wait_detached", "idle")
  /\ kid' = [kid EXCEPT ![u] = NoKid]
  /\ UNCHANGED <<MTSem, proc, open, left, output, stray>>
-----------------------------------------------------------------------------
(* XplProcSignal, XplProcJoinEx and XplProcFree.  A signal ends the child  *)
(* here; those it would survive are its own business.                      *)

Signal(u) ==
  /\ upc[u] = "held" /\ ~proc[u].reaped
  /\ kid' = IF kid[u].life # "running" THEN kid
            ELSE [kid EXCEPT ![u] = [NoKid EXCEPT !.life = "zombie"]]
  /\ UNCHANGED <<MTSem, upc, proc, open, left, output, stray>>

\* A join of a reaped child is an error; with no timeout it waits for ever.
JoinReaped(u) ==
  /\ upc[u] = "held" /\ proc[u].reaped
  /\ UNCHANGED procVars

Join(u, t) ==
  /\ ~proc[u].reaped
  /\ To(u, "held", IF t = 0 THEN "join" ELSE "join_timed")
  /\ left' = [left EXCEPT ![u] = t]
  /\ UNCHANGED <<MTSem, proc, open, kid, output, stray>>

\* Mutant: the handle does not learn that its child has been reaped.
ReapUnnoted(u) ==
  /\ kid[u].life = "zombie"
  /\ kid' = [kid EXCEPT ![u].life = "gone"]
  /\ UNCHANGED proc

\* waitpid returns the child.
Reap(u) ==
  /\ kid[u].life = "zombie"
  /\ kid' = [kid EXCEPT ![u].life = "gone"]
  /\ proc' = [proc EXCEPT ![u].reaped = TRUE]

Joined(u) ==
  /\ Reap(u)
  /\ \/ To(u, "join", "held") \/ To(u, "join_timed", "held") \/ To(u, "free", "close")
  /\ left' = [left EXCEPT ![u] = 0]
  /\ UNCHANGED <<MTSem, open, output, stray>>

\* XplDelay(100), and the time runs out.
JoinPolls(u) ==
  /\ kid[u].life = "running"
  /\ IF left[u] > 0
     THEN upc[u] = "join_timed" /\ left' = [left EXCEPT ![u] = @ - 1] /\ UNCHANGED upc
     ELSE To(u, "join_timed", "held") /\ UNCHANGED left
  /\ UNCHANGED <<MTSem, proc, open, kid, output, stray>>

\* A blocking waitpid returns EINTR when the thread has handled a signal: the
\* join fails, and XplProcFree does not look at it.
Interrupted(u) ==
  /\ kid[u].life = "running"
  /\ \/ To(u, "join", "held") /\ UNCHANGED stray
     \/ To(u, "free", "close") /\ stray' = [stray EXCEPT ![u] = "free"]
  /\ UNCHANGED <<MTSem, proc, open, left, kid, output>>

\* XplProcFree joins before it closes the input of the child.
Free(u) ==
  /\ To(u, "held", IF proc[u].reaped THEN "close" ELSE "free")
  /\ UNCHANGED <<MTSem, proc, open, left, kid, output, stray>>

Close(u) ==
  /\ To(u, "close", "idle")
  /\ open' = [open EXCEPT ![u] = @ \ proc[u].fds]
  /\ proc' = [proc EXCEPT ![u] = NoProc]
  /\ kid' = [kid EXCEPT ![u] = IF @.life = "gone" THEN NoKid ELSE @]
  /\ output' = [output EXCEPT ![u] = 0]
  /\ UNCHANGED <<MTSem, left, stray>>

\* Mutant: the descriptor is forgotten, but not closed.
FlushForget(u) ==
  /\ upc[u] = "held"
  /\ proc' = [proc EXCEPT ![u].fds = @ \ {Input}]
  /\ UNCHANGED <<MTSem, upc, open, left, kid, output, stray>>

\* XplProcFlush: the child reads the end of its input.
Flush(u) ==
  /\ upc[u] = "held"
  /\ open' = [open EXCEPT ![u] = @ \ {Input}]
  /\ proc' = [proc EXCEPT ![u].fds = @ \ {Input}]
  /\ UNCHANGED <<MTSem, upc, left, kid, output, stray>>

----------------------------------------------------------------------------
(* Streams.  The parent's own copy of the child's end keeps POLLHUP away:  *)
(* there is data or there is none.                                         *)

Readable(u) == output[u] > 0

\* XplProcWaitForReadable: asks at once, then every 100 ms.
WaitReadable(u, t) ==
  /\ To(u, "held", "wait_read")
  /\ left' = [left EXCEPT ![u] = t]
  /\ UNCHANGED <<MTSem, proc, open, kid, output, stray>>

WaitReads(u) ==
  /\ IF Readable(u) \/ left[u] = 0
     THEN /\ To(u, "wait_read", IF Readable(u) THEN "read" ELSE "held")
          /\ left' = [left EXCEPT ![u] = 0]
     ELSE upc[u] = "wait_read" /\ left' = [left EXCEPT ![u] = @ - 1] /\ UNCHANGED upc
  /\ UNCHANGED <<MTSem, proc, open, kid, output, stray>>

\* XplProcRead: blocks on an empty pipe, takes all there is or part of it.
Read(u) ==
  /\ To(u, "read", "held")
  /\ Readable(u)
  /\ \E n \in 1..output[u] : output' = [output EXCEPT ![u] = @ - n]
  /\ UNCHANGED <<MTSem, proc, open, left, kid, stray>>

\* XplProcWrite: the child gets the input it waits for.
Write(u) ==
  /\ upc[u] = "held" /\ Input \in open[u]
  /\ kid[u].life = "running" /\ kid[u].wants = "input"
  /\ kid' = [kid EXCEPT ![u].wants = "nothing"]
  /\ UNCHANGED <<MTSem, upc, proc, open, left, output, stray>>
-----------------------------------------------------------------------------
WaitsTurn(u) == upc[u] = "sem" /\ SemWait(u)
InCall(u) == \/ WaitsTurn(u) \/ ForkFails(u) \/ Fork(u) \/ DetachedFails(u) \/ Detach(u) \/ Detached(u)
             \/ Joined(u) \/ JoinPolls(u) \/ WaitReads(u) \/ Read(u) \/ Close(u)

ProcNext ==
  \E u \in Parents :
    \/ KidAsks(u) \/ KidEnds(u)
    \/ Pipes(u) \/ SemWait(u) \/ ForkFails(u) \/ Fork(u) \/ ForkNoMemory(u)
    \/ DetachedFails(u) \/ Detach(u) \/ Detached(u)
    \/ Signal(u)
    \/ JoinReaped(u) \/ Joined(u) \/ JoinPolls(u) \/ Interrupted(u)
    \/ \E t \in 0..MaxTimeout : Join(u, t) \/ WaitReadable(u, t)
    \/ Free(u) \/ Close(u) \/ Flush(u) \/ WaitReads(u) \/ Read(u) \/ Write(u)

\* A call goes on, and MTSem is fair; a child that waits for nothing ends.
ProcFairness ==
  \A u \in Parents : /\ WF_procVars(InCall(u))
                   /\ SF_procVars(WaitsTurn(u))
                   /\ SF_procVars(KidEnds(u))

ProcSpec == ProcInit /\ [][ProcNext]_procVars /\ ProcFairness
-----------------------------------------------------------------------------
(* Properties *)

\* A handle records exactly the descriptors that are open for it, so that each
\* is closed once and none is closed for somebody else, and it knows whether its
\* child has been reaped, so that no signal goes to a pid that is not ours.
\* Without a handle no descriptor of its pipes is open and no child of it is
\* left, but for two failures: a free that a signal interrupts gives its child
\* up, and an exec without memory for the handle its child and its pipes.  The
\* second happens once, for it keeps MTSem and no exec forks after it.
HandleSound ==
  \A u \in Parents :
    /\ upc[u] \in {"held", "join", "join_timed", "free", "close", "wait_read", "read"} =>
         proc[u].fds = open[u] /\ proc[u].reaped = (kid[u].life = "gone")
    /\ upc[u] \in {"idle", "fork_detached", "wait_detached"} => open[u] = {}
    /\ upc[u] = "idle" /\ stray[u] = "none" => kid[u].life = "none"
    /\ stray[u] = "exec" => \A v \in Parents : /\ upc[v] \notin {"fork", "fork_detached"}
                                              /\ v # u => stray[v] # "exec"

\* Calls return: an exec gets its turn at fork, unless memory has run out in
\* another one, and XplProcFree ends, unless the child waits for input that
\* nobody will close or for room in a pipe that nobody will read.
CallsReturn ==
  \A u \in Parents :
    /\ upc[u] = "sem" ~> upc[u] # "sem" \/ \E v \in Parents : stray[v] = "exec"
    /\ upc[u] = "free" ~> upc[u] = "idle" \/ Blocked(u)

\* "Release an XPLPROC object ... Blocks if the child has not terminated"
\* (procunix.c:546): when the handle is gone, so is the child.
FreeBlocks ==
  \A u \in Parents : upc[u] = "close" => kid[u].life # "running"
=============================================================================
