------------------------------ MODULE ProcWin ------------------------------
(***************************************************************************)
(* XplProc of src/xpl/procwin.c: the same handle on Windows, where the     *)
(* child is created suspended, put into a job with a completion port, and  *)
(* only then resumed, so that XplProcJoinGroupEx can wait until the child  *)
(* and all that it starts have ended.                                      *)
(*                                                                         *)
(* One user has one handle.  The system posts a message to the port of the *)
(* job when its last process ends, if the job has a port by then.          *)
(***************************************************************************)
EXTENDS Integers, FiniteSets

CONSTANT MaxKids       \* bound on the processes the child starts

VARIABLES
  wpc,                 \* where the user is
  wproc,               \* XPLPROC: the handles it records, done, reaped
  wopen, wleak,        \* handles that are open; those that nobody records
  life,                \* the child: none, suspended, running, ended
  kids,                \* how many of the job's other processes run
  port, zero           \* the job has a port; its message is queued

winVars == <<wpc, wproc, wopen, wleak, life, kids, port, zero>>

Recorded == {"ihandle", "ohandle", "ehandle", "hProcess"}
In  == {"stdInRd", "stdInWr"}
Out == {"stdOutRd", "stdOutWr"}
Err == {"stdErrRd", "stdErrWr"}
NoHandle == [handles |-> {}, done |-> FALSE, reaped |-> FALSE]

WinInit == /\ wpc = "idle" /\ wproc = NoHandle /\ wopen = {} /\ wleak = {}
           /\ life = "none" /\ kids = 0 /\ port = FALSE /\ zero = FALSE

WTo(from, to) == wpc = from /\ wpc' = to
-----------------------------------------------------------------------------
(* The child and its job *)

Job == <<life, kids, zero>>

\* A process of the job ends: the last one sends the message.
Ends(l, k) == /\ life' = l /\ kids' = k
              /\ zero' = (zero \/ (port /\ l = "ended" /\ k = 0))

KidStarts == /\ life = "running" /\ kids < MaxKids
             /\ Ends("running", kids + 1)
             /\ UNCHANGED <<wpc, wproc, wopen, wleak, port>>

KidEnds == /\ \/ life = "running" /\ Ends("ended", kids)
              \/ kids > 0 /\ Ends(life, kids - 1)
           /\ UNCHANGED <<wpc, wproc, wopen, wleak, port>>
-----------------------------------------------------------------------------
(* XplProcExec *)

\* What a failing step leaves open: none of the pipes made before it is closed,
\* nor is the handle of a child that could not be put into a job.
Left(step) ==
  CASE step = "stdout" -> In
    [] step = "stderr" -> In \cup Out
    [] step = "create" -> In \cup Out \cup Err
    [] step = "job"    -> Recorded
    [] OTHER -> {}

ExecFails(step) ==
  /\ wpc = "idle"
  /\ wleak' = wleak \cup Left(step)
  /\ UNCHANGED <<wpc, wproc, wopen, Job, port>>

\* Mutant: the child is not suspended when it is created.
CreateRunning ==
  /\ WTo("idle", "job")
  /\ wproc' = [NoHandle EXCEPT !.handles = Recorded]
  /\ wopen' = Recorded \cup {"hThread"}
  /\ life' = "running" /\ kids' = 0 /\ zero' = FALSE /\ port' = FALSE
  /\ UNCHANGED wleak

\* CreateProcess; the child's ends of the pipes are closed, ours recorded.
Create ==
  /\ WTo("idle", "job")
  /\ wproc' = [NoHandle EXCEPT !.handles = Recorded]
  /\ wopen' = Recorded \cup {"hThread"}
  /\ life' = "suspended" /\ kids' = 0 /\ zero' = FALSE /\ port' = FALSE
  /\ UNCHANGED wleak

SetUpJob ==
  /\ WTo("job", "resume")
  /\ wproc' = [wproc EXCEPT !.handles = @ \cup {"hJob", "iocp"}]
  /\ wopen' = wopen \cup {"hJob", "iocp"}
  /\ port' = TRUE
  /\ UNCHANGED <<wleak, Job>>

Resume ==
  /\ WTo("resume", "held")
  /\ wopen' = wopen \ {"hThread"}
  /\ life' = IF life = "suspended" THEN "running" ELSE life
  /\ UNCHANGED <<wproc, wleak, kids, port, zero>>
-----------------------------------------------------------------------------
(* Signals, joins and the release.  A timeout may run out at any time.     *)

\* XplProcSignal: a child without windows or console is terminated.
WSignal ==
  /\ wpc = "held" /\ ~wproc.reaped
  /\ \/ life = "running" /\ Ends("ended", kids)
     \/ UNCHANGED Job
  /\ UNCHANGED <<wpc, wproc, wopen, wleak, port>>

\* XplProcSignalGroup: the job is terminated, or its processes get a message.
SignalGroup ==
  /\ wpc = "held" /\ ~wproc.reaped
  /\ \/ life = "running" /\ Ends("ended", 0)
     \/ life = "ended" /\ kids > 0 /\ Ends("ended", 0)
     \/ UNCHANGED Job
  /\ UNCHANGED <<wpc, wproc, wopen, wleak, port>>

WJoin(to) ==
  /\ WTo("held", to) /\ ~wproc.reaped
  /\ UNCHANGED <<wproc, wopen, wleak, Job, port>>

\* XplProcJoinEx: the child has ended; once done, a join does not wait again.
WJoined ==
  /\ wpc \in {"join", "group", "free"}
  /\ wproc.done \/ life = "ended"
  /\ wproc' = [wproc EXCEPT !.done = TRUE]
  /\ wpc' = CASE wpc = "join" -> "held" [] wpc = "group" -> "group_port" [] OTHER -> "shut"
  /\ UNCHANGED <<wopen, wleak, Job, port>>

\* XplProcJoinGroupEx takes the message off the port.
GroupJoined ==
  /\ WTo("group_port", "held") /\ zero
  /\ zero' = FALSE
  /\ wproc' = [wproc EXCEPT !.reaped = TRUE]
  /\ UNCHANGED <<wopen, wleak, life, kids, port>>

\* A join with a timeout gives up; the free of a handle has none.
TimesOut ==
  /\ \/ wpc = "join" /\ life # "ended"
     \/ wpc = "group" /\ life # "ended"
     \/ wpc = "group_port" /\ ~zero
  /\ wpc' = "held"
  /\ UNCHANGED <<wproc, wopen, wleak, Job, port>>

\* XplProcFlush
WFlush ==
  /\ wpc = "held"
  /\ wproc' = [wproc EXCEPT !.handles = @ \ {"ihandle"}]
  /\ wopen' = wopen \ {"ihandle"}
  /\ UNCHANGED <<wpc, wleak, Job, port>>

\* XplProcFree joins the child, not its job; a reaped one is not joined.
WFree ==
  /\ WTo("held", IF wproc.reaped THEN "shut" ELSE "free")
  /\ UNCHANGED <<wproc, wopen, wleak, Job, port>>

\* procShutdown closes what is recorded; procFree.
Shutdown ==
  /\ WTo("shut", "idle")
  /\ wopen' = wopen \ wproc.handles
  /\ wproc' = NoHandle
  /\ life' = "none" /\ kids' = 0 /\ zero' = FALSE /\ port' = FALSE
  /\ UNCHANGED wleak

WinNext ==
  \/ KidStarts \/ KidEnds
  \/ \E step \in {"stdout", "stderr", "create", "job", "other"} : ExecFails(step)
  \/ Create \/ SetUpJob \/ Resume
  \/ WSignal \/ SignalGroup
  \/ \E to \in {"join", "group"} : WJoin(to)
  \/ WJoined \/ GroupJoined \/ TimesOut \/ WFlush \/ WFree \/ Shutdown

\* The user's thread goes on, and every process ends some day.
GoesOn      == SetUpJob \/ Resume \/ WJoined \/ GroupJoined \/ Shutdown
WinFairness == WF_winVars(GoesOn) /\ WF_winVars(KidEnds)

WinSpec == WinInit /\ [][WinNext]_winVars /\ WinFairness
-----------------------------------------------------------------------------
(* Properties *)

\* Between its creation and its release a handle records what is open for it,
\* and nothing of it is open after that, whether the child, or only its job, or
\* neither has been joined.  What a failing exec leaks is never closed.
WinHandlesSound ==
  /\ wpc \in {"held", "join", "group", "group_port", "free", "shut"} => wopen = wproc.handles
  /\ wpc = "idle" => wopen = {}

\* A join of the group that does not give up returns, as the message of the last
\* process can be neither lost before the port is there nor taken by another
\* join, and it says so only when no process of the group runs.
GroupJoins ==
  /\ wpc = "group_port" ~> wpc # "group_port"
  /\ [](wproc.reaped => life = "ended" /\ kids = 0)
=============================================================================
