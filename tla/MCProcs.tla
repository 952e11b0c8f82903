------------------------------ MODULE MCProcs ------------------------------
(* Child processes on POSIX and on Windows: a behaviour is of one of them. *)
EXTENDS Integers
CONSTANTS Parents, PipeSize, MaxTimeout, MaxKids
VARIABLES part, MTSem, upc, proc, open, left, kid, output, stray,
          wpc, wproc, wopen, wleak, life, kids, port, zero

U == INSTANCE ProcUnix
W == INSTANCE ProcWin

unix    == <<MTSem, upc, proc, open, left, kid, output, stray>>
windows == <<wpc, wproc, wopen, wleak, life, kids, port, zero>>
procsVars    == <<part, unix, windows>>

ProcsInit == part \in {"unix", "windows"} /\ U!ProcInit /\ W!WinInit

OnUnix    == part = "unix" /\ UNCHANGED <<part, windows>>
OnWindows == part = "windows" /\ UNCHANGED <<part, unix>>

ProcsNext == (OnUnix /\ U!ProcNext) \/ (OnWindows /\ W!WinNext)

\* The fairness of the two specifications.
ProcsFairness ==
  /\ \A u \in Parents : /\ WF_procsVars(OnUnix /\ U!InCall(u))
                      /\ SF_procsVars(OnUnix /\ U!WaitsTurn(u))
                      /\ SF_procsVars(OnUnix /\ U!KidEnds(u))
  /\ WF_procsVars(OnWindows /\ W!GoesOn) /\ WF_procsVars(OnWindows /\ W!KidEnds)

ProcsSpec == ProcsInit /\ [][ProcsNext]_procsVars /\ ProcsFairness

\* A handle records what is open for it (procunix.c:85-205, procwin.c:371-504).
HandlesSound == U!HandleSound /\ W!WinHandlesSound

\* Calls return, and joins of a group (procunix.c:104-111, 546-570,
\* procwin.c:824-853).
CallsReturn == U!CallsReturn /\ W!GroupJoins
=============================================================================
