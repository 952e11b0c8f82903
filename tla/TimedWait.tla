------------------------------ MODULE TimedWait ------------------------------
(***************************************************************************)
(* A semaphore and a wait for it with a timeout, src/memmgr/thread.c on    *)
(* Linux.  A moment is a number of milliseconds; _XplSemaTimedWait reads   *)
(* it as seconds and a rest, which it counts in microseconds.              *)
(***************************************************************************)
EXTENDS Integers

CONSTANTS
  PerSec, PerMilli,   \* milliseconds in a second, microseconds in a millisecond
  MaxTime, MaxPosts,  \* bounds on the clock and on the semaphore
  Timeouts            \* what is asked for, -1 for no timeout

VARIABLES
  time,
  value,       \* of the semaphore
  wait,        \* the call: milliseconds, when it began, endTime, and ts
  posted, taken

waitVars == <<time, value, wait, posted, taken>>

NoWait == [at |-> "none"]

WaitInit == time = 0 /\ value = 0 /\ wait = NoWait /\ posted = 0 /\ taken = 0

Sec(t)  == t \div PerSec
Rest(t) == t % PerSec

\* ts.tv_nsec / 1000 are microseconds, added to milliseconds.
Now(t) == Sec(t) * PerSec + Rest(t) * PerMilli

\* The seconds are added, the rest is that of the timeout alone.
Until(t, ms) == (Sec(t) + Sec(ms)) * PerSec + Rest(ms)
-----------------------------------------------------------------------------
Tick ==
  /\ time < MaxTime /\ time' = time + 1 /\ UNCHANGED <<value, wait, posted, taken>>

Post ==
  /\ posted < MaxPosts /\ value' = value + 1 /\ posted' = posted + 1
  /\ UNCHANGED <<time, wait, taken>>

\* Without a timeout it is _XplSemaWait.
Begin(ms) ==
  /\ wait.at = "none"
  /\ wait' = IF ms = -1 THEN [at |-> "wait"]
             ELSE [at |-> "timed", ms |-> ms, began |-> time, end |-> Now(time) + ms,
                   ts |-> Until(time, ms), interrupted |-> FALSE]
  /\ UNCHANGED <<time, value, posted, taken>>

Got ==
  /\ wait.at \in {"wait", "timed"} /\ value > 0
  /\ value' = value - 1 /\ taken' = taken + 1 /\ wait' = NoWait
  /\ UNCHANGED <<time, posted>>

Late(w, interrupted) ==
  wait' = [at |-> "late", ms |-> w.ms, began |-> w.began, interrupted |-> interrupted, ended |-> time]

\* ETIMEDOUT of sem_timedwait, which takes a post if there is one.
TimedOut ==
  /\ wait.at = "timed" /\ value = 0 /\ time >= wait.ts
  /\ Late(wait, wait.interrupted)
  /\ UNCHANGED <<time, value, posted, taken>>

\* A signal: what is left is computed anew.  A wait without a timeout just
\* begins again.
Interrupt ==
  /\ wait.at = "timed"
  /\ LET left == wait.end - Now(time) IN
     IF left < 0 THEN Late(wait, TRUE)
     ELSE wait' = [wait EXCEPT !.ms = left, !.ts = Until(time, left), !.interrupted = TRUE]
  /\ UNCHANGED <<time, value, posted, taken>>

Return == wait.at = "late" /\ wait' = NoWait /\ UNCHANGED <<time, value, posted, taken>>

WaitNext ==
  \/ Tick \/ Post \/ Got \/ TimedOut \/ Interrupt \/ Return
  \/ \E ms \in Timeouts : Begin(ms)
-----------------------------------------------------------------------------
(* Property *)

\* No post is lost or taken twice.  A wait that is not interrupted never lasts
\* longer than it was asked for, and ends less than a second early; one that is
\* interrupted may last longer by as much as the rest of the moment it began at
\* counts too much (thread.c:263-312).
WaitSound ==
  /\ value = posted - taken /\ value >= 0
  /\ wait.at = "timed" =>
       /\ wait.ts <= wait.end - Now(wait.began) + wait.began + Rest(wait.began) * (PerMilli - 1)
       /\ ~wait.interrupted => wait.ts \in (wait.began + wait.ms - PerSec + 1)..(wait.began + wait.ms)
  /\ wait.at = "late" /\ ~wait.interrupted => wait.ended > wait.began + wait.ms - PerSec
=============================================================================
