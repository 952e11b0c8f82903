------------------------------- MODULE Timers -------------------------------
(***************************************************************************)
(* Stop watches, src/xpl/mem.c and src/include/xplutil.h: a timer is        *)
(* started, split, lapped and stopped while a clock that never goes back    *)
(* goes on, and its times are accumulated.                                  *)
(***************************************************************************)
EXTENDS Integers

CONSTANTS
  PerSecond,      \* microseconds in a second
  MaxNow,         \* bound on the clock
  MaxCount        \* bound on the times that are accumulated

VARIABLES
  now,            \* microseconds
  start, lap,     \* when the timer was started, and when it was lapped last
  laps,           \* the laps together
  accum, longest, shortest  \* XplTimerAccumulator, and what its times were

timerVars == <<now, start, lap, laps, accum, longest, shortest>>

Time(n)  == [sec |-> n \div PerSecond, usec |-> n % PerSecond]
Micro(t) == t.sec * PerSecond + t.usec
Zero     == Time(0)

TimersInit ==
  /\ now \in 0..PerSecond /\ start = Time(now) /\ lap = Time(now) /\ laps = Zero
  /\ accum = [count |-> 0, total |-> Zero, max |-> Zero, min |-> Zero]
  /\ longest = 0 /\ shortest = 0
-----------------------------------------------------------------------------
(* Arithmetic *)

Cmp(l, r) == IF l.sec # r.sec THEN l.sec - r.sec ELSE l.usec - r.usec

\* Mutant: a second is not borrowed.
SinceUnborrowed(end, begin) ==
  [sec |-> end.sec - begin.sec, usec |-> (end.usec - begin.usec) % PerSecond]

\* XplTimerSplit and XplTimerLap.
Since(end, begin) ==
  IF end.usec < begin.usec
  THEN [sec |-> end.sec - begin.sec - 1, usec |-> PerSecond - (begin.usec - end.usec)]
  ELSE [sec |-> end.sec - begin.sec, usec |-> end.usec - begin.usec]

\* XplTimerStop borrows when the microseconds are equal, too.
Stopped(end, begin) ==
  IF end.sec = begin.sec THEN [sec |-> 0, usec |-> end.usec - begin.usec]
  ELSE IF end.usec <= begin.usec
  THEN [sec |-> end.sec - begin.sec - 1, usec |-> end.usec + PerSecond - begin.usec]
  ELSE [sec |-> end.sec - begin.sec, usec |-> end.usec - begin.usec]

\* An end before its beginning is no time at all.
Subtract(end, begin) ==
  IF end.sec >= begin.sec /\ end.usec >= begin.usec
  THEN [sec |-> end.sec - begin.sec, usec |-> end.usec - begin.usec]
  ELSE IF end.sec > begin.sec
  THEN [sec |-> end.sec - begin.sec - 1, usec |-> PerSecond + end.usec - begin.usec]
  ELSE Zero

\* A whole second of microseconds is not carried.
Carried(t) == IF t.usec > PerSecond THEN [sec |-> t.sec + 1, usec |-> t.usec - PerSecond] ELSE t

Add(a, b) == Carried([sec |-> a.sec + b.sec, usec |-> a.usec + b.usec])

Divide(t, d) == Time(Micro(t) \div d)

\* The first time is counted but not added to the total.
Accumulate(a, t) ==
  IF a.count = 0 THEN [count |-> 1, total |-> a.total, max |-> t, min |-> t]
  ELSE [count |-> a.count + 1, total |-> Add(a.total, t),
        max |-> IF Cmp(t, a.max) > 0 THEN t ELSE a.max,
        min |-> IF Cmp(t, a.min) < 0 THEN t ELSE a.min]

Average(a) ==
  IF a.count = 0 THEN Zero
  ELSE Carried([sec |-> a.total.sec \div a.count,
                usec |-> ((a.total.sec % a.count) * PerSecond + a.total.usec) \div a.count])
-----------------------------------------------------------------------------
(* The steps *)

Pass ==
  /\ now < MaxNow /\ now' = now + 1
  /\ UNCHANGED <<start, lap, laps, accum, longest, shortest>>

Lap ==
  /\ laps' = Add(laps, Since(Time(now), lap)) /\ lap' = Time(now)
  /\ UNCHANGED <<now, start, accum, longest, shortest>>

\* The timer is stopped, its time accumulated, and it is started again.
Stop ==
  LET t == Stopped(Time(now), start) IN
  /\ accum.count < MaxCount /\ accum' = Accumulate(accum, t)
  /\ longest'  = IF accum.count = 0 \/ Micro(t) > longest THEN Micro(t) ELSE longest
  /\ shortest' = IF accum.count = 0 \/ Micro(t) < shortest THEN Micro(t) ELSE shortest
  /\ start' = Time(now) /\ lap' = Time(now) /\ laps' = Zero /\ UNCHANGED now

TimersNext == Pass \/ Lap \/ Stop
-----------------------------------------------------------------------------
(* Property *)

\* The laps add up to the split since the start, however they fall into seconds;
\* split, stop and difference agree; the longest and the shortest time are
\* kept, though times of a whole second have two forms; the average is
\* never above the longest (mem.c:539-562, 724-846).
TimersSound ==
  LET split == Since(Time(now), start) IN
  /\ Micro(laps) + Micro(Since(Time(now), lap)) = Micro(split)
  /\ Micro(split) = now - Micro(start) /\ split.usec \in 0..(PerSecond - 1)
  /\ Micro(Stopped(Time(now), start)) = Micro(split)
  /\ Subtract(Time(now), start) = split
  /\ Micro(accum.max) = longest /\ Micro(accum.min) = shortest
  /\ Micro(Average(accum)) <= longest
  /\ accum.count > 0 => Micro(Average(accum)) = Micro(Divide(accum.total, accum.count))
=============================================================================
