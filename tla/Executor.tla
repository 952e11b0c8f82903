------------------------------ MODULE Executor ------------------------------
(***************************************************************************)
(* What XplThreadStart promises of the functions it is given: each is run  *)
(* once by some thread, and those that wait for a worker are taken in the  *)
(* order they were started in.  ThreadPool is shown to implement this.     *)
(***************************************************************************)
EXTENDS Sequences

CONSTANT Threads     \* the _XplThread structures, one for each function to run

VARIABLES queue,     \* threads that wait for a worker
          running    \* threads whose function has a system thread

vars == <<queue, running>>

Waiting == {queue[i] : i \in DOMAIN queue}

Init == queue = <<>> /\ running = {}

Submit(t) == /\ t \notin Waiting \cup running
             /\ queue' = Append(queue, t)
             /\ UNCHANGED running

Begin == /\ queue # <<>>
         /\ running' = running \cup {Head(queue)}
         /\ queue' = Tail(queue)

\* A thread with a stack size of its own does not use the queue.
BeginAlone(t) == /\ t \notin Waiting \cup running
                 /\ running' = running \cup {t}
                 /\ UNCHANGED queue

Finish(t) == /\ t \in running
             /\ running' = running \ {t}
             /\ UNCHANGED queue

Next == \/ Begin
        \/ \E t \in Threads : Submit(t) \/ BeginAlone(t) \/ Finish(t)

Spec == Init /\ [][Next]_vars
=============================================================================
