------------------------------ MODULE MCRWLock ------------------------------
(* RWLock on a small instance: three threads.                               *)
EXTENDS RWLock

CONSTANTS t1, t2, t3
MCThreads == {t1, t2, t3}
=============================================================================
