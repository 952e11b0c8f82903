---------------------------- MODULE MCThreadPool ----------------------------
(***************************************************************************)
(* ThreadPool with two callers and three threads.                          *)
(***************************************************************************)
EXTENDS ThreadPool

CONSTANTS t1, t2, t3, c1, c2

MCThreads == {t1, t2, t3}
MCCallers == {c1, c2}
MCOneCaller == {c1}
MCNone == {}
=============================================================================
