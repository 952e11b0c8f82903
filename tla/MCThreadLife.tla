---------------------------- MODULE MCThreadLife ----------------------------
(***************************************************************************)
(* ThreadLife with a few workers, groups and thread structures.            *)
(***************************************************************************)
EXTENDS ThreadLife, TLC

CONSTANTS w1, w2, t1, t2, t3, g1, g2

MCWorkers == {w1, w2}
MCOneWorker == {w1}
MCThreads == {t1, t2, t3}
MCGroups == {g1, g2}

=============================================================================
