----------------------------- MODULE MCSlabPool -----------------------------
(* SlabPool on a small instance: threads and slabs are model values.        *)
EXTENDS SlabPool

CONSTANTS t1, t2, s1, s2
MCThreads == {t1, t2}
MCSlabs   == {s1, s2}
MCChunkSizes == {2}
=============================================================================
