--------------------------- MODULE ReadersWriters ---------------------------
(***************************************************************************)
(* What a read/write lock promises: any number of readers or one writer.   *)
(* RWLock is shown to implement this specification.                        *)
(***************************************************************************)
CONSTANT Threads

VARIABLES readers,   \* threads that hold the lock for reading
          writers    \* threads that hold the lock for writing

vars == <<readers, writers>>

Init == readers = {} /\ writers = {}

BeginRead(t) == /\ writers = {}
                /\ readers' = readers \cup {t}
                /\ UNCHANGED writers

EndRead(t) == /\ t \in readers
              /\ readers' = readers \ {t}
              /\ UNCHANGED writers

BeginWrite(t) == /\ readers = {} /\ writers = {}
                 /\ writers' = {t}
                 /\ UNCHANGED readers

EndWrite(t) == /\ t \in writers
               /\ writers' = {}
               /\ UNCHANGED readers

Next == \E t \in Threads : BeginRead(t) \/ EndRead(t) \/ BeginWrite(t) \/ EndWrite(t)

Spec == Init /\ [][Next]_vars
=============================================================================
