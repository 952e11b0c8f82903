------------------------------ MODULE NodePool ------------------------------
(***************************************************************************)
(* What a slab pool promises its callers, without slabs, lists, counters   *)
(* or locks: a node is either available or out with exactly one caller.    *)
(* SlabPool is shown to implement this specification.                      *)
(***************************************************************************)
CONSTANTS Threads,   \* the callers of the pool
          Node       \* every node the pool could ever hand out

VARIABLES avail,     \* nodes the pool may hand out
          out        \* out[t]: nodes that left the pool through caller t

vars == <<avail, out>>

TypeOK == /\ avail \in SUBSET Node
          /\ out \in [Threads -> SUBSET Node]

Init == /\ avail = {}
        /\ out = [t \in Threads |-> {}]

\* Fresh memory becomes available: none of it was in the pool before.
Add(S) == /\ S \cap avail = {}
          /\ \A t \in Threads : S \cap out[t] = {}
          /\ avail' = avail \cup S
          /\ UNCHANGED out

Take(t, S) == /\ S # {}
              /\ S \subseteq avail
              /\ avail' = avail \ S
              /\ out' = [out EXCEPT ![t] = @ \cup S]

Return(t, S) == /\ S # {}
                /\ S \subseteq out[t]
                /\ out' = [out EXCEPT ![t] = @ \ S]
                /\ avail' = avail \cup S

\* The pool is destroyed: everything goes, outstanding nodes included.
Drain == /\ avail' = {}
         /\ out' = [t \in Threads |-> {}]

Next == \/ \E S \in SUBSET Node : Add(S)
        \/ \E t \in Threads, S \in SUBSET Node : Take(t, S) \/ Return(t, S)
        \/ Drain

Spec == Init /\ [][Next]_vars

-----------------------------------------------------------------------------
\* No node is out with two callers, and none that is out can be handed out.
OneOwner == /\ \A t, u \in Threads : t # u => out[t] \cap out[u] = {}
            /\ \A t \in Threads : out[t] \cap avail = {}
=============================================================================
