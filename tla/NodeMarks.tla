------------------------------ MODULE NodeMarks ------------------------------
(***************************************************************************)
(* The marks of a node with DEBUG_ASSERT, src/memmgr/slab.c and            *)
(* src/include/memmgr.h: a signature before the data and a trail behind it *)
(* say whether a node is allocated, free or watched, and each call asserts *)
(* that they are what they should be.  One owner of one block, in pools of *)
(* one node each, and another thread that validates the pools.             *)
(*                                                                         *)
(* _ValidatePool keeps a slab's two locks, so that a node goes on or off a *)
(* list before or after it; other marks are set without a lock, in steps   *)
(* of their own.  A failed assertion ends the program.                     *)
(***************************************************************************)
EXTENDS Integers, FiniteSets

CONSTANTS
  Capacity,    \* the data of the node of each pool, smallest first
  Keys,        \* what a block is locked with, 0 for none
  NoNode

MarkPools == DOMAIN Capacity

VARIABLES
  node,        \* _MemNode: list, size, sig, cell (with the trail behind size), key
  holding,     \* the owner's node
  doing,       \* what is left of its call
  locked,      \* the key the owner gave
  spoilt,      \* a node the owner wrote behind, and nobody noticed
  report       \* the assertion that failed, and in whose call

markVars == <<node, holding, doing, locked, spoilt, report>>

Rest  == [at |-> "rest", of |-> NoNode]
Quiet == [what |-> "none", by |-> "none"]

Marked(r, mark) == [r EXCEPT !.cell[r.size + 1] = mark]
Trail(r) == r.cell[r.size + 1]

MarksInit ==
  /\ node = [p \in MarkPools |->
       Marked([list |-> TRUE, size |-> Capacity[p], sig |-> "free", key |-> 0,
               cell |-> [i \in 1..(Capacity[p] + 1) |-> "data"]], "free")]
  /\ holding = NoNode /\ doing = Rest /\ locked = 0 /\ spoilt = NoNode /\ report = Quiet

\* _AssertSig and _AssertTrail; a trail is reported as what comes first in the
\* node and is not as it should be.
Fault(r) ==
  IF r.sig = "free" THEN "free"
  ELSE IF r.sig # "red" THEN "underwrite"
  ELSE IF Trail(r) # "red" THEN "overwrite" ELSE "none"

\* What MMAssert finds: the signature, unless the node is watched, then the
\* size, then the trail, which a watched node still needs, and whose report
\* then blames the signature.
AssertFault(r) ==
  IF r.sig \notin {"red", "watch"} THEN Fault(r)
  ELSE IF r.size = 0 THEN "empty"
  ELSE IF Trail(r) = "red" THEN "none"
  ELSE IF r.sig = "red" THEN "overwrite" ELSE "underwrite"

\* _AssertSigF and _AssertTrailF, which know no signature but the red one.
FaultFree(r) == IF r.sig # "free" \/ Trail(r) # "free" THEN "underwrite" ELSE "none"

Fails(what) == report' = [what |-> what, by |-> "owner"]
               /\ UNCHANGED <<node, holding, doing, locked, spoilt>>

Idle  == report = Quiet /\ doing.at = "rest"
Holds == Idle /\ holding # NoNode

Change(p, r) == node' = [node EXCEPT ![p] = r]
-----------------------------------------------------------------------------
(* _MMAlloc: _GetNode under the lock of the list, then the size *)

Serves(n) == CHOOSE p \in MarkPools : n <= Capacity[p] /\ \A q \in MarkPools : n <= Capacity[q] => p <= q

\* _GetNode sets the signature before it looks at the trail.
Take(n, at) ==
  LET p == Serves(n)
      r == [node[p] EXCEPT !.sig = "red", !.list = FALSE]
  IN  IF FaultFree(node[p]) # "none"
      THEN Fails(IF node[p].sig = "free" THEN "overwrite" ELSE "underwrite")
      ELSE /\ Change(p, Marked(r, "red"))
           /\ doing' = [at |-> at, of |-> p, size |-> n]
           /\ UNCHANGED <<holding, locked, spoilt, report>>

MMAlloc(n) == Idle /\ holding = NoNode /\ Take(n, "size")

\* The trail is cleared where it was ...
SetSize ==
  /\ report = Quiet /\ doing.at \in {"size", "moved"}
  /\ LET r == Marked(node[doing.of], "data") IN Change(doing.of, [r EXCEPT !.size = doing.size])
  /\ doing' = [doing EXCEPT !.at = IF @ = "size" THEN "trail" ELSE "moved trail"]
  /\ UNCHANGED <<holding, locked, spoilt, report>>

\* ... and set where the data ends now.
SetTrail ==
  /\ report = Quiet /\ doing.at = "trail"
  /\ Change(doing.of, Marked(node[doing.of], "red"))
  /\ holding' = doing.of /\ doing' = Rest /\ UNCHANGED <<locked, spoilt, report>>
-----------------------------------------------------------------------------
(* MMAllocEx of a block, MMSize *)

Realloc(n) ==
  /\ Holds
  /\ LET r == node[holding] IN
     IF Fault(r) # "none" THEN Fails(Fault(r))
     ELSE IF n <= Capacity[holding]
     THEN /\ Change(holding, [Marked(r, "data") EXCEPT !.size = n])
          /\ doing' = [at |-> "trail", of |-> holding, size |-> n]
          /\ UNCHANGED <<holding, locked, spoilt, report>>
     ELSE Take(n, "moved")

\* The new node gets the key, and the old one is freed.
Move ==
  /\ report = Quiet /\ doing.at = "moved trail"
  /\ node' = [node EXCEPT ![doing.of] = [Marked(@, "red") EXCEPT !.key = node[holding].key],
                          ![holding].key = 0]
  /\ doing' = [at |-> "free", of |-> holding] /\ holding' = doing.of
  /\ UNCHANGED <<locked, spoilt, report>>

\* MMSize does not look at the trail it replaces.
MMSize ==
  /\ Holds /\ node[holding].size # Capacity[holding]
  /\ Change(holding, [Marked(node[holding], "data") EXCEPT !.size = Capacity[holding]])
  /\ doing' = [at |-> "trail", of |-> holding, size |-> Capacity[holding]]
  /\ spoilt' = NoNode /\ UNCHANGED <<holding, locked, report>>
-----------------------------------------------------------------------------
(* _NodeFree, _PoolFree *)

NodeFree(p, by) ==
  IF node[p].key # 0 THEN Fails("locked")
  ELSE IF Fault(node[p]) # "none" THEN Fails(Fault(node[p]))
  ELSE /\ Change(p, Marked(node[p], "data"))
       /\ doing' = [at |-> "mark", of |-> p] /\ holding' = by
       /\ UNCHANGED <<locked, spoilt, report>>

MMFree  == Holds /\ locked = 0 /\ NodeFree(holding, NoNode)
FreeOld == report = Quiet /\ doing.at = "free" /\ NodeFree(doing.of, holding)

MarkFree ==
  /\ report = Quiet /\ doing.at = "mark"
  /\ Change(doing.of, Marked([node[doing.of] EXCEPT !.size = Capacity[doing.of], !.sig = "free"], "free"))
  /\ doing' = [doing EXCEPT !.at = "push"] /\ UNCHANGED <<holding, locked, spoilt, report>>

Push ==
  /\ report = Quiet /\ doing.at = "push"
  /\ Change(doing.of, [node[doing.of] EXCEPT !.list = TRUE])
  /\ doing' = Rest /\ UNCHANGED <<holding, locked, spoilt, report>>
-----------------------------------------------------------------------------
(* MMLock, MMUnlock, MMWatch, MMUnwatch, MMAssert *)

\* MMLock and MMUnlock call MMAssert before they look at the key.
MMLock(k) ==
  /\ Holds /\ locked = 0 /\ k # 0
  /\ IF AssertFault(node[holding]) # "none" THEN Fails(AssertFault(node[holding]))
     ELSE IF node[holding].key # 0 THEN Fails("locked")
     ELSE /\ Change(holding, [node[holding] EXCEPT !.key = k]) /\ locked' = k
          /\ UNCHANGED <<holding, doing, spoilt, report>>

MMUnlock ==
  /\ Holds /\ locked # 0
  /\ IF AssertFault(node[holding]) # "none" THEN Fails(AssertFault(node[holding]))
     ELSE IF node[holding].key # locked THEN Fails("unlocked")
     ELSE /\ Change(holding, [node[holding] EXCEPT !.key = 0]) /\ locked' = 0
          /\ UNCHANGED <<holding, doing, spoilt, report>>

MMWatch ==
  /\ Holds
  /\ IF node[holding].sig # "red" THEN Fails("underwrite")
     ELSE Change(holding, [node[holding] EXCEPT !.sig = "watch"])
          /\ UNCHANGED <<holding, doing, locked, spoilt, report>>

MMUnwatch ==
  /\ Holds /\ node[holding].sig = "watch"
  /\ Change(holding, [node[holding] EXCEPT !.sig = "red"])
  /\ UNCHANGED <<holding, doing, locked, spoilt, report>>

MMAssert ==
  /\ Holds
  /\ IF AssertFault(node[holding]) # "none" THEN Fails(AssertFault(node[holding]))
     ELSE UNCHANGED markVars
-----------------------------------------------------------------------------
(* The owner writes behind its block; _ValidatePool *)

Overwrite ==
  /\ Holds /\ spoilt = NoNode
  /\ Change(holding, Marked(node[holding], "data")) /\ spoilt' = holding
  /\ UNCHANGED <<holding, doing, locked, report>>

\* A node that links to its slab is taken for allocated.
Validate(p) ==
  /\ report = Quiet
  /\ LET fault == IF node[p].list THEN FaultFree(node[p]) ELSE Fault(node[p]) IN
     report' = IF fault = "none" THEN Quiet ELSE [what |-> fault, by |-> "validate"]
  /\ UNCHANGED <<node, holding, doing, locked, spoilt>>

MarkSizes == 0..Capacity[Cardinality(MarkPools)]

MarksNext ==
  \/ \E n \in MarkSizes : MMAlloc(n) \/ Realloc(n)
  \/ SetSize \/ SetTrail \/ Move \/ MMSize
  \/ MMFree \/ FreeOld \/ MarkFree \/ Push
  \/ \E k \in Keys : MMLock(k)
  \/ MMUnlock \/ MMWatch \/ MMUnwatch \/ MMAssert \/ Overwrite
  \/ \E p \in MarkPools : Validate(p)
-----------------------------------------------------------------------------
(* Properties *)

\* An assertion fails in a call of the owner only if it wrote behind its block,
\* has it watched, or has none; a validation may also see a call half done.
\* What was written behind a block is not lost before it is reported, but in
\* MMSize; and a lock follows its block (slab.c:149-217, 714-760, 918-985,
\* 1586-1612, 1651-1672, 1754-1860).
MarksSound ==
  /\ report.by = "owner" =>
       \/ holding = spoilt \/ node[holding].sig = "watch"
       \/ report.what = "empty" /\ node[holding].size = 0
  /\ report.by = "validate" =>
       \/ spoilt # NoNode \/ doing # Rest \/ node[holding].sig = "watch"
  /\ spoilt # NoNode => Trail(node[spoilt]) = "data" /\ spoilt = holding
  /\ Idle => \A p \in MarkPools :
       IF p = holding THEN node[p].key = locked
       ELSE node[p].list /\ node[p].key = 0 /\ FaultFree(node[p]) = "none"
=============================================================================
