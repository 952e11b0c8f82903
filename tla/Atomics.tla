------------------------------ MODULE Atomics ------------------------------
(***************************************************************************)
(* XplAtomic, src/xpl/rwlock.c: one unsigned number of so many bits, and   *)
(* the operations on it, each under the lock of the number.                *)
(***************************************************************************)
EXTENDS Integers, FiniteSets

CONSTANTS
  Workers, Width,
  NoOp

VARIABLES
  number, holder,   \* the value and the owner of its lock
  op,               \* what each thread is doing, and the value it has read
  returned,         \* what its last operation gave back
  total,            \* the value if every operation were one step
  promised          \* and what it would have given back

atomVars == <<number, holder, op, returned, total, promised>>

Numbers == 0..(2^Width - 1)

Ops == [kind : {"read", "write", "add", "and", "or"}, by : Numbers]

AtomInit ==
  /\ number = 0 /\ holder = NoOp /\ total = 0
  /\ op = [t \in Workers |-> NoOp]
  /\ returned = [t \in Workers |-> 0] /\ promised = [t \in Workers |-> 0]

Bits(v)   == {k \in 0..Width - 1 : (v \div 2^k) % 2 = 1}
OfBits(S) == CHOOSE v \in Numbers : Bits(v) = S

\* The new value of a number.
SafeRead(v)      == v
SafeWrite(v, by) == by
SafeAdd(v, by)   == (v + by) % 2^Width
SafeAnd(v, by)   == OfBits(Bits(v) \cap Bits(by))
SafeOr(v, by)    == OfBits(Bits(v) \cup Bits(by))

New(o, v) ==
  CASE o.kind = "read"  -> SafeRead(v)
    [] o.kind = "write" -> SafeWrite(v, o.by)
    [] o.kind = "add"   -> SafeAdd(v, o.by)
    [] o.kind = "and"   -> SafeAnd(v, o.by)
    [] o.kind = "or"    -> SafeOr(v, o.by)

\* Only an addition gives back the new value.
Result(o, v) == IF o.kind = "add" THEN New(o, v) ELSE v

Begin(t) ==
  /\ op[t] = NoOp /\ holder = NoOp /\ holder' = t
  /\ \E o \in Ops :
       /\ o.kind = "read" => o.by = 0
       /\ op' = [op EXCEPT ![t] = [do |-> o, read |-> number]]
  /\ UNCHANGED <<number, returned, total, promised>>

End(t) ==
  /\ op[t] # NoOp
  /\ LET o == op[t].do  v == op[t].read IN
     /\ number' = New(o, v) /\ returned' = [returned EXCEPT ![t] = Result(o, v)]
     /\ total' = New(o, total) /\ promised' = [promised EXCEPT ![t] = Result(o, total)]
  /\ holder' = NoOp /\ op' = [op EXCEPT ![t] = NoOp]

AtomNext == \E t \in Workers : Begin(t) \/ End(t)
-----------------------------------------------------------------------------
(* Property *)

\* However the operations of several threads overlap, each takes effect and
\* gives back as one step, also when an addition rolls over (rwlock.c:159-358).
AtomicsSound == number = total /\ returned = promised
=============================================================================
