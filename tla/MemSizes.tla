------------------------------ MODULE MemSizes ------------------------------
(***************************************************************************)
(* Allocations by size, src/memmgr/slab.c: the sixteen pools and the huge  *)
(* blocks behind them, MMAllocEx as malloc, calloc and realloc, and the    *)
(* strings that grow in them.  One caller, one block.                      *)
(*                                                                         *)
(* A byte is text, zero or whatever was in the memory before.  size is the *)
(* node's own: what was asked for, or all of the node when the caller      *)
(* wanted to know the actual size.  The signatures around the data are     *)
(* left out.                                                               *)
(***************************************************************************)
EXTENDS Integers, Sequences, SequencesExt

CONSTANTS
  Sizes,       \* of the sixteen pools
  PageSize, Overhead,  \* of a page and of a node
  BUFFER, FIRST,      \* what MMSprintf and MMStrcatv allocate first
  Requests,    \* the sizes and lengths that are asked for
  MaxSize,     \* bound on a string
  NoBlock

Pools == 1..16
Huge  == 17

Nodes == [pool : Pools \cup {Huge}, size : Nat, data : Seq({"text", "zero", "junk"})]

ASSUME SizesAssumption ==
  /\ Sizes \in [Pools -> Nat] /\ \A i, j \in Pools : i < j => Sizes[i] < Sizes[j]
  /\ Overhead \in Nat /\ PageSize \in Nat /\ PageSize > Overhead
  /\ BUFFER \in Nat \ {0} /\ FIRST \in Nat \ {0} /\ MaxSize \in Nat
  /\ Requests \subseteq Nat /\ NoBlock \notin Nodes

VARIABLES
  block,       \* the node, or NoBlock
  text, clean, \* what the caller relies on: so many bytes of text, then zeros?
  string       \* is the text a string, with its terminator behind it?

sizeVars == <<block, text, clean, string>>

SizesInit == block = NoBlock /\ text = 0 /\ clean = FALSE /\ string = FALSE

Bytes(n, b) == [k \in 1..n |-> b]
-----------------------------------------------------------------------------
(* _MMAlloc *)

\* A search in four comparisons, and one more for what no pool has.
PoolFor(n) ==
  LET i == IF n > Sizes[8] THEN 8 ELSE 0
      j == i + (IF n > Sizes[i + 4] THEN 4 ELSE 0)
      k == j + (IF n > Sizes[j + 2] THEN 2 ELSE 0)
  IN  IF n <= Sizes[k + 1] THEN k + 1 ELSE IF n <= Sizes[k + 2] THEN k + 2 ELSE Huge

PageFit(n) == ((n + (IF n % PageSize # 0 THEN PageSize ELSE 0)) \div PageSize) * PageSize

Alloc(n, actual) ==
  LET i   == PoolFor(n)
      all == IF i = Huge THEN PageFit(n + Overhead) - Overhead ELSE Sizes[i]
  IN  [pool |-> i, size |-> IF actual THEN all ELSE n,
       data |-> Bytes(all, IF i = Huge THEN "zero" ELSE "junk")]

Fill(b, from, to, v) ==
  [b EXCEPT !.data = [k \in DOMAIN @ |-> IF from < k /\ k <= to THEN v ELSE @[k]]]
-----------------------------------------------------------------------------
(* MMAllocEx *)

InPlace(b, n) == b.pool # Huge /\ n <= Sizes[b.pool]

\* Resizing within the node: only what the node grows by is cleared.
Resized(b, n, actual, zero) ==
  LET size == IF actual THEN Sizes[b.pool] ELSE n
      c    == [b EXCEPT !.size = size]
  IN  IF zero THEN Fill(c, b.size, size, "zero") ELSE c

\* Mutant: a moved block is not cleared behind what was copied.
MovedUncleared(b, n, actual, zero) ==
  LET c    == Alloc(n, actual)
      kept == Min({b.size, c.size})
  IN  [c EXCEPT !.data = [k \in DOMAIN @ |-> IF k <= kept THEN b.data[k] ELSE @[k]]]

Moved(b, n, actual, zero) ==
  LET c    == Alloc(n, actual)
      kept == Min({b.size, c.size})
      copy == [c EXCEPT !.data = [k \in DOMAIN @ |-> IF k <= kept THEN b.data[k] ELSE @[k]]]
  IN  IF zero THEN Fill(copy, kept, c.size, "zero") ELSE copy

AllocEx(b, n, actual, zero) ==
  IF b = NoBlock
  THEN LET c == Alloc(n, actual) IN IF zero THEN Fill(c, 0, c.size, "zero") ELSE c
  ELSE IF InPlace(b, n) THEN Resized(b, n, actual, zero)
  ELSE Moved(b, n, actual, zero)

\* The caller's view: what fits is kept.  A node that shrinks in place must not
\* be asked for zeros, as memset would clear all that lies behind it.
MMAllocEx ==
  \E n \in Requests, actual, zero \in BOOLEAN :
    LET b == AllocEx(block, n, actual, zero) IN
    /\ zero /\ block # NoBlock /\ InPlace(block, n) => block.size <= b.size
    /\ block' = b
    /\ text' = IF block = NoBlock THEN 0 ELSE Min({text, b.size})
    /\ clean' = (zero /\ (block = NoBlock \/ clean \/ text = block.size))
    /\ string' = (string /\ text < b.size)

\* The caller fills the block.
Write ==
  /\ block # NoBlock
  /\ block' = Fill(block, 0, block.size, "text")
  /\ text' = block.size /\ clean' = FALSE /\ string' = FALSE

\* A huge node has no pool to ask.
MMSize ==
  /\ block # NoBlock /\ block.pool # Huge
  /\ block' = [block EXCEPT !.size = Sizes[block.pool]]
  /\ clean' = (clean /\ block.size = Sizes[block.pool])
  /\ UNCHANGED <<text, string>>

MMFree == block # NoBlock /\ block' = NoBlock /\ text' = 0 /\ clean' = FALSE /\ string' = FALSE
-----------------------------------------------------------------------------
(* Strings *)

Used(b) == Min({k \in 1..b.size : b.data[k] = "zero"}) - 1

\* vstrcatf, when what it needs fits.
Appended(b, k) == LET u == Used(b) IN Fill(Fill(b, u, u + k, "text"), u + k, u + k + 1, "zero")

\* MMStrcatv uses all of the node, and moves when that is not enough.
Strcat(b, k) ==
  LET c == IF b = NoBlock THEN AllocEx(NoBlock, FIRST, TRUE, TRUE)
           ELSE [b EXCEPT !.size = Sizes[b.pool]]
      needed == Used(c) + k + 1
  IN  Appended(IF needed > c.size THEN AllocEx(c, needed, TRUE, TRUE) ELSE c, k)

MMStrcatv ==
  \E k \in Requests :
    /\ block # NoBlock => string /\ block.pool # Huge
    /\ text + k + 1 <= MaxSize
    /\ block' = Strcat(block, k)
    /\ text' = text + k /\ clean' = FALSE /\ string' = TRUE

\* strdup, and a buffer that MMAsprintf fills or asks for again.  MMSprintf
\* looks at what was written, not at what was needed, and does not ask again.
Printed(k) == LET b == Fill(Alloc(BUFFER, FALSE), 0, 1, "zero")
              IN  Appended(IF k + 1 > BUFFER THEN AllocEx(b, k + 2, FALSE, FALSE) ELSE b, k)

Duplicate(k) == Fill(Fill(Alloc(k + 1, FALSE), 0, k, "text"), k, k + 1, "zero")

MMPrint ==
  /\ block = NoBlock
  /\ \E k \in Requests : text' = k /\ block' \in {Printed(k), Duplicate(k)}
  /\ clean' = FALSE /\ string' = TRUE

SizesNext == MMAllocEx \/ Write \/ MMSize \/ MMFree \/ MMStrcatv \/ MMPrint
-----------------------------------------------------------------------------
(* Properties *)

\* A block holds what was asked for, and what its caller relies on is there after
\* any sequence of resizing, in place, to another pool or to a huge block
\* (slab.c:1693-1750, 1761-1838).
BlockSound ==
  block # NoBlock =>
    /\ block.size <= Len(block.data)
    /\ text <= block.size
    /\ \A k \in 1..text : block.data[k] = "text"
    /\ clean => \A k \in (text + 1)..block.size : block.data[k] = "zero"
    /\ string => text < block.size /\ block.data[text + 1] = "zero"

\* The search finds the smallest pool that can serve a size (slab.c:1693-1703).
PoolFits ==
  \A n \in 0..MaxSize : PoolFor(n) = Min({i \in Pools : n <= Sizes[i]} \cup {Huge})
=============================================================================
