-------------------------------- MODULE Lists --------------------------------
(***************************************************************************)
(* The linked lists of the library: a member is looked for from the first  *)
(* one, and unlinked where it is found.                                    *)
(***************************************************************************)
EXTENDS Integers, SequencesExt

\* A list without its member x, if it has it; no member is there twice.
Without(list, x) ==
  IF \E k \in DOMAIN list : list[k] = x
  THEN RemoveAt(list, CHOOSE k \in DOMAIN list : list[k] = x)
  ELSE list

\* The places of a list that are kept, in the order of the list.
InOrder(places) ==
  {at \in Bijection(1..Cardinality(places), places) :
     \A i, j \in DOMAIN at : i < j => at[i] < at[j]}
=============================================================================
