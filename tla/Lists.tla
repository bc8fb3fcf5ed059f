-------------------------------- MODULE Lists --------------------------------
(***************************************************************************)
(* Python's list comprehension with a condition, as several functions of   *)
(* the service use it.  It is what SelectSeq computes, in a form that the  *)
(* proofs can look into.                                                   *)
(***************************************************************************)
EXTENDS Integers, SequencesExt

\* The elements of a list at some of its places, in order.
Where(list, places) ==
    FlattenSeq([i \in DOMAIN list |-> IF i \in places THEN <<list[i]>> ELSE <<>>])

=============================================================================
