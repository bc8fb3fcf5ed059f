----------------------------- MODULE MCUserKeys -----------------------------
(***************************************************************************)
(* UserKeys for TLC.  A second has two ticks, so that SETEX's whole        *)
(* seconds truncate; the clock runs past every date and past one Day.      *)
(***************************************************************************)
EXTENDS UserKeys, TLC

Symmetry == Permutations(Token) \cup Permutations(Admin)

=============================================================================
