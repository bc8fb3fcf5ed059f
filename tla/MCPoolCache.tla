---------------------------- MODULE MCPoolCache ----------------------------
(***************************************************************************)
(* PoolCache for TLC: two admin requests against two rebuilding proxy      *)
(* requests.                                                               *)
(***************************************************************************)
EXTENDS PoolCache, TLC

\* Safety runs only: the members of each set are interchangeable.
Symmetry == Permutations(Admin) \cup Permutations(Client)
            \cup Permutations(Content \ {NoOutbounds})

=============================================================================
