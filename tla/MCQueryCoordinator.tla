------------------------- MODULE MCQueryCoordinator -------------------------
(* Small instances of QueryCoordinator for TLC. *)
EXTENDS QueryRefinement, TLC

CONSTANTS c1, c2, s1, a, b

ClientSymmetry == Permutations(Clients)
=============================================================================
