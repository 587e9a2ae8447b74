---------------------------- MODULE MCQueryCache ----------------------------
(***************************************************************************)
(* Instances of QueryCache for TLC.                                        *)
(***************************************************************************)
EXTENDS QueryCache, TLC

CONSTANTS e1, e2, r1, r2, r3

Symmetry == Permutations(Envs) \cup Permutations(Requests)
=============================================================================
