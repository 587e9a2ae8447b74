----------------------------- MODULE MCIgnition -----------------------------
(***************************************************************************)
(* Instances of Ignition for TLC: two namespaces that share two names, and *)
(* one that may lose its name.                                             *)
(***************************************************************************)
EXTENDS Ignition, TLC

CONSTANTS n1, n2, a, b

None == [x \in {} |-> Empty]

Environment(n, ns) ==
  [Name |-> n, CreatedAt |-> 1, Namespace |-> ns, URL |-> None,
   StatusChecks |-> None, MetaProbes |-> None]

AllEnvironments == {Environment(n, ns) : n \in {a, b, Empty}, ns \in {n1, n2}}

Symmetry == Permutations(Triggers)
=============================================================================
