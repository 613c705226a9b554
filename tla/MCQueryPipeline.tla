-------------------------- MODULE MCQueryPipeline --------------------------
(* Instances of QueryPipeline for TLC. *)
EXTENDS QueryPipeline, TLC

CONSTANTS r1, r2, u1, admin

MCCosts == {0, 2, 3}

Kind(select, ext, dry) == [select |-> select, ext |-> ext, dry |-> dry]

MCKinds == {Kind(TRUE, FALSE, FALSE), Kind(TRUE, TRUE, TRUE), Kind(FALSE, TRUE, FALSE)}

Symmetry == Permutations(Requests)
=============================================================================
