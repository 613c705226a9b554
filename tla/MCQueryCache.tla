---------------------------- MODULE MCQueryCache ----------------------------
(***************************************************************************)
(* TLC instances of QueryCache.                                            *)
(***************************************************************************)
EXTENDS QueryCache, TLC

CONSTANTS k1, k2, a, b, r1, r2

\* A query over one table and a join, so that sweeps of different tables share
\* an entry.
MCTablesOf == [k \in Keys |-> IF k = k1 THEN {a} ELSE Tables]
Symmetry == Permutations(Readers)
MCWriteSets == {{t} : t \in Tables}
=============================================================================
