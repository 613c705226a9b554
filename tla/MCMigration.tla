---------------------------- MODULE MCMigration ----------------------------
(* Two handlers whose rotations do not overlap, their jobs, and a client.  *)
EXTENDS Migration, TLC

CONSTANTS a, b, c1, x1

Symmetry == Permutations({a, b})
=============================================================================
