--------------------------- MODULE MCKeyRotation ---------------------------
(***************************************************************************)
(* KeyRotation with two rotations at a time.  One at a time, with the jobs *)
(* that follow, is MCMigration.                                            *)
(***************************************************************************)
EXTENDS KeyRotation, TLC

CONSTANTS a, b, c1, x1

Symmetry == Permutations(Rotators)
=============================================================================
