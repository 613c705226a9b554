-------------------------- MODULE MCCircuitBreaker --------------------------
(***************************************************************************)
(* TLC instances of CircuitBreaker: the runs give every constant a small   *)
(* value in their cfg.  The TTLs do not invert the order they have in the  *)
(* code: lock (7 s), cooldown (30 s), count (60 s), state (300 s).         *)
(***************************************************************************)
EXTENDS CircuitBreaker, TLC

Symmetry == Permutations(Requests)
=============================================================================
