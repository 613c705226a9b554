---------------------------- MODULE MCAssistant ----------------------------
(* Two requests in flight, limits of two a minute, two attempts.           *)
EXTENDS Assistant, TLC

CONSTANTS r1, r2

LimitMC == [ai |-> 2, user |-> 2]

Symmetry == Permutations(Requests)
=============================================================================
