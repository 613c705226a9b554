---------------------------- MODULE MCWhitelist ----------------------------
(* Three queries, two administrators, a copy of two ticks.                 *)
EXTENDS Whitelist

CONSTANTS r1, r2, r3, a1, a2
=============================================================================
