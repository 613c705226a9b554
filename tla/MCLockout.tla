----------------------------- MODULE MCLockout -----------------------------
(* Two logins at a time from two addresses against one username.          *)
EXTENDS Lockout, TLC

CONSTANTS l1, l2, a1, a2

LoginsMC == {l1, l2}
AddressesMC == {a1, a2}
=============================================================================
