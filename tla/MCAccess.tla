------------------------------ MODULE MCAccess ------------------------------
(* Two requests of one user, two roles.                                    *)
EXTENDS Access, TLC

CONSTANTS q1, q2, admin, readonly

RequestsMC == {q1, q2}
RolesMC == {admin, readonly}
=============================================================================
