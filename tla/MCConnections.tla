---------------------------- MODULE MCConnections ----------------------------
(* Two requests at a time on a connection with two columns.                *)
EXTENDS Connections, TLC

CONSTANTS r1, r2, c1, c2

RequestsMC == {r1, r2}
ColumnsMC == {c1, c2}
=============================================================================
