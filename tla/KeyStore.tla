------------------------------ MODULE KeyStore ------------------------------
(***************************************************************************)
(* What the keys of a registered connection promise, whatever the process  *)
(* caches and whoever holds them ("existing encrypted data stays           *)
(* accessible at the old key version", rotate_key of                       *)
(* src/gateway/routers/v1/connections.py): a key that was ever in force    *)
(* stays known, a new one has the next version and a DEK of its own, it    *)
(* opens the connection string from the moment it is in force, and a value *)
(* is sealed with a known key only.  Migration implements it.              *)
(***************************************************************************)
EXTENDS Naturals

CONSTANTS
    Rows,   \* encrypted values of the external database
    Deks    \* DEKs that may be drawn

VARIABLES
    current,  \* the key in force: its version and its DEK
    opens,    \* the DEK that opens the stored connection string
    known,    \* every key the gateway can still get from its database
    rows      \* the key that each value is sealed with, or None

vars == <<current, opens, known, rows>>

None == [version |-> 0, dek |-> 0]

Init ==
    /\ current = [version |-> 1, dek |-> 1]
    /\ opens = current.dek
    /\ known = {current}
    /\ rows = [x \in Rows |-> None]

\* A rotation, in one step.
Rotate(d) ==
    /\ \A k \in known : k.dek # d
    /\ current' = [version |-> current.version + 1, dek |-> d]
    /\ opens' = d
    /\ known' = known \union {current'}
    /\ UNCHANGED rows

\* A query or the migration worker writes a value; its key may be an old one.
Seal(x, k) ==
    /\ rows' = [rows EXCEPT ![x] = k]
    /\ UNCHANGED <<current, opens, known>>

Next ==
    \/ \E d \in Deks : Rotate(d)
    \/ \E x \in Rows, k \in known : Seal(x, k)

Spec == Init /\ [][Next]_vars
=============================================================================
