---------------------------- MODULE KeyRotation ----------------------------
(***************************************************************************)
(* The data encryption keys of one registered connection: rotate_key       *)
(* (src/gateway/routers/v1/connections.py), the DEK cache of the process   *)
(* (src/gateway/middleware/security/key_manager.py), and the queries that  *)
(* load the connection, its key history and its rows                       *)
(* (src/gateway/routers/v1/query.py) through QueryEncryptor.               *)
(*                                                                         *)
(* A DEK is a number, in the order they are drawn: the master key does not *)
(* change, so wrapping and unwrapping one returns it.  Decrypting under    *)
(* another DEK does not fail, it returns the ciphertext.  An action is what*)
(* runs between two awaits that can suspend: get_dek and rotate_dek are    *)
(* async but never do.                                                     *)
(***************************************************************************)
EXTENDS Naturals

CONSTANTS
    Rotators,     \* POST rotate-key requests that may be in flight at once
    Clients,      \* queries that may be in flight at once
    Rows,         \* encrypted values of the external database
    MaxVersion,   \* bound: key versions
    MaxDeks       \* bound: DEKs drawn, those of rotations that fail included

ASSUME KeyConstants == MaxVersion \in Nat \ {0} /\ MaxDeks \in Nat \ {0}

Versions == 1..MaxVersion
Deks == 1..MaxDeks
None == 0

VARIABLES
    conn,      \* the user_databases row: key_version, encrypted_dek, conn_str_enc
    history,   \* the dek_history rows
    dekCache,  \* dekCache[v]: the DEK the process holds for version v
    drawn,     \* DEKs drawn so far
    rows,      \* rows[x]: the DEK and key_id of the envelope stored in x
    rotator,   \* what each rotation in flight holds
    client,    \* what each query in flight holds
    cached     \* cached[x]: what the result cache holds of a SELECT of x

vars == <<conn, history, dekCache, drawn, rows, rotator, client, cached>>

\* A connection string wrapped by one DEK inside another: no DEK opens it.
Garbled == None

IdleRotator == [pc |-> "idle", version |-> None, dek |-> None, str |-> None, new |-> None]
IdleClient  == [pc |-> "idle", version |-> None, dek |-> None, str |-> None, past |-> {}]

\* A value stored before its column was encrypted: _unpack finds no envelope.
Plain == [key |-> None, version |-> None]

\* get_dek: the cache first, the wrapped DEK of the row otherwise.
GetDek(v, dek) == IF dekCache[v] # None THEN dekCache[v] ELSE dek

-----------------------------------------------------------------------------
(* rotate_key *)

\* SELECT of the connection row: no lock is taken on it.
RotateLoad(a) ==
    /\ rotator[a].pc = "idle"
    /\ rotator' = [rotator EXCEPT ![a] =
                      [pc |-> "loaded", version |-> conn.version, dek |-> conn.dek,
                       str |-> conn.str, new |-> None]]
    /\ UNCHANGED <<conn, history, dekCache, drawn, rows, client, cached>>

\* Mutant: the new DEK takes the cache slot of the old version.
RotateKeys_WrongSlot(a) ==
    /\ rotator[a].pc = "loaded"
    /\ rotator[a].version < MaxVersion
    /\ drawn < MaxDeks
    /\ LET new == drawn + 1 IN
        /\ drawn' = new
        /\ dekCache' = [dekCache EXCEPT ![rotator[a].version] = new]
        /\ rotator' = [rotator EXCEPT ![a].pc = "rewrapped", ![a].str = new, ![a].new = new]
    /\ UNCHANGED <<conn, history, rows, client, cached>>

\* get_dek of the old version, rotate_dek, and the connection string rewrapped.
\* rotate_dek caches the new DEK before anything is committed.
RotateKeys(a) ==
    /\ rotator[a].pc = "loaded"
    /\ rotator[a].version < MaxVersion
    /\ drawn < MaxDeks
    /\ LET v == rotator[a].version
           old == GetDek(v, rotator[a].dek)
           new == drawn + 1
       IN
        /\ drawn' = new
        /\ dekCache' = [dekCache EXCEPT ![v] = old, ![v + 1] = new]
        /\ rotator' = [rotator EXCEPT ![a] =
                          [pc |-> "rewrapped", version |-> v, dek |-> @.dek,
                           str |-> IF @.str = old THEN new ELSE Garbled, new |-> new]]
    /\ UNCHANGED <<conn, history, rows, client, cached>>

\* Mutant: the wrapped DEK is left out of the connection row.
RotateCommit_NoDek(a) ==
    /\ rotator[a].pc = "rewrapped"
    /\ history' = history \union {[version |-> rotator[a].version, dek |-> rotator[a].dek]}
    /\ conn' = [version |-> rotator[a].version + 1, dek |-> None, str |-> rotator[a].str]
    /\ rotator' = [rotator EXCEPT ![a] = IdleRotator]
    /\ UNCHANGED <<dekCache, drawn, rows, client, cached>>

\* One transaction: the history entry, and the row overwritten whatever it holds.
RotateCommit(a) ==
    /\ rotator[a].pc = "rewrapped"
    /\ history' = history \union {[version |-> rotator[a].version, dek |-> rotator[a].dek]}
    /\ conn' = [version |-> rotator[a].version + 1, dek |-> rotator[a].new, str |-> rotator[a].str]
    /\ rotator' = [rotator EXCEPT ![a] = IdleRotator]
    /\ UNCHANGED <<dekCache, drawn, rows, client, cached>>

\* The database fails: nothing is committed, the cache keeps the new DEK.
RotateFails(a) ==
    /\ rotator[a].pc # "idle"
    /\ rotator' = [rotator EXCEPT ![a] = IdleRotator]
    /\ UNCHANGED <<conn, history, dekCache, drawn, rows, client, cached>>

-----------------------------------------------------------------------------
(* A query on the connection *)

\* get_user_database
Load(c) ==
    /\ client[c].pc = "idle"
    /\ client' = [client EXCEPT ![c] =
                     [pc |-> "loaded", version |-> conn.version, dek |-> conn.dek,
                      str |-> conn.str, past |-> {}]]
    /\ UNCHANGED <<conn, history, dekCache, drawn, rows, rotator, cached>>

\* get_dek, and the connection string decrypted and used: under the wrong DEK it
\* is no address and the query ends (400).
Unlock(c) ==
    /\ client[c].pc = "loaded"
    /\ LET v == client[c].version
           key == GetDek(v, client[c].dek)
       IN
        /\ dekCache' = [dekCache EXCEPT ![v] = key]
        /\ client' = [client EXCEPT ![c] =
                         IF @.str = key
                           THEN [pc |-> "open", version |-> v, dek |-> key, str |-> key, past |-> {}]
                           ELSE IdleClient]
    /\ UNCHANGED <<conn, history, drawn, rows, rotator, cached>>

\* Mutant: QueryEncryptor is built without the historic keys.
LoadHistory_None(c) ==
    /\ client[c].pc = "open"
    /\ client' = [client EXCEPT ![c].pc = "ready"]
    /\ UNCHANGED <<conn, history, dekCache, drawn, rows, rotator, cached>>

\* The dek_history rows, each through get_dek, so that the cache wins over the row.
\* Where rows disagree about a version, the order of the result decides.
LoadHistory(c) ==
    /\ client[c].pc = "open"
    /\ \E pick \in [{h.version : h \in history} -> {h.dek : h \in history}] :
        /\ \A v \in DOMAIN pick : [version |-> v, dek |-> pick[v]] \in history
        /\ dekCache' = [v \in Versions |->
                IF v \in DOMAIN pick THEN GetDek(v, pick[v]) ELSE dekCache[v]]
        /\ client' = [client EXCEPT ![c] =
                [pc |-> "ready", version |-> @.version, dek |-> @.dek, str |-> @.str,
                 past |-> {[version |-> v, dek |-> GetDek(v, pick[v])] : v \in DOMAIN pick}]]
    /\ UNCHANGED <<conn, history, drawn, rows, rotator, cached>>

\* An INSERT or UPDATE seals the value with the DEK and version it loaded.
WriteRow(c, x) ==
    /\ client[c].pc = "ready"
    /\ rows' = [rows EXCEPT ![x] = [key |-> client[c].dek, version |-> client[c].version]]
    /\ client' = [client EXCEPT ![c] = IdleClient]
    /\ UNCHANGED <<conn, history, dekCache, drawn, rotator, cached>>

\* _aes_decrypt: the historic DEK of the envelope's key_id, else the current one.
Opens(c, x) ==
    \/ rows[x] = Plain
    \/ IF \E h \in client[c].past : h.version = rows[x].version
         THEN [version |-> rows[x].version, dek |-> rows[x].key] \in client[c].past
         ELSE client[c].dek = rows[x].key

\* A SELECT answers the client and writes the result to the cache, decrypted or not:
\* what it leaves there is what tells its step from one of Abandon.
ReadRow(c, x) ==
    /\ client[c].pc = "ready"
    /\ cached' = [cached EXCEPT ![x] = IF Opens(c, x) THEN "plain" ELSE "sealed"]
    /\ client' = [client EXCEPT ![c] = IdleClient]
    /\ UNCHANGED <<conn, history, dekCache, drawn, rows, rotator>>

\* The entry expires, or an invalidation deletes it.
ResultExpires(x) ==
    /\ cached[x] # "none"
    /\ cached' = [cached EXCEPT ![x] = "none"]
    /\ UNCHANGED <<conn, history, dekCache, drawn, rows, rotator, client>>

\* The pipeline refuses the query or finds its result in the cache, or it fails.
Abandon(c) ==
    /\ client[c].pc # "idle"
    /\ client' = [client EXCEPT ![c] = IdleClient]
    /\ UNCHANGED <<conn, history, dekCache, drawn, rows, rotator, cached>>

-----------------------------------------------------------------------------
(* The process *)

\* A cached DEK reaches its 300 s, or is evicted by the 128th other one.
DekExpires(v) ==
    /\ dekCache[v] # None
    /\ dekCache' = [dekCache EXCEPT ![v] = None]
    /\ UNCHANGED <<conn, history, drawn, rows, rotator, client, cached>>

Crash ==
    /\ dekCache' = [v \in Versions |-> None]
    /\ rotator' = [a \in Rotators |-> IdleRotator]
    /\ client' = [c \in Clients |-> IdleClient]
    /\ UNCHANGED <<conn, history, drawn, rows, cached>>

Init ==
    /\ conn = [version |-> 1, dek |-> 1, str |-> 1]
    /\ history = {}
    /\ dekCache = [v \in Versions |-> None]
    /\ drawn = 1
    /\ rows = [x \in Rows |-> Plain]
    /\ rotator = [a \in Rotators |-> IdleRotator]
    /\ client = [c \in Clients |-> IdleClient]
    /\ cached = [x \in Rows |-> "none"]

Rotate(a) == RotateLoad(a) \/ RotateKeys(a) \/ RotateCommit(a) \/ RotateFails(a)

Query(c) ==
    \/ Load(c) \/ Unlock(c) \/ LoadHistory(c) \/ Abandon(c)
    \/ \E x \in Rows : WriteRow(c, x) \/ ReadRow(c, x)

Next ==
    \/ \E a \in Rotators : Rotate(a)
    \/ \E c \in Clients : Query(c)
    \/ \E v \in Versions : DekExpires(v)
    \/ \E x \in Rows : ResultExpires(x)
    \/ Crash

Spec == Init /\ [][Next]_vars

-----------------------------------------------------------------------------
(* Properties *)

Keys == [version : Versions, dek : Deks]

Rotations ==
    {IdleRotator}
    \union [pc : {"loaded"}, version : Versions, dek : Deks,
            str : Deks \union {Garbled}, new : {None}]
    \union [pc : {"rewrapped"}, version : 1..(MaxVersion - 1), dek : Deks,
            str : Deks \union {Garbled}, new : Deks]

Queries ==
    {IdleClient}
    \union [pc : {"loaded", "open", "ready"}, version : Versions, dek : Deks,
            str : Deks \union {Garbled}, past : SUBSET Keys]

TypeOK ==
    /\ conn \in [version : Versions, dek : Deks, str : Deks \union {Garbled}]
    /\ history \subseteq Keys
    /\ dekCache \in [Versions -> Deks \union {None}]
    /\ drawn \in Deks
    /\ rows \in [Rows -> {Plain} \union [key : Deks, version : Versions]]
    /\ rotator \in [Rotators -> Rotations]
    /\ client \in [Clients -> Queries]
    /\ cached \in [Rows -> {"none", "plain", "sealed"}]

\* At most one rotation of the connection is in flight.  Nothing in the code says
\* so: rotate_key takes no lock.
NoOverlap ==
    \A a, b \in Rotators : rotator[a].pc # "idle" /\ rotator[b].pc # "idle" => a = b

\* The database holds DEK d as version v, in the connection row or its history.
Known(v, d) ==
    \/ v = conn.version /\ d = conn.dek
    \/ [version |-> v, dek |-> d] \in history

\* The DEK that sealed a value is known by the envelope's key_id.
Recoverable(x) == rows[x] = Plain \/ Known(rows[x].version, rows[x].key)

\* connections.py, rotate_key: "existing encrypted data stays accessible at the old
\* key version" - whatever the queries in flight while the key is rotated, no value
\* is ever sealed under a DEK that the database has lost.
RowsRecoverable == \A x \in Rows : Recoverable(x)

\* "Live key rotation with zero downtime": the DEK a query gets, from a cache that
\* is filled before the rotation commits, opens the connection string it loaded.
ConnectionsOpen ==
    \A c \in Clients : client[c].pc = "loaded" =>
        client[c].str = GetDek(client[c].version, client[c].dek)

\* A SELECT returns (and caches) ciphertext only when the connection was rotated,
\* and the value written, after the SELECT loaded its keys.
OnlyOvertakenReadsStaySealed ==
    [][\A c \in Clients, x \in Rows :
          ReadRow(c, x) /\ ~Opens(c, x) => rows[x].version > client[c].version]_vars
=============================================================================
