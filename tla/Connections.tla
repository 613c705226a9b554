----------------------------- MODULE Connections -----------------------------
(***************************************************************************)
(* One registered external database: its row, the security settings of its *)
(* columns and the copy of its schema in Redis.  The handlers of           *)
(* src/gateway/routers/v1/connections.py that create, deactivate, restore  *)
(* and delete it, add and remove a setting, fetch the schema and scan it.  *)
(*                                                                         *)
(* A change commits to the database and then deletes the copy; a fetch     *)
(* reads the row, asks the target database, reads the settings and stores  *)
(* the copy.  Each of these is a step of its own here, because any other   *)
(* request can run between them.  Ownership is settled before the first    *)
(* step and never changes.  Key rotation and the use of the connection     *)
(* string are module KeyRotation; the results cached for the connection    *)
(* are module QueryCache.  A handler that loads a row and deletes or       *)
(* updates it by its id does so in one transaction, and in one step here,  *)
(* at its commit; so do the INSERTs of one scan.                           *)
(***************************************************************************)
EXTENDS Naturals

CONSTANTS
    Requests,   \* requests to the endpoints of the connection, one at a time
    Columns,    \* columns of the target database
    SchemaTTL,  \* lifetime of the copy (300 s)
    None

ASSUME ConnectionsConstantsOK == SchemaTTL \in Nat \ {0}

\* is_encrypted of a ColumnSecurity row, or no row
Settings == {"none", "plain", "encrypted"}

VARIABLES
    conn,    \* the row of the connection
    config,  \* its ColumnSecurity rows
    copy,    \* schema:<id> in Redis, or None
    pc,      \* where each request is
    view,    \* the settings a fetch has read
    stale,   \* history: a change committed since the fetch read
    cand,    \* the columns an add or a scan wants to set
    want,    \* the setting it wants for them
    mine     \* rows a scan has inserted and not yet committed

rows == <<conn, config>>
local == <<pc, view, stale, cand, want, mine>>
vars == <<rows, copy, local>>

Exists == conn \in {"active", "inactive"}

Labels == {"idle", "target", "configs", "store", "insert", "columns",
           "upsert", "commit", "purge"}

Copies == [view : [Columns -> Settings], ttl : 1..SchemaTTL,
           late : BOOLEAN, missed : BOOLEAN]

NoSettings == [c \in Columns |-> "none"]

Goto(r, label) == pc' = [pc EXCEPT ![r] = label]

\* The handler answers; its locals are gone, its open transaction is undone.
Answer(r) ==
    /\ Goto(r, "idle")
    /\ view' = [view EXCEPT ![r] = None]
    /\ stale' = [stale EXCEPT ![r] = FALSE]
    /\ cand' = [cand EXCEPT ![r] = {}]
    /\ want' = [want EXCEPT ![r] = "none"]
    /\ mine' = [mine EXCEPT ![r] = {}]

\* Columns whose insertion waits for the transaction of another request
Locked(r) == UNION {mine[q] : q \in Requests \ {r}}

\* A commit made by r outdates what fetches at the given places have read.
\* The handler of r goes on to label.
Outdates(r, places, label) ==
    /\ stale' = [q \in Requests |-> stale[q] \/ pc[q] \in places]
    /\ Goto(r, label)
    /\ cand' = [cand EXCEPT ![r] = {}]
    /\ want' = [want EXCEPT ![r] = "none"]
    /\ mine' = [mine EXCEPT ![r] = {}]
    /\ UNCHANGED <<copy, view>>

Fetching == {"target", "configs", "store"}

-----------------------------------------------------------------------------
(* Changes of the connection *)

\* register_connection, after the test of the connection string
Register ==
    /\ conn = "none"
    /\ conn' = "active"
    /\ UNCHANGED <<config, copy, local>>

\* delete_connection deactivates, also what is inactive already.
Deactivate(r) ==
    /\ pc[r] = "idle"
    /\ Exists
    /\ conn' = "inactive"
    /\ Outdates(r, Fetching, "purge")
    /\ config' = config

\* restore_connection leaves the copy alone.
Restore(r) ==
    /\ pc[r] = "idle"
    /\ conn = "inactive"
    /\ conn' = "active"
    /\ UNCHANGED <<config, copy, local>>

\* Mutant: the settings stay behind, as without the cascade.
HardDeleteRowOnly(r) ==
    /\ pc[r] = "idle"
    /\ Exists
    /\ \A q \in Requests : mine[q] = {}
    /\ conn' = "gone"
    /\ Outdates(r, Fetching, "purge")
    /\ config' = config

\* hard_delete_connection; the settings go with the row (cascade), and the
\* foreign key makes it wait for uncommitted rows of a scan.
HardDelete(r) ==
    /\ pc[r] = "idle"
    /\ Exists
    /\ \A q \in Requests : mine[q] = {}
    /\ conn' = "gone"
    /\ config' = NoSettings
    /\ Outdates(r, Fetching, "purge")

-----------------------------------------------------------------------------
(* Settings of a column *)

\* add_column_encryption finds no setting of the column (409 otherwise) ...
AddCheck(r, c, s) ==
    /\ pc[r] = "idle"
    /\ Exists
    /\ config[c] = "none"
    /\ Goto(r, "insert")
    /\ cand' = [cand EXCEPT ![r] = {c}]
    /\ want' = [want EXCEPT ![r] = s]
    /\ UNCHANGED <<rows, copy, view, stale, mine>>

\* ... and commits one, unless the foreign key or the unique constraint
\* fails it (500).
AddCommit(r) ==
    /\ pc[r] = "insert"
    /\ cand[r] \cap Locked(r) = {}
    /\ IF Exists /\ \A c \in cand[r] : config[c] = "none"
         THEN /\ config' = [c \in Columns |->
                               IF c \in cand[r] THEN want[r] ELSE config[c]]
              /\ Outdates(r, {"store"}, "purge")
         ELSE Answer(r) /\ UNCHANGED <<config, copy>>
    /\ conn' = conn

\* Mutant: the copy is not deleted.
RemoveQuietly(r, c) ==
    /\ pc[r] = "idle"
    /\ config[c] # "none"
    /\ config' = [config EXCEPT ![c] = "none"]
    /\ Outdates(r, {"store"}, "idle")
    /\ conn' = conn

\* remove_column_encryption
Remove(r, c) ==
    /\ pc[r] = "idle"
    /\ config[c] # "none"
    /\ config' = [config EXCEPT ![c] = "none"]
    /\ Outdates(r, {"store"}, "purge")
    /\ conn' = conn

\* DEL schema:<id> after a change, a scan or a deletion
Purge(r) ==
    /\ pc[r] = "purge"
    /\ copy' = None
    /\ Answer(r)
    /\ UNCHANGED rows

-----------------------------------------------------------------------------
(* get_connection_schema *)

\* The copy is absent or Redis fails; the row is active.
FetchStart(r) ==
    /\ pc[r] = "idle"
    /\ conn = "active"
    /\ Goto(r, "target")
    /\ UNCHANGED <<rows, copy, view, stale, cand, want, mine>>

\* The target database answers with its columns.
FetchTarget(r) ==
    /\ pc[r] = "target"
    /\ Goto(r, "configs")
    /\ UNCHANGED <<rows, copy, view, stale, cand, want, mine>>

FetchConfigs(r) ==
    /\ pc[r] = "configs"
    /\ view' = [view EXCEPT ![r] = config]
    /\ Goto(r, "store")
    /\ UNCHANGED <<rows, copy, stale, cand, want, mine>>

\* Mutant: the copy is stored with SET and has no lifetime.
FetchStoreForever(r) ==
    /\ pc[r] = "store"
    /\ copy' = [view |-> view[r], ttl |-> 0,
                late |-> stale[r], missed |-> FALSE]
    /\ Answer(r)
    /\ UNCHANGED rows

\* SETEX; an error of Redis is ignored: that is Break.
FetchStore(r) ==
    /\ pc[r] = "store"
    /\ copy' = [view |-> view[r], ttl |-> SchemaTTL,
                late |-> stale[r], missed |-> FALSE]
    /\ Answer(r)
    /\ UNCHANGED rows

-----------------------------------------------------------------------------
(* scan_connection_for_pii *)

ScanStart(r) ==
    /\ pc[r] = "idle"
    /\ conn = "active"
    /\ Goto(r, "columns")
    /\ UNCHANGED <<rows, copy, view, stale, cand, want, mine>>

\* scan_columns reports columns by pattern, dictionary or model: any of them.
Findings == SUBSET Columns

\* The columns, from the copy or from the target, pass the scanner.  Without
\* auto_apply, or when nothing is found, the scan ends here.
ScanColumns(r, found) ==
    /\ pc[r] = "columns"
    /\ IF found = {}
         THEN Answer(r)
         ELSE /\ Goto(r, "upsert")
              /\ cand' = [cand EXCEPT ![r] = found]
              /\ want' = [want EXCEPT ![r] = "plain"]
              /\ UNCHANGED <<view, stale, mine>>
    /\ UNCHANGED <<rows, copy>>

\* Mutant: the conflict clause updates the row.
UpsertOverwrites(r) ==
    /\ pc[r] = "upsert"
    /\ cand[r] \cap Locked(r) = {}
    /\ IF Exists
         THEN /\ mine' = [mine EXCEPT ![r] = cand[r]]
              /\ Goto(r, "commit")
              /\ UNCHANGED <<view, stale, cand, want>>
         ELSE Answer(r)
    /\ UNCHANGED <<rows, copy>>

\* INSERT ... ON CONFLICT DO NOTHING for every column found, one await each in a
\* transaction that nobody reads before its commit; the foreign key fails it when
\* the connection is gone.
Upsert(r) ==
    /\ pc[r] = "upsert"
    /\ cand[r] \cap Locked(r) = {}
    /\ IF Exists
         THEN /\ mine' = [mine EXCEPT ![r] = {c \in cand[r] : config[c] = "none"}]
              /\ Goto(r, "commit")
              /\ UNCHANGED <<view, stale, cand, want>>
         ELSE Answer(r)
    /\ UNCHANGED <<rows, copy>>

ScanCommit(r) ==
    /\ pc[r] = "commit"
    /\ config' = [c \in Columns |->
                     IF c \in mine[r] THEN want[r] ELSE config[c]]
    /\ Outdates(r, IF mine[r] = {} THEN {} ELSE {"store"}, "purge")
    /\ conn' = conn

\* The error of the commit is logged and the scan goes on: it reports the
\* rows of mine as applied.
ScanCommitFails(r) ==
    /\ pc[r] = "commit"
    /\ Outdates(r, {}, "purge")
    /\ UNCHANGED rows

-----------------------------------------------------------------------------

Step(r) ==
    \/ AddCommit(r)
    \/ Purge(r)
    \/ FetchTarget(r)
    \/ FetchConfigs(r)
    \/ FetchStore(r)
    \/ \E found \in Findings : ScanColumns(r, found)
    \/ Upsert(r)
    \/ ScanCommit(r)
    \/ ScanCommitFails(r)

\* A command fails or the gateway stops; a DEL that was owed is lost.
Break(r) ==
    /\ pc[r] # "idle"
    /\ copy' = IF pc[r] = "purge" /\ copy # None
                 THEN [copy EXCEPT !.missed = TRUE] ELSE copy
    /\ Answer(r)
    /\ UNCHANGED rows

\* A copy with a lifetime grows older.
Tick ==
    /\ copy # None
    /\ copy.ttl > 0
    /\ copy' = IF copy.ttl = 1 THEN None ELSE [copy EXCEPT !.ttl = @ - 1]
    /\ UNCHANGED <<rows, local>>

Init ==
    /\ conn = "none"
    /\ config = NoSettings
    /\ copy = None
    /\ pc = [r \in Requests |-> "idle"]
    /\ view = [r \in Requests |-> None]
    /\ stale = [r \in Requests |-> FALSE]
    /\ cand = [r \in Requests |-> {}]
    /\ want = [r \in Requests |-> "none"]
    /\ mine = [r \in Requests |-> {}]

Next ==
    \/ Register
    \/ \E r \in Requests :
          \/ Deactivate(r)
          \/ Restore(r)
          \/ HardDelete(r)
          \/ \E c \in Columns :
                \/ \E s \in {"plain", "encrypted"} : AddCheck(r, c, s)
                \/ Remove(r, c)
          \/ FetchStart(r)
          \/ ScanStart(r)
          \/ Step(r)
          \/ Break(r)
    \/ Tick

\* Time passes and a request that has begun goes on.
Fairness ==
    /\ WF_vars(Tick)
    /\ \A r \in Requests : WF_vars(Step(r))

Spec == Init /\ [][Next]_vars /\ Fairness

-----------------------------------------------------------------------------
(* Properties *)

TypeOK ==
    /\ conn \in {"none", "active", "inactive", "gone"}
    /\ config \in [Columns -> Settings]
    /\ copy \in Copies \cup {None}
    /\ pc \in [Requests -> Labels]
    /\ view \in [Requests -> [Columns -> Settings] \cup {None}]
    /\ stale \in [Requests -> BOOLEAN]
    /\ cand \in [Requests -> SUBSET Columns]
    /\ want \in [Requests -> Settings]
    /\ mine \in [Requests -> SUBSET Columns]
    /\ \A r \in Requests : pc[r] = "store" => view[r] \in [Columns -> Settings]

\* The copy is served though the connection is not active, or it shows
\* settings that have changed.
Outdated == copy # None /\ (conn # "active" \/ copy.view # config)

\* A copy is outdated only until the DEL of the change that outdated it, or
\* because that DEL was lost, or because a fetch that had read before the
\* change stored it after the DEL: every other order of fetches, scans and
\* changes leaves no outdated copy (the DELs at connections.py:339, 475, 533,
\* 846 and 999).
OutdatedHasACause ==
    Outdated => copy.late \/ copy.missed \/ \E r \in Requests : pc[r] = "purge"

\* A setting is never overwritten: neither a scan that found the column
\* before its owner set it nor a second add changes it, it can only be
\* removed.  In particular no scan turns encryption off.
SettingsAreNotOverwritten ==
    [][\A c \in Columns :
          config[c] # "none" => config'[c] \in {config[c], "none"}]_vars

\* An add or a scan that races with the deletion of the connection leaves no
\* setting behind.
NoSettingsWithoutConnection == ~Exists => config = NoSettings

\* When connection and settings stop changing, the copy agrees with them
\* from some time on, whatever raced or failed before.
SchemaHeals == []<><<TRUE>>_rows \/ <>[]~Outdated

=============================================================================
