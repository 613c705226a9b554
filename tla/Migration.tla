----------------------------- MODULE Migration -----------------------------
(***************************************************************************)
(* The re-encryption jobs that follow a key rotation:                      *)
(* src/gateway/workers/migration_worker.py, the end of rotate_key          *)
(* (src/gateway/routers/v1/connections.py) that schedules them, on top of  *)
(* module KeyRotation.                                                     *)
(*                                                                         *)
(* A job is a row that the handler commits and an asyncio task that it     *)
(* then starts; nothing reads the rows of migration_jobs to start a task   *)
(* again.  The worker looks for text that begins with "v1:" or "v2:"; an   *)
(* envelope of QueryEncryptor never does, it is the base64 of a 1 byte, so *)
(* only values stored in the clear can be sealed by it.                    *)
(*                                                                         *)
(* A job is named by the version it migrates from, which names one job as  *)
(* long as rotations do not overlap (NoOverlap).                           *)
(***************************************************************************)
EXTENDS KeyRotation

VARIABLES
    due,     \* due[a]: the rotation that a committed and has to schedule, or None
    job,     \* job[v]: status of the job of old version v
    worker,  \* worker[v]: its task
    lost     \* history: jobs whose task was lost before it wrote an outcome

jobs == <<due, job, worker, lost>>
allVars == <<vars, jobs>>

NoWorker == [pc |-> "none", version |-> None, dek |-> None, str |-> None, todo |-> {}]

Running(v) == worker[v].pc # "none"

Unfinished == {"pending", "in_progress"}

\* The task of v ends and the job is left with the given status.
Ends(v, status) ==
    /\ job' = [job EXCEPT ![v] = status]
    /\ worker' = [worker EXCEPT ![v] = NoWorker]

-----------------------------------------------------------------------------
(* rotate_key *)

\* The steps of KeyRotation other than the commit and a crash.  A handler that has
\* a job to schedule has not returned: it begins no other rotation.
KeyStep ==
    /\ \/ \E a \in Rotators :
             \/ due[a] = None /\ RotateLoad(a)
             \/ RotateKeys(a)
             \/ RotateFails(a)
       \/ \E c \in Clients : Query(c)
       \/ \E v \in Versions : DekExpires(v)
       \/ \E x \in Rows : ResultExpires(x)
    /\ UNCHANGED jobs

\* The rotation is committed before its job is scheduled.
CommitRotation(a) ==
    /\ RotateCommit(a)
    /\ due' = [due EXCEPT ![a] = rotator[a].version]
    /\ UNCHANGED <<job, worker, lost>>

\* trigger_reencryption_job commits the row ...
Trigger(a) ==
    /\ due[a] # None
    /\ job[due[a]] = "none"
    /\ job' = [job EXCEPT ![due[a]] = "pending"]
    /\ UNCHANGED <<vars, due, worker, lost>>

\* Mutant: the task is created only when the job is already being processed.
SpawnForgets(a) ==
    /\ due[a] # None
    /\ job[due[a]] = "pending"
    /\ due' = [due EXCEPT ![a] = None]
    /\ UNCHANGED <<vars, job, worker, lost>>

\* ... and, after the session is closed, creates the task.
Spawn(a) ==
    /\ due[a] # None
    /\ job[due[a]] = "pending"
    /\ worker' = [worker EXCEPT ![due[a]] = [NoWorker EXCEPT !.pc = "queued"]]
    /\ due' = [due EXCEPT ![a] = None]
    /\ UNCHANGED <<vars, job, lost>>

\* The database fails in between: the rotation stands and the answer says so.
TriggerFails(a) ==
    /\ due[a] # None
    /\ lost' = IF job[due[a]] = "pending" THEN lost \union {due[a]} ELSE lost
    /\ due' = [due EXCEPT ![a] = None]
    /\ UNCHANGED <<vars, job, worker>>

-----------------------------------------------------------------------------
(* _process_job *)

Begin(v) ==
    /\ worker[v].pc = "queued"
    /\ job' = [job EXCEPT ![v] = "in_progress"]
    /\ worker' = [worker EXCEPT ![v].pc = "started"]
    /\ UNCHANGED <<vars, due, lost>>

\* The row of the connection, and get_dek of the version it has now
LoadConnection(v) ==
    /\ worker[v].pc = "started"
    /\ LET key == GetDek(conn.version, conn.dek) IN
        /\ dekCache' = [dekCache EXCEPT ![conn.version] = key]
        /\ worker' = [worker EXCEPT ![v] =
              [pc |-> "loaded", version |-> conn.version, dek |-> key,
               str |-> conn.str, todo |-> {}]]
    /\ UNCHANGED <<conn, history, drawn, rows, rotator, client, cached, due, job, lost>>

\* The history entry of the old version, and get_dek of it
LoadOldKey(v) ==
    /\ worker[v].pc = "loaded"
    /\ \E h \in history :
        /\ h.version = v
        /\ dekCache' = [dekCache EXCEPT ![v] = GetDek(v, h.dek)]
    /\ worker' = [worker EXCEPT ![v].pc = "keyed"]
    /\ UNCHANGED <<conn, history, drawn, rows, rotator, client, cached, due, job, lost>>

\* The map of encrypted columns and, over a connection that needs the string
\* opened, a SELECT of them: two awaits, of which the first reads settings that
\* are not state of this module.  legacy: rows in the clear whose text begins like "v1:".
FetchRows(v, legacy) ==
    /\ worker[v].pc = "keyed"
    /\ worker[v].str = worker[v].dek
    /\ \A x \in legacy : rows[x] = Plain
    /\ worker' = [worker EXCEPT ![v].pc = "fetched", ![v].todo = legacy]
    /\ UNCHANGED <<vars, due, job, lost>>

\* Mutant: the envelope names the version the job was created for.
ResealOldVersion(v, x) ==
    /\ worker[v].pc = "fetched"
    /\ x \in worker[v].todo
    /\ rows' = [rows EXCEPT ![x] = [key |-> worker[v].dek, version |-> v]]
    /\ worker' = [worker EXCEPT ![v].todo = @ \ {x}]
    /\ UNCHANGED <<conn, history, dekCache, drawn, rotator, client, cached, due, job, lost>>

\* UPDATE by primary key, whatever the row has become since it was fetched
Reseal(v, x) ==
    /\ worker[v].pc = "fetched"
    /\ x \in worker[v].todo
    /\ rows' = [rows EXCEPT ![x] =
                   [key |-> worker[v].dek, version |-> worker[v].version]]
    /\ worker' = [worker EXCEPT ![v].todo = @ \ {x}]
    /\ UNCHANGED <<conn, history, dekCache, drawn, rotator, client, cached, due, job, lost>>

\* "completed", whatever is still sealed under the old version
Complete(v) ==
    /\ worker[v].pc = "fetched"
    /\ worker[v].todo = {}
    /\ Ends(v, "completed")
    /\ UNCHANGED <<vars, due, lost>>

\* An exception - the history may lack the old version, for one - makes a second
\* session write "failed" ...
Fail(v) ==
    /\ Running(v)
    /\ Ends(v, "failed")
    /\ UNCHANGED <<vars, due, lost>>

\* ... or fails as well.
FailUnrecorded(v) ==
    /\ Running(v)
    /\ Ends(v, job[v])
    /\ lost' = lost \union {v}
    /\ UNCHANGED <<vars, due>>

Work(v) ==
    \/ Begin(v)
    \/ LoadConnection(v)
    \/ LoadOldKey(v)
    \/ \E legacy \in SUBSET Rows : FetchRows(v, legacy)
    \/ \E x \in Rows : Reseal(v, x)
    \/ Complete(v)
    \/ Fail(v)
    \/ FailUnrecorded(v)

-----------------------------------------------------------------------------

\* The gateway stops: the tasks are gone and nothing starts them again.
Stop ==
    /\ Crash
    /\ lost' = lost \union {v \in Versions : job[v] \in Unfinished}
    /\ due' = [a \in Rotators |-> None]
    /\ worker' = [v \in Versions |-> NoWorker]
    /\ job' = job

MigrationInit ==
    /\ Init
    /\ due = [a \in Rotators |-> None]
    /\ job = [v \in Versions |-> "none"]
    /\ worker = [v \in Versions |-> NoWorker]
    /\ lost = {}

MigrationNext ==
    \/ KeyStep
    \/ \E a \in Rotators :
          CommitRotation(a) \/ Trigger(a) \/ Spawn(a) \/ TriggerFails(a)
    \/ \E v \in Versions : Work(v)
    \/ Stop

MigrationSpec == MigrationInit /\ [][MigrationNext]_allVars

-----------------------------------------------------------------------------
(* Properties *)

Workers ==
    [pc : {"none", "queued", "started", "loaded", "keyed", "fetched"},
     version : Versions \union {None}, dek : Deks \union {None},
     str : Deks \union {Garbled}, todo : SUBSET Rows]

JobsTypeOK ==
    /\ due \in [Rotators -> Versions \union {None}]
    /\ job \in [Versions -> Unfinished \union {"none", "completed", "failed"}]
    /\ worker \in [Versions -> Workers]
    /\ lost \subseteq Versions

\* A job that is pending or in progress has a task, or is about to get one,
\* or its task was lost with the process or with the database: there is no
\* other way to leave it so for ever (the commit and create_task at
\* migration_worker.py:30-33, and the handlers of every exception).
UnfinishedJobsHaveWorkers ==
    \A v \in Versions : job[v] \in Unfinished =>
        Running(v) \/ v \in lost \/ \E a \in Rotators : due[a] = v

\* A worker finds the DEK of the old version in the history, and the DEK it
\* got for the current version, from a cache that rotations fill before they
\* commit, opens the connection string it read with it - also when the
\* connection is rotated again before the worker runs.
WorkersHoldTheirKeys ==
    \A v \in Versions :
        /\ Running(v) => \E h \in history : h.version = v
        /\ worker[v].pc \in {"loaded", "keyed", "fetched"} =>
              worker[v].str = worker[v].dek

\* "Live key rotation with zero downtime" (README.md), for all who hold keys of the
\* connection while it is rotated: queries and workers open what they have read.
KeyHoldersWork == ConnectionsOpen /\ WorkersHoldTheirKeys

\* Cached keys, rotations of several commands that may fail, queries and workers
\* that hold keys of the past, crashes: what the database holds behaves as KeyStore
\* as long as rotations do not overlap.
Store == INSTANCE KeyStore WITH
            current <- [version |-> conn.version, dek |-> conn.dek],
            opens   <- conn.str,
            known   <- history \union {[version |-> conn.version, dek |-> conn.dek]},
            rows    <- [x \in Rows |-> [version |-> rows[x].version, dek |-> rows[x].key]]

KeysAreKept == Store!Spec

=============================================================================
