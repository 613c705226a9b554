----------------------------- MODULE QueryCache -----------------------------
(***************************************************************************)
(* The result cache of one external connection: check_cache, write_cache,  *)
(* cleanup_stale_tags and invalidate_table_cache of                        *)
(* src/gateway/middleware/performance/cache.py, the purge of a connection  *)
(* in src/gateway/utils/connection_manager.py, and the way execute_query   *)
(* (src/gateway/routers/v1/query.py) strings them together.                *)
(*                                                                         *)
(* A cache key stands for one SELECT of one role; its value is how many    *)
(* writes the database had committed when the rows were read.  Each action *)
(* is one Redis command or pipeline, or one database call: everything else *)
(* can run between two of them.  Writes answer the client before their     *)
(* invalidation, which runs as background tasks that die with the process. *)
(* A SCAN or SSCAN that fits one batch (COUNT 100) returns every member.   *)
(***************************************************************************)
EXTENDS Naturals, FiniteSets

CONSTANTS
    Keys,         \* cache keys of the scope
    Tables,       \* tables of the connection
    TablesOf,     \* TablesOf[k]: tables the SELECT of key k reads
    WriteSets,    \* sets of tables a write statement may name
    Readers,      \* coroutines that run SELECTs
    MaxWrites,    \* bound: writes in a behaviour
    TTL,          \* settings.cache_default_ttl, in ticks
    TagLimit,     \* 1000: a larger tag set is cleaned
    None

ASSUME CacheConstants ==
    /\ TablesOf \in [Keys -> SUBSET Tables]
    /\ WriteSets \subseteq SUBSET Tables
    /\ MaxWrites \in Nat
    /\ TTL \in Nat \ {0}
    /\ TagLimit \in Nat
    /\ None \notin Keys \union Tables

Writes == 1..MaxWrites

VARIABLES
    commits,   \* writes the database has committed
    wtables,   \* wtables[n]: tables of the n-th write
    stage,     \* stage[n]: how far the gateway is with the n-th write
    entry,     \* entry[k]: TTL left (0: no key), when read, when stored
    tag,       \* tag[t]: the set argus:cache_tags:{scope}:{t}
    tagTTL,    \* its TTL, 0 when the set is absent or has no TTL
    reader,    \* what each SELECT in flight is doing
    sweep,     \* sweep[n]: the invalidate_table_cache task of write n
    purge,     \* purge[n]: the invalidate_connection_cache task of write n
    cleanup    \* cleanup[t]: the cleanup_stale_tags task of table t

database == <<commits, wtables, stage>>
tags == <<tag, tagTTL>>
tasks == <<sweep, purge, cleanup>>
vars == <<database, entry, tags, reader, tasks>>

Absent == [ttl |-> 0, readAt |-> 0, setAt |-> 0]

Live == {k \in Keys : entry[k].ttl > 0}

\* Where a coroutine is, and its local variables.
Filling(pc, k, n, left, t)   == [pc |-> pc, key |-> k, readAt |-> n, left |-> left, table |-> t]
Sweeping(pc, left, t, batch) == [pc |-> pc, left |-> left, table |-> t, batch |-> batch]
Purging(pc, batch)           == [pc |-> pc, batch |-> batch]
Cleaning(pc, batch, k)       == [pc |-> pc, batch |-> batch, key |-> k]

IdleReader == Filling("idle", None, 0, {}, None)
NoSweep    == Sweeping("none", {}, None, {})
NoPurge    == Purging("none", {})
NoCleanup  == Cleaning("none", {}, None)

DeleteEntries(ks) == entry' = [k \in Keys |-> IF k \in ks THEN Absent ELSE entry[k]]

-----------------------------------------------------------------------------
(* A SELECT: check_cache, the database, write_cache *)

\* Mutant: a hit renews the TTL of the entry.
Miss_Sliding(r, k) ==
    /\ reader[r].pc = "idle"
    /\ \/ /\ k \in Live
          /\ entry' = [entry EXCEPT ![k].ttl = TTL]
          /\ reader' = reader
       \/ /\ reader' = [reader EXCEPT ![r] = Filling("query", k, 0, {}, None)]
          /\ entry' = entry
    /\ UNCHANGED <<database, tags, tasks>>

\* check_cache finds no key, or its GET fails, which it takes for a miss even when
\* the key is there.  (A hit ends the request: its hit counters and the metadata
\* key are not modelled.)
Miss(r, k) ==
    /\ reader[r].pc = "idle"
    /\ reader' = [reader EXCEPT ![r] = Filling("query", k, 0, {}, None)]
    /\ UNCHANGED <<database, entry, tags, tasks>>

\* The database reads its rows at one point of the sequence of commits.
ReadRows(r) ==
    /\ reader[r].pc = "query"
    /\ reader' = [reader EXCEPT ![r] = Filling("store", @.key, commits, {}, None)]
    /\ UNCHANGED <<database, entry, tags, tasks>>

\* The query failed, or was slow (such a result is not cached), or the reader
\* gives up at a Redis error: write_cache swallows it half way through.
GiveUp(r) ==
    /\ reader[r].pc # "idle"
    /\ reader' = [reader EXCEPT ![r] = IdleReader]
    /\ UNCHANGED <<database, entry, tags, tasks>>

\* SETEX of the rows (and of the metadata), then the loop over the tables.
Store(r) ==
    /\ reader[r].pc = "store"
    /\ LET k == reader[r].key IN
        /\ entry' = [entry EXCEPT ![k] = [ttl    |-> TTL,
                                          readAt |-> reader[r].readAt,
                                          setAt  |-> commits]]
        /\ reader' = [reader EXCEPT ![r] =
                IF TablesOf[k] = {} THEN IdleReader
                ELSE Filling("tag", k, 0, TablesOf[k], None)]
    /\ UNCHANGED <<database, tags, tasks>>

\* SADD tag key.  A new set has no TTL yet.
AddTag(r, t) ==
    /\ reader[r].pc = "tag"
    /\ t \in reader[r].left
    /\ tag' = [tag EXCEPT ![t] = @ \union {reader[r].key}]
    /\ reader' = [reader EXCEPT ![r] = Filling("expire", @.key, 0, @.left \ {t}, t)]
    /\ UNCHANGED <<database, entry, tagTTL, tasks>>

\* The loop over the tables goes on, or write_cache is done.
NextTable(r) ==
    reader' = [reader EXCEPT ![r] = IF @.left = {} THEN IdleReader
                                    ELSE Filling("tag", @.key, 0, @.left, None)]

\* Mutant: the TTL of the tag set is left to whoever created it.
ExpireTag_NoTTL(r) ==
    /\ reader[r].pc = "expire"
    /\ cleanup' = IF Cardinality(tag[reader[r].table]) > TagLimit
                       /\ cleanup[reader[r].table].pc = "none"
                     THEN [cleanup EXCEPT ![reader[r].table] = Cleaning("scan", {}, None)]
                     ELSE cleanup
    /\ NextTable(r)
    /\ UNCHANGED <<database, entry, tags, sweep, purge>>

\* Mutant: the TTL is added to what the tag set has left.
ExpireTag_Adds(r) ==
    /\ reader[r].pc = "expire"
    /\ tag[reader[r].table] # {}
    /\ tagTTL' = [tagTTL EXCEPT ![reader[r].table] = @ + 2 * TTL]
    /\ NextTable(r)
    /\ UNCHANGED <<database, entry, tag, tasks>>

\* EXPIRE tag 2*TTL (nothing happens to a set that has disappeared), then SCARD:
\* a set over the limit starts a cleanup.  Bound: one cleanup of a table at a time.
ExpireTag(r) ==
    /\ reader[r].pc = "expire"
    /\ LET t == reader[r].table IN
        /\ tagTTL' = [tagTTL EXCEPT ![t] = IF tag[t] = {} THEN 0 ELSE 2 * TTL]
        /\ cleanup' = IF Cardinality(tag[t]) > TagLimit /\ cleanup[t].pc = "none"
                        THEN [cleanup EXCEPT ![t] = Cleaning("scan", {}, None)]
                        ELSE cleanup
    /\ NextTable(r)
    /\ UNCHANGED <<database, entry, tag, sweep, purge>>

-----------------------------------------------------------------------------
(* A write *)

\* The database commits; the gateway still awaits the answer.
Commit(T) ==
    /\ commits < MaxWrites
    /\ commits' = commits + 1
    /\ wtables' = [wtables EXCEPT ![commits + 1] = T]
    /\ stage' = [stage EXCEPT ![commits + 1] = "committed"]
    /\ UNCHANGED <<entry, tags, reader, tasks>>

\* Mutant: the connection purge of a write is forgotten.
Answered_NoPurge(n) ==
    /\ stage[n] = "committed"
    /\ wtables[n] # {}
    /\ stage' = [stage EXCEPT ![n] = "answered"]
    /\ sweep' = [sweep EXCEPT ![n] = Sweeping("scan", wtables[n], None, {})]
    /\ UNCHANGED <<commits, wtables, entry, tags, reader, purge, cleanup>>

\* The answer arrives in time: the invalidation tasks are created and the client
\* gets its response without waiting for them.
Answered(n) ==
    /\ stage[n] = "committed"
    /\ wtables[n] # {}
    /\ stage' = [stage EXCEPT ![n] = "answered"]
    /\ sweep' = [sweep EXCEPT ![n] = Sweeping("scan", wtables[n], None, {})]
    /\ purge' = [purge EXCEPT ![n] = Purging("scan", {})]
    /\ UNCHANGED <<commits, wtables, entry, tags, reader, cleanup>>

\* Nothing is invalidated: wait_for gives up on a write the database has committed
\* (504), or no table was found in the statement.
Unswept(n) ==
    /\ stage[n] = "committed"
    /\ stage' = [stage EXCEPT ![n] = "unswept"]
    /\ UNCHANGED <<commits, wtables, entry, tags, reader, tasks>>

-----------------------------------------------------------------------------
(* invalidate_table_cache of write n, one table after the other *)

\* SSCAN tag
SweepScan(n, t) ==
    /\ sweep[n].pc = "scan"
    /\ t \in sweep[n].left
    /\ sweep' = [sweep EXCEPT ![n] = Sweeping("delete", @.left \ {t}, t, tag[t])]
    /\ UNCHANGED <<database, entry, tags, reader, purge, cleanup>>

\* One pipeline deletes the entries of the batch.
SweepDelete(n) ==
    /\ sweep[n].pc = "delete"
    /\ DeleteEntries(sweep[n].batch)
    /\ sweep' = [sweep EXCEPT ![n] = Sweeping("untag", @.left, @.table, {})]
    /\ UNCHANGED <<database, tags, reader, purge, cleanup>>

\* The loop over the tables goes on, or the task is done.
NextSweep(n) ==
    sweep' = [sweep EXCEPT ![n] = IF @.left = {} THEN NoSweep
                                  ELSE Sweeping("scan", @.left, None, {})]

\* DEL tag, with whatever was added to it since the scan.
SweepUntag(n) ==
    /\ sweep[n].pc = "untag"
    /\ tag' = [tag EXCEPT ![sweep[n].table] = {}]
    /\ tagTTL' = [tagTTL EXCEPT ![sweep[n].table] = 0]
    /\ NextSweep(n)
    /\ UNCHANGED <<database, entry, reader, purge, cleanup>>

\* A Redis error: logged, and the loop goes on with the next table.
SweepFails(n) ==
    /\ sweep[n].pc \in {"delete", "untag"}
    /\ NextSweep(n)
    /\ stage' = [stage EXCEPT ![n] = "unswept"]
    /\ UNCHANGED <<commits, wtables, entry, tags, reader, purge, cleanup>>

-----------------------------------------------------------------------------
(* invalidate_connection_cache of write n *)

\* SCAN MATCH argus:cache:{connection_id}:*
PurgeScan(n) ==
    /\ purge[n].pc = "scan"
    /\ purge' = [purge EXCEPT ![n] = Purging("delete", Live)]
    /\ UNCHANGED <<database, entry, tags, reader, sweep, cleanup>>

PurgeDelete(n) ==
    /\ purge[n].pc = "delete"
    /\ DeleteEntries(purge[n].batch)
    /\ purge' = [purge EXCEPT ![n] = NoPurge]
    /\ UNCHANGED <<database, tags, reader, sweep, cleanup>>

\* A Redis error ends the task.
PurgeFails(n) ==
    /\ purge[n].pc # "none"
    /\ purge' = [purge EXCEPT ![n] = NoPurge]
    /\ stage' = [stage EXCEPT ![n] = "unswept"]
    /\ UNCHANGED <<commits, wtables, entry, tags, reader, sweep, cleanup>>

-----------------------------------------------------------------------------
(* cleanup_stale_tags of table t *)

\* SSCAN tag
CleanupScan(t) ==
    /\ cleanup[t].pc = "scan"
    /\ cleanup' = [cleanup EXCEPT ![t] =
                      IF tag[t] = {} THEN NoCleanup
                      ELSE Cleaning("exists", tag[t], None)]
    /\ UNCHANGED <<database, entry, tags, reader, sweep, purge>>

\* EXISTS: a live key stays, an expired one is to be removed.
CleanupExists(t, k) ==
    /\ cleanup[t].pc = "exists"
    /\ k \in cleanup[t].batch
    /\ cleanup' = [cleanup EXCEPT ![t] =
                      IF k \notin Live THEN Cleaning("remove", @.batch, k)
                      ELSE IF @.batch = {k} THEN NoCleanup
                      ELSE Cleaning("exists", @.batch \ {k}, None)]
    /\ UNCHANGED <<database, entry, tags, reader, sweep, purge>>

\* SREM of that key, though a SELECT may have stored it again.
CleanupRemove(t) ==
    /\ cleanup[t].pc = "remove"
    /\ LET k == cleanup[t].key
           rest == tag[t] \ {k}
       IN
        /\ tag' = [tag EXCEPT ![t] = rest]
        /\ tagTTL' = [tagTTL EXCEPT ![t] = IF rest = {} THEN 0 ELSE @]
        /\ cleanup' = [cleanup EXCEPT ![t] =
                          IF @.batch = {k} THEN NoCleanup
                          ELSE Cleaning("exists", @.batch \ {k}, None)]
    /\ UNCHANGED <<database, entry, reader, sweep, purge>>

-----------------------------------------------------------------------------
(* Redis expiry and crashes of the gateway *)

Older(n) == IF n = 0 THEN 0 ELSE n - 1

Tick ==
    /\ entry' = [k \in Keys |-> IF entry[k].ttl <= 1 THEN Absent
                                ELSE [entry[k] EXCEPT !.ttl = @ - 1]]
    /\ tag' = [t \in Tables |-> IF tagTTL[t] = 1 THEN {} ELSE tag[t]]
    /\ tagTTL' = [t \in Tables |-> Older(tagTTL[t])]
    /\ UNCHANGED <<database, reader, tasks>>

\* The requests and background tasks in flight are gone; Redis and the database stay.
Crash ==
    /\ reader' = [r \in Readers |-> IdleReader]
    /\ stage' = [n \in Writes |->
                    IF stage[n] = "committed" \/ sweep[n].pc # "none" \/ purge[n].pc # "none"
                      THEN "unswept" ELSE stage[n]]
    /\ sweep' = [n \in Writes |-> NoSweep]
    /\ purge' = [n \in Writes |-> NoPurge]
    /\ cleanup' = [t \in Tables |-> NoCleanup]
    /\ UNCHANGED <<commits, wtables, entry, tags>>

-----------------------------------------------------------------------------

Init ==
    /\ commits = 0
    /\ wtables = [n \in Writes |-> {}]
    /\ stage = [n \in Writes |-> "none"]
    /\ entry = [k \in Keys |-> Absent]
    /\ tag = [t \in Tables |-> {}]
    /\ tagTTL = [t \in Tables |-> 0]
    /\ reader = [r \in Readers |-> IdleReader]
    /\ sweep = [n \in Writes |-> NoSweep]
    /\ purge = [n \in Writes |-> NoPurge]
    /\ cleanup = [t \in Tables |-> NoCleanup]

ReaderStep(r) ==
    \/ ReadRows(r) \/ Store(r) \/ ExpireTag(r) \/ GiveUp(r)
    \/ \E t \in Tables : AddTag(r, t)

WriteStep(n) == Answered(n) \/ Unswept(n)

SweepStep(n) ==
    \/ SweepDelete(n) \/ SweepUntag(n) \/ SweepFails(n)
    \/ \E t \in Tables : SweepScan(n, t)

PurgeStep(n) == PurgeScan(n) \/ PurgeDelete(n) \/ PurgeFails(n)

CleanupStep(t) ==
    \/ CleanupScan(t) \/ CleanupRemove(t)
    \/ \E k \in Keys : CleanupExists(t, k)

Next ==
    \/ \E r \in Readers : ReaderStep(r) \/ \E k \in Keys : Miss(r, k)
    \/ \E T \in WriteSets : Commit(T)
    \/ \E n \in Writes : WriteStep(n) \/ SweepStep(n) \/ PurgeStep(n)
    \/ \E t \in Tables : CleanupStep(t)
    \/ Tick
    \/ Crash

\* Time passes, and the event loop runs requests and background tasks.
Fairness ==
    /\ WF_vars(Tick)
    /\ \A r \in Readers : WF_vars(ReaderStep(r))
    /\ \A n \in Writes : WF_vars(WriteStep(n)) /\ WF_vars(SweepStep(n))
                                               /\ WF_vars(PurgeStep(n))
    /\ \A t \in Tables : WF_vars(CleanupStep(t))

Spec == Init /\ [][Next]_vars

FairSpec == Spec /\ Fairness

-----------------------------------------------------------------------------
(* Properties *)

Fills ==
    {IdleReader}
    \union [pc : {"query", "store", "tag"}, key : Keys, readAt : 0..MaxWrites,
            left : SUBSET Tables, table : {None}]
    \union [pc : {"expire"}, key : Keys, readAt : {0}, left : SUBSET Tables, table : Tables]

Sweeps ==
    {NoSweep}
    \union [pc : {"scan"}, left : SUBSET Tables, table : {None}, batch : {{}}]
    \union [pc : {"delete", "untag"}, left : SUBSET Tables, table : Tables, batch : SUBSET Keys]

Cleanups ==
    {NoCleanup}
    \union [pc : {"scan", "exists"}, batch : SUBSET Keys, key : {None}]
    \union [pc : {"remove"}, batch : SUBSET Keys, key : Keys]

TypeOK ==
    /\ commits \in 0..MaxWrites
    /\ wtables \in [Writes -> SUBSET Tables]
    /\ stage \in [Writes -> {"none", "committed", "answered", "unswept"}]
    /\ entry \in [Keys -> [ttl : 0..TTL, readAt : 0..MaxWrites, setAt : 0..MaxWrites]]
    /\ tag \in [Tables -> SUBSET Keys]
    /\ tagTTL \in [Tables -> 0..(2 * TTL)]
    /\ reader \in [Readers -> Fills]
    /\ sweep \in [Writes -> Sweeps]
    /\ purge \in [Writes -> [pc : {"none", "scan", "delete"}, batch : SUBSET Keys]]
    /\ cleanup \in [Tables -> Cleanups]

\* The purge of write n will still delete key k.
PurgeAhead(n, k) ==
    \/ purge[n].pc = "scan"
    \/ purge[n].pc = "delete" /\ k \in purge[n].batch

\* What a write's invalidation promises on an external connection: an entry
\* stored before the write committed does not outlive the write's purge,
\* whatever fills, cleanups and other sweeps run meanwhile.  The exceptions are
\* writes whose invalidation was never started or died.
EntriesOfThePastAreGone ==
    \A k \in Live, n \in 1..commits :
        n > entry[k].setAt =>
            stage[n] \in {"committed", "unswept"} \/ PurgeAhead(n, k)

\* Rows older than some write to their tables.
Stale(k) ==
    /\ k \in Live
    /\ \E n \in 1..commits : n > entry[k].readAt /\ wtables[n] \cap TablesOf[k] # {}

\* A tag set without TTL that no fill is about to give one: it stays until a
\* write to its table, "unbounded memory usage" for a table nobody writes.
Leaked(t) ==
    /\ tag[t] # {} /\ tagTTL[t] = 0
    /\ \A r \in Readers : ~(reader[r].pc = "expire" /\ reader[r].table = t)

\* SADD and EXPIRE are two commands, and sweeps, cleanups and other fills come
\* between: only a fill that dies between the two leaks a tag set.
OnlyDeadFillsLeakTags ==
    [][\A t \in Tables : ~Leaked(t) /\ Leaked(t)' =>
          \E r \in Readers : reader[r].pc = "expire" /\ (GiveUp(r) \/ Crash)]_vars

\* docs/cache_architecture.md, the TTL safety net: an entry that an invalidation
\* missed (a late fill, a crash, a write answered too late) heals by itself.
StaleHeals == \A k \in Keys : Stale(k) ~> ~Stale(k)
=============================================================================
