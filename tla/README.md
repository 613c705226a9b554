# Argus: a TLA+ model of the SQL gateway

Argus (`src/gateway`) stands between clients and PostgreSQL. It authenticates a
request, decides whether its statement may run, estimates and charges its cost,
runs it through a retry loop and a circuit breaker, decrypts and masks the rows,
caches and audits the answer. It is one asyncio process per worker. State that
outlives a request is in Redis (breaker, cache, budgets, counters, copies of rows)
and in PostgreSQL (users, connections, key history, whitelist, jobs, audit log). No
lock is held anywhere: what keeps concurrent requests apart is the atomicity of
single Redis commands, one Lua script, and database transactions.

The rule behind every module: **code between two awaits that can suspend is one
action**; between two actions any other request, background task, key expiry,
midnight, Redis error or crash of the process may happen.

## 1. Inventory

| Component | Source (`src/gateway/…`) | State it keeps | Operations | Status |
|---|---|---|---|---|
| Circuit breaker and executor | `middleware/execution/{circuit_breaker,executor}.py` | Redis: `state`, `opened_at`, `half_open_probe`, `failure_count` | check, record success, record failure, retry loop | modelled |
| Result cache | `middleware/performance/cache.py`, `utils/connection_manager.py` | Redis: entries, metadata, a tag set per table | check, write, invalidate by table, purge a connection, clean stale tags | partly |
| Data encryption keys | `middleware/security/{key_manager,query_encryptor,encryption}.py`, `routers/v1/connections.py` | PostgreSQL: wrapped DEK and version per connection, `dek_history`; DEK cache of the process; envelopes in the client's tables | rotate, load, seal, open | partly |
| Migration worker | `workers/migration_worker.py` | PostgreSQL: jobs; asyncio tasks | trigger, run, fail | modelled |
| Connections and column settings | `routers/v1/connections.py`, `models/{user_database,column_security}.py`, `middleware/security/sensitivity_scanner.py` | PostgreSQL: connection rows, settings of columns; Redis: copy of the schema | register, deactivate, restore, hard delete, add, remove, fetch, scan | partly |
| Query pipeline | `routers/v1/query.py` | locals of a request, its external connection | the steps of `execute_query` and its handlers | partly |
| Daily budget | `middleware/performance/budget.py` | Redis: one float per user and UTC date | check and charge, set TTL | partly |
| Login lockout, tokens, API keys | `middleware/security/{brute_force,auth}.py`, `routers/v1/auth.py` | Redis: failure counters, copies of API keys; PostgreSQL: users, keys; tokens held by clients | register, login, refresh, verify, delete a user | modelled |
| Whitelist and administration | `routers/v1/admin.py`, `query.py:251-288` | PostgreSQL rows with a Redis copy of 24 h | approve, withdraw, check | partly |
| Rate limits | `middleware/security/rate_limiter.py`, `main.py` | Redis: counters per minute | check | partly |
| AI assistant | `routers/v1/ai.py` | Redis: a counter per minute | six endpoints, provider calls with retries | partly |
| Validation, RBAC, masking | `middleware/security/{validator,rbac}.py` | none | pure functions of a statement or a row | order only |
| IP filter, honeypot | `middleware/security/ip_filter.py`, `utils/honeypot.py` | Redis: sets of addresses | check, ban | not modelled |
| Cost, complexity, LIMIT, EXPLAIN | `middleware/performance`, `middleware/execution/analyzer.py` | none | pure functions | not modelled |
| Audit, metrics, heatmap, webhooks | `middleware/observability` | PostgreSQL: audit log; Redis: counters | fire-and-forget writes | not modelled |
| Key providers, start-up, SDK, frontend, scripts | | | input and output | not modelled |

**How they interact.** `execute_query` is the composition: it loads the connection
and its keys, runs the admission checks (IP, validation, honeypot, rate limit,
RBAC, whitelist), asks the cache, charges the budget, executes (`execute_with_timeout`
with the breaker for the default connection, asyncpg directly for an external one),
then starts background tasks (invalidation, audit, metrics) that run after the
answer and die with the process. `nl-to-sql` of the assistant calls `execute_query`
as a function, so that one request passes two limiters. A key rotation starts a
re-encryption job, which shares the DEK cache with the queries. Cache, breaker and
budget share nothing but Redis. The whitelist, the schema of a connection and API keys
have the same shape: rows in PostgreSQL, a copy in Redis that is written by readers and
deleted by writers, in another command than the change.

**What is hard.** Requests interleave at every Redis command; most state changes
take two or three commands (`SETEX state` + `SETEX opened_at` + `DEL probe`; `SADD` + `EXPIRE`;
`INCR` + `EXPIRE`; Lua charge + `TTL` + `EXPIRE`; `COMMIT` + `DEL`) and a crash or Redis
error can come between them; TTLs run out while a request is between check and use;
background tasks are late, overlap or never run; rotation and queries read a row twice
in different transactions. `PROJECT.json`, "hazards", lists them line by line, with a note where a
property excepts by a history variable what the hazard speaks of (a lapsed probe lock, an orphaned counter, a
lost job): such a property names the cause and shows that there is no other, it does not forbid it.

**What makes each component correct.**
- *Breaker*: whatever blocks traffic expires by itself; one recovery probe at a
  time; a bounded number of counts per failed call; an open breaker is tested
  again; every call ends; once the database is well the breaker closes and stays so.
- *Cache*: after a write's purge no entry from before it is left; what invalidation
  misses is gone within the TTL; tag sets do not pile up without a TTL.
- *Keys and migration*: no stored value is sealed under a DEK the database has lost;
  rotation never prevents a query or a worker from opening its connection; ciphertext
  reaches a client only in a case that can be named; a job is not abandoned in silence.
- *Connections*: an outdated schema copy has a nameable cause and heals; settings of a
  column are not overwritten by a scan and not left behind by a deletion.
- *Budget and pipeline*: what a user is charged on one date never exceeds the
  limit, the sum restarts at midnight and not during the day; keys do not stay for
  ever; every answer of rows or refusal is audited.
- *Lockout*: guesses in flight overshoot the limit by a bounded number; no interleaving
  locks a user out for ever.
- *Tokens and API keys, whitelist*: rights outlive their withdrawal by one lifetime at
  most, except those written by a request that had read the row before; even these end.
- *Limits*: in each minute, calls to the provider and queries run stay within what the
  limiters allow, retries included.

## 2. Modules

| Module | What it is |
|---|---|
| `CircuitBreaker` | breaker and retry loop, one action per Redis command, database call or sleep |
| `QueryCache` | cache of one external connection with readers, writes and three kinds of background task |
| `KeyRotation` | keys of one connection, rotations, queries and the values they seal and open |
| `Migration` | EXTENDS `KeyRotation` with the jobs that follow a rotation; implements `KeyStore` |
| `KeyStore` | abstract specification: what the keys of a connection promise |
| `Connections` | one connection, its column settings and the Redis copy of its schema |
| `DailyBudget` | abstract specification: what the budget promises |
| `QueryPipeline` | `execute_query` with `check_budget`; implements `DailyBudget` |
| `Lockout` | login and its two failure counters |
| `Access` | tokens and API keys of one user |
| `Whitelist` | approvals of one fingerprint and the layers of the pipeline before them |
| `Assistant` | AI endpoints, provider retries, two limiters per minute |
| `…Proofs` | theorems about the module of that name; `KeyProofs` is about `KeyRotation`, `Migration` and `KeyStore`, `AdmissionProofs` about `Assistant` and `Whitelist` |
| `MC*` + `.cfg` | instances for TLC |

An operator whose comment starts with `Mutant:` is not part of a specification. It is
the action after it with a plausible bug, kept to show that a property can be
violated (`PROJECT.json`, "mutants").

### CircuitBreaker

`cb`, `openedAge`, `holder`, `count` are the four Redis keys; `cbTTL`, `lockTTL`,
`countTTL` are their TTLs in ticks (`opened_at` needs none of its own: it is absent
when `openedAge` has reached `KeyTTL`). `pc[r]` is the await at which request `r` waits,
`attempt` the loop variable, `again` says that the `record_failure` in progress is the
first of the two on the exhausted path. `probe`, `counted`, `blamed` are history. The lock holds
`"1"` in Redis; `holder` remembers who set it, and no guard of the code's actions reads it.
`healthy` is the database: when it is false a query may still succeed or fail either way.
A query may outlast any number of ticks. The actions follow the code: `ReadState`, `ReadOpenedAt`, `Promote`,
`TakeProbeLock`/`LoseProbeLock` (check_circuit_breaker), `QuerySucceeds`/`QueryFails…`/`Retry`
(executor), `RecordSuccess` … `ReleaseProbeLock`, `RecordFailure` … `TripReleasesLock`.

`RecordingFails` is a Redis error in `record_failure`, which runs outside the `try` of the
attempt and therefore ends the call; `Crash` stops every request at once.

Abstracted: error texts (whether an error is transient is a choice), replica versus
primary, and Redis errors in the two other functions. `check_circuit_breaker` and
`record_success` are called inside the `try`, so that such an error is taken for a failure of
the database (executor.py:109), which the model has already. One case is missing: a failed
check of an open breaker may renew it. Liveness is therefore stated for a Redis that
answers (`FairSpec` has `Step` and not `Next`).

### QueryCache

`entry[k]` holds for a cache key its TTL, how many writes were committed when its rows
were *read* and when they were *stored*; rows themselves are abstract. `tag`/`tagTTL`
are the tag sets. A SELECT goes query → store → (tag → expire)*; a write goes
committed → answered, which starts `sweep[n]` (invalidate_table_cache) and `purge[n]`
(invalidate_connection_cache); `cleanup[t]` is started by a fill that finds its tag set
above `TagLimit`. A GET that fails is a miss, so that a SELECT may also fill a key that is
there. Writes that the database commits and the gateway never answers
(timeout, crash) are `unswept`.

Abstracted: hit counters, metadata keys, fingerprints, and SCANs of several batches
(the model's sets fit one batch of COUNT 100, so a SCAN is one command). One tick is
one `cache_default_ttl / TTL`. Only external connections are modelled: writes on the
default one are rolled back (section 6), so that no cached row there is made stale by them.

### KeyRotation and Migration

A DEK is a number in the order in which it was drawn (`drawn`); wrapping under the master
key is transparent. `conn` is the row, `history` the table, `dekCache` the process cache,
`rows[x]` which DEK and `key_id` an envelope was sealed with. Decryption under another
DEK returns the ciphertext, as `_aes_decrypt` does (query_encryptor.py:95-97). `get_dek` and
`rotate_dek` are `async` but contain no await that suspends, so each runs within one action.

`KeyStore` has four variables: the key in force, the DEK that opens the connection string, the
keys that are known, the key of each value; and two actions: a rotation in one step, and the
sealing of a value under a known key. `Migration` implements it with `known` the history and the
row together. That is not evident: the new DEK sits in the process cache before the
transaction commits and stays there when it fails, queries and workers seal with keys they
loaded long ago, and the connection string is rewrapped with what the cache says.

`Migration` replaces the commit of a rotation and the crash by their full versions: after
the commit, `due[a]` is the job the handler still has to schedule; `Trigger` commits its
row, `Spawn` creates the task, and the handler may fail between any two of these. A worker
loads the connection and its DEK, the old DEK from the history, fetches rows, re-seals and
completes; it may fail at each step and even fail to write that it failed. `lost` remembers
tasks that ended without an outcome. Because the worker's filter (migration_worker.py:106)
matches no envelope, only values in the clear can be re-sealed (`FetchRows`' `legacy`). The
worker's read of the column map, another await, is merged with `FetchRows`: settings of columns
are not state of this module.

### Connections

`conn`, `config` and `copy` are the row, the ColumnSecurity rows and `schema:<id>` in Redis.
A change is a commit and then a `DEL` (`Purge`); a fetch is row, target, settings, `SETEX`;
a scan inserts in a transaction (`mine`: rows another insert of the same column waits for)
and commits. `stale`, `late` and `missed` are history: they say why a copy is outdated. A
failing commit of a scan goes on to its answer as the code does (`ScanCommitFails`).

Merged awaits: deactivating, restoring, hard-deleting a connection and removing a setting
load a row and change it by its id in the same transaction, and are one step at the commit;
the INSERTs of one scan are one step before it. A second request that had loaded the same row
changes nothing in the code and has at most one more `DEL` of the copy to send.
What the scanner recognises is a choice (`Findings`).

### QueryPipeline and DailyBudget

`req[r]` is where a request is, what it asks, its estimated cost and the date in the
budget key it built. `usage`/`expiring` are the keys and whether they have a TTL. Time
is the date and whether it is in its last second (`closing`): the only moments the code
can tell apart, because `_ensure_ttl` truncates to whole seconds and `EXPIRE 0` deletes.
`answer`, `tx`, `audited` record the outcome. `Error` is the last handler
(`except Exception`), `Refuse` the one for HTTPExceptions, `Finally` the finally block, in which
a Redis failure replaces the answer.

`DailyBudget` says in five actions what `check_budget` promises: charge within the
limit, restart in the last second or at midnight. `QueryPipeline` implements it under
`used <- [u \in Users |-> Spent(u, date)]`. It is not evident: a key built before
midnight is charged after it, the TTL is read, computed and set in three commands, and
an `EXPIRE 0` computed in the last second may arrive the next day.

Abstracted: the admission checks are one choice (admit, or refuse), cache contents are a choice
(hit or miss), the breaker and retry loop a choice of outcomes, costs a small set of naturals
(floats in the code; the script's arithmetic is exact for the costs chosen).

### Lockout

`n` and `ttl` are the two kinds of counter, per (address, username) and per username,
for one username. The value of the first is read before an await and used after it
(`held`). The `TTL` command before a 423 only words the answer. Verification is one step with the database's answer, because bcrypt runs in
the event loop. `orphans` is history: counters whose `EXPIRE` was lost with its request.

### Access

`tokens` are those that can still be refreshed, `left` counting down over lifetime and grace;
`copy` is `apikey:<hash>`; `since` is the age of the last change of the user's rows.
A request that has read a row before a change and writes after it marks what it writes
`late`. `register` reads its row back and issues the role it finds, so that a change of the role
before that is no excuse; it does not look at `is_active`, so that a user disabled by then is one. Role, `is_active` and API keys have no endpoint in this code: an operator changes
them in the database, at any time. Using a valid token changes nothing and is no action.

### Whitelist

One fingerprint: `row`, its `copy` with a TTL, queries that pass validation and permission
(a choice each), ask the copy, then the row, then fill the copy; administrators whose `SELECT`,
commit and Redis command are three steps. Of two that found no row one fails on the unique index
(`InsertApproval`); of two that loaded the same row the second deletes nothing, not even an approval
given anew, and still sends its `DEL` (`DeleteNothing`). `late` is history as above.

### Assistant

Minutes are named by their age, because a counter's key is built before its `INCR` runs:
age 0 and 1 are in Redis, older names find whatever they find. `calls` and `ran` count
what was done in the name of a minute. `call_llm` asks a provider, which retries with
sleeps; its failure is an answer. The text of a prompt or of an answer is a choice.

## 3. Runs

| Run | Checks | What it shows |
|---|---|---|
| `breaker_safety` | `TypeOK`, `BlockingKeysExpire`, `UndisturbedProbeIsAlone`, `AtMostTwoPerCall`, `OnlyBrokenCallsForgetCount` | two requests, retries, expiry, crashes, failing database and Redis |
| `breaker_liveness` | `OpenEnds`, `CallsEnd`, `Recovers` | under fairness the breaker does not stick and calls end |
| `cache_safety` | `TypeOK`, `EntriesOfThePastAreGone`, `OnlyDeadFillsLeakTags` | two SELECTs and two writes with their tasks |
| `cache_liveness` | `StaleHeals` | stale entries of a two-table query are gone within their TTL |
| `key_rotation` | `TypeOK`, `KeyHoldersWork`, `UnfinishedJobsHaveWorkers`, `OnlyOvertakenReadsStaySealed`, `KeysAreKept` | two handlers whose rotations do not overlap, their jobs, a query, failures, crashes; the refinement of `KeyStore` |
| `key_concurrent_rotation` | `RowsRecoverable` — **violated** | two rotations read the same version; one DEK is lost |
| `pipeline_safety` | `TypeOK`, `AnswersAreAudited`, `DailyLimit`, `OnlyBrokenRequestsForgetKeys` | a user and an admin, two requests, midnight; the refinement |
| `lockout` | `TypeOK`, `LockoutsExpire`, `GuessesBounded`, `LockoutEnds` | two logins at a time from two addresses |
| `access` | `TypeOK`, `RightsFade`, `KeyCopiesFade`, `WithdrawnAccessEnds` | logins, refreshes and API keys while the user's rows change |
| `connections` | `TypeOK`, `OutdatedHasACause`, `NoSettingsWithoutConnection`, `SettingsAreNotOverwritten`, `SchemaHeals` | fetch, scan, add, remove and deletions, two at a time |
| `assistant` | `TypeOK`, `ProviderIsSpared`, `RunsWithinLimit` | retries and back-off across minutes, two limiters |
| `whitelist` | `WhitelistTypeOK`, `ApprovalsHaveACause`, `WithdrawnApprovalsEnd` | three queries and two administrators on one fingerprint |

The violated one quotes a comment of `rotate_key` ("findings" in `PROJECT.json`).

**Bounds, and why they are enough.**
- Breaker: 2 requests (every hazard is between a request and one other: two probes, a
  stale promotion, a late success), 2 attempts (the last and one that is not the last
  are the only two cases of the loop), threshold 3 (with two counts per call, both
  reached and not reached, and a count that is left over) and 1 in the liveness run,
  TTLs 1 to 4 that do not invert the order of the real ones.
- Cache: one key and one table with two readers and two writes for safety (two fills of one key, a fill
  against a purge, two sweeps); a key of two tables, one reader and one write for
  liveness, where sweeps of two tables share an entry. `TagLimit` 0 (1 in the liveness run) makes
  cleanup start at the first (second) key instead of the 1001st; nothing else depends on it.
- Keys and migration: versions up to 3 (the middle one is both history and overtaken, and two
  jobs can be unfinished at once), up to 4 DEKs (so a rotation fails and is repeated), one
  value (values do not interact), two handlers (one rotates while the other has a job to
  schedule), one query beside them and the workers. `CONSTRAINT NoOverlap` keeps out the states in which two
  rotations are in flight. Any number of handlers and queries is what the theorems add. `MaxVersion`
  and `MaxDeks` are bounds of the model.
- Pipeline: costs {0, 2, 3}, limit 3, block threshold 2: one charge fits, two do not, 3 is
  refused by the threshold but for an admin; 2 dates (`MaxDate`) and the second before midnight; kinds that
  are internal SELECT, dry external SELECT and external write.
- Lockout: 2 logins, 2 addresses, limit 2, lifetime 2: the counter of the username is reached
  through either address, and a counter can expire between two commands of a login.
- Access: lifetime 2, grace 1, key copies 2 ticks; at most 2 tokens (`MaxTokens`): a token can be refreshed in
  its lifetime, in its grace period, and by two requests at once. Ages of a change are counted up to 1
  (`Horizon`): whatever is issued has its full lifetime, so one that is issued too late shows at the first tick.
- Connections: 2 requests, 2 columns, lifetime 2: each hazard is between a fetch or scan and one
  change; two columns, so that a scan inserts one and meets the other.
- Whitelist: 3 queries (one of them may fill while another asks and a third is elsewhere),
  2 administrators (approval and withdrawal overlap), copies of 2 ticks.
- Assistant: 2 requests, limits of 2 a minute, 2 attempts: the third request of a minute is
  turned away, also when it comes from requests that started a minute before.
- Symmetry is declared on requests, readers or the handlers of rotations, in runs without liveness only.
- Deadlock is checked in every run but `connections`: there a hard-deleted connection without
  requests and without a copy is the end.

## 4. Fairness

`CircuitBreaker` and `QueryCache`: weak fairness of `Tick`, of each request's next step
and of each background task. The event loop runs every ready coroutine; a database
call ends because of `wait_for` and the pool timeout; time passes. There is no
fairness on a client making a call, on the database recovering, on a crash. `OpenEnds` therefore
holds with no traffic at all, by expiry of the key; `Recovers` assumes `<>[]healthy`.
`StaleHeals` needs the clock only.

`Lockout`, `Access` and `Connections`: weak fairness of `Tick` and of the next step of each
request, for the same reasons; none on a request arriving, failing, or on a change of a
row. `SchemaHeals` and `WithdrawnAccessEnds` speak only of behaviours in which the rows stop
changing, `LockoutEnds` excepts counters whose `EXPIRE` was lost. `Whitelist`: `Tick` only,
because `WithdrawnApprovalsEnd` rests on expiry alone, and a query that holds an approval it
has seen may fill the copy once, not for ever. `KeyRotation`, `Migration`, `QueryPipeline` and
`Assistant` state no liveness.

## 5. What is proved

All theorems are for every value of the constants under the named assumptions
(`ConstantsOK`, `CacheConstants`, `KeyConstants`, `PipelineConstants`, `LockoutConstantsOK`,
`AccessConstantsOK`, `ConnectionsConstantsOK`, `AssistantConstantsOK`, `CopyTTLOK`), which TLC evaluates in the runs.

- **Breaker.** `IInv` is the type invariant, `BlockingKeysExpire`, and two strengthenings.
  `ProbeHoldsLock`: a request counted as a probe is in the database and is the holder. Without
  it `SET NX` succeeding tells nothing about other probes, and a request past its database
  call, which may delete the lock, would count as one. `AttemptLeft`: a sleeping call has
  an attempt left, which is what bounds `attempt`. From it: `TypeCorrect`,
  `BlockingKeysAlwaysExpire`, `ProbeExclusion`. `TwoPerCallAtMost` (`AtMostTwoPerCall`) needs `CountInv`: the count plus
  the calls that still owe a failure is at most twice the number of calls to blame, and a call that
  counts for the second time has no third to come. `CountKeepsItsTTL`
  (`OnlyBrokenCallsForgetCount`) is an action property: a count without TTL has a call that is about to set
  it, `EXPIRE` itself sets one, and nothing but a crash or a failing Redis takes a call away from its `EXPIRE`.
- **Cache.** `TypeCorrect`, with one lemma per kind of local state. `PastIsGone`:
  `EntriesOfThePastAreGone` is inductive with the types alone, because it already says where the
  write's purge is (`PurgeAhead`): fills store with the current commit count, and a purge
  that has scanned keeps in its batch every older key. `DeadFillsLeak` (`OnlyDeadFillsLeakTags`): a tag set without
  TTL has a reader that promises it one (`Promises`), and only giving up or a crash breaks the promise.
- **Keys.** The hypothesis is `[]NoOverlap`: the rotations of a connection do not overlap. The code
  does not enforce it, and `key_concurrent_rotation` shows why it is needed; any number of handlers may
  rotate one after the other. `IInv` says: a version names one
  DEK (`HistoryIsPast`); the process cache is true for every version a query can hold, and may
  be wrong only for versions nobody has loaded, which is where failed rotations leave their DEK
  (`CacheIsTrue`); a rotation in flight works on the current row (`RotationIsCurrent`); a
  query that has its history has every version before its own (`QueryIsSound`). From it:
  `NothingIsLost` (`RowsRecoverable`), `NoDowntime` (`ConnectionsOpen`), `OvertakenOnly`. `TypeCorrect` needs no hypothesis.
- **Migration.** `MInv` adds to that `IInv`: a handler with a job to schedule is not
  rotating, and no other has the same job (`DueOK`), jobs are of versions in the history
  (`JobsArePast`), a worker's keys are known and open what it read (`WorkersAreSound`), and every DEK in
  force or in the history was drawn before the one that a rotation is about to commit (`KeysAreFresh`). The
  steps of `KeyRotation` are used through its own lemmas. All properties of the run are theorems under `[]NoOverlap`; `RowsStayRecoverable`, that no
  value is ever sealed under a lost DEK, is one more, which `KeysAreKept` contains.
  `KeysAreNeverLost` is the refinement `KeysAreKept`: a commit is `Rotate` with a DEK that is fresh by `KeysAreFresh`, and opens
  the string by `RotationIsCurrent`; a sealing by a query or a worker is `Seal` with a key that is
  known by `QueryIsSound` and `WorkersAreSound`; every other step leaves the four variables alone.
- **Connections.** `IInv` adds `FetchOK` (what a fetch has read is the current setting unless it is marked
  stale, for which every commit must reach every fetch) and `MineOK` (two scans never hold the same
  column uncommitted, and the row of the connection is there while they do). From it: `OutdatedIsExplained`,
  `NoOrphanedSettings`, and the action property `SettingsAreKept`.
- **Lockout.** `LockoutsAlwaysExpire` is inductive with the types. `GuessesStayBounded` is not: the
  invariant is `RoomOK`, that a counter plus the logins that passed its check is at most the limit
  less one plus the logins there are. Passing the check adds one to the left side only
  when the counter is below the limit; `CheckedOK` says what a login past its check has kept.
- **Access.** `IInv` adds `ViewsAreCurrent` (what a request has read is the row unless it is marked stale)
  and `TokensFade`, which is `RightsFade` for every token and not only for the valid ones: the clock may make
  a token invalid, not valid again, but a token in its grace period still counts.
- **Budget and pipeline.** `TypeCorrect` includes that no key exceeds `Limit`, which rests on check and
  charge being one step. `DaysPassed`: no request holds a key of a future date, no such key exists, and a
  pending `EXPIRE 0` for the running date means that it is in its last second; this is why
  midnight maps to an empty sum and a deletion to a restart that `DailyBudget` allows.
  `DailyLimitKept` is the refinement `Spec => Budget!Spec`. `AlwaysAudited` needs `AllTraced`: at which places a
  request may have an answer or an applied write without its audit task. `KeysAreRemembered`
  (`OnlyBrokenRequestsForgetKeys`): a key without TTL that nobody has forgotten has a request that owes it
  its `EXPIRE` (`Owing`), and only an error of that request or a crash ends it before it has paid.

- **Assistant.** `Spec` counts calls in the name of a minute, and the limiter counts asks, each of which may
  become several calls over the next minutes. `CallsAreCounted` relates the two: the calls made in the name of a minute,
  plus the attempts its callers have left (`Owed(a)`, a set of pairs of a request and an attempt,
  counted by its cardinality), are at most `MaxRetries` times the asks let in. A call moves one from the
  second term to the first; being let in adds `MaxRetries` to both sides. `TriesAreOwn` says that a
  request that is not calling has used no attempt. From it `ProviderSpared`; `RunsStayWithinLimit` is the
  same argument without retries (`RunsAreCounted`). The set of requests is assumed finite, because their attempts are counted.
- **Whitelist.** `CopiesHaveACause` is inductive with the types: every step that leaves a copy
  without its row leaves one of the three causes with it.

Every invariant and every action property that a passing run checks is a theorem. Only model-checked, because
liveness is out of the proof system's reach: `OpenEnds`, `CallsEnd`, `Recovers`, `StaleHeals`, `LockoutEnds`,
`WithdrawnAccessEnds`, `SchemaHeals`, `WithdrawnApprovalsEnd`. What a
recursive function computes for every input could not be proved either; no module declares one.

## 6. Where the code and its documents disagree

With a run: `key_concurrent_rotation`. Met while modelling, each quoted in `PROJECT.json`:
- failed queries stay charged: `check_budget` deducts before execution and no handler refunds (query.py:376, 705);
- a write on the default connection is answered and rolled back (executor.py:65 never commits);
- a failed probe that retries meets its own lock and reports nothing (circuit_breaker.py:53);
- a call whose retries are exhausted counts twice (executor.py:119 and 128);
- `EXISTS`, then `SREM`, unties a live cache entry from its table (cache.py:182);
- a SELECT overtaken by a rotation and a write caches ciphertext (query.py:593);
- the lockout runs from the first failure, per username and address, and answers 423 (brute_force.py:31, 54);
- a disabled or deleted user's token works until it expires (auth.py:145);
- a scan whose commit failed reports its columns as applied (connections.py:993);
- the migration worker selects values that start with `v1:` or `v2:` (migration_worker.py:106),
  which no envelope written today does;
- a failing provider's error is handed to the client instead of the mock's answer (ai.py:572);
- the schema of a prompt names every schema `None` (ai.py:338 asks `schema`, connections.py:760 writes `database_schema`).

Read in the code, without an entry of their own:
- external connections never use the breaker: `cb_key` (query.py:438) is not used;
- any SQL error of a client on the default connection counts as a failure of the database (executor.py:121-125);
- an admin's query may run 10 s under a probe lock of 7 s;
- an external write purges the whole connection, where cache_architecture.md says "We do not flush the entire cache on writes";
- cache keys leave out the user (cache.py:22-29); a hit rewrites the metadata key without a TTL (cache.py:55);
- the budget key may expire up to a second before midnight (budget.py:24), userguide.md:329 says "at midnight UTC";
- the IP filter runs after the external connection was opened (query.py:175: "first");
- a 500 and a dry run write no audit entry, OBSERVABILITY.md:21 says every attempt is tracked;
- a Redis failure in the finally block skips the close of the external connection (query.py:717-722);
- rate limits count per calendar minute, the docstring says sliding window;
- jobs in progress are not resumed after a crash;
- API keys: `is_active` and `expires_at` of the key and `is_active` of its user are not asked (auth.py:193-200);
- a late fill keeps a withdrawn approval for up to 24 hours; an error of its `SETEX` refuses an approved
  query (query.py:272-275); `expires_at` of an approval is never asked;
- `rotate_key` takes `current_user["sub"]`, which an API key's user data has not.

## 7. Not modelled, and why

Validation, RBAC rules, masking, fingerprints, complexity and EXPLAIN parsing work on
SQL text; nothing but their verdict is state, and the verdict is a choice. IP filter and honeypot are one
Redis command per request. The anomaly baseline of the rate limiter only sets a flag. Metrics, heatmap and webhooks are
written and decide nothing. What the audit task does after it was created (three tries, then lost) is read by
nobody who decides. Reports and list routes only read. Key providers, start-up, SDK, frontend and scripts are
input and output. Redis is taken to be one server that executes commands in order and keeps its data.

## 8. Plan

Done: `CircuitBreaker`, `QueryCache`, `KeyRotation`, `DailyBudget` ⊑ `QueryPipeline`; then
`Lockout`, `Access`, `Connections`, `Migration`, `Assistant`, `Whitelist`; then `KeyStore` ⊑ `Migration`, and the theorems above. Left:
1. An abstract breaker (closed, open, testing) and `CircuitBreaker` as its implementation.
2. One abstract specification of a row with an expiring copy, and `Whitelist`, `Connections` and the API keys of `Access` as
   three implementations of it.
3. Audit retries and their order; LIMIT injection and masking of a value as pure operators.

## 9. Running

`tlc -workers 2 -config MCQueryPipeline.cfg MCQueryPipeline.tla` and likewise for every `.cfg`;
`tlapm QueryPipelineProofs.tla` for the proofs. The longest runs: `access`, `breaker_liveness`,
`cache_safety`, `key_rotation` and `lockout` (about 2 minutes each, up to two million states).
