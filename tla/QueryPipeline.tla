--------------------------- MODULE QueryPipeline ---------------------------
(***************************************************************************)
(* execute_query of src/gateway/routers/v1/query.py with check_budget of   *)
(* middleware/performance/budget.py, the session execute_with_timeout runs *)
(* a statement in.  An action ends at an await that another request, a     *)
(* failure of Redis or midnight may use.  The checks from the IP filter to *)
(* the whitelist read state that is not modelled here: together they admit *)
(* or refuse.  The result cache is QueryCache, the breaker CircuitBreaker, *)
(* the keys of a connection KeyRotation; the audit task of a request only  *)
(* writes, so that its creation is all the pipeline knows of it.           *)
(***************************************************************************)
EXTENDS Naturals

CONSTANTS
    Requests,   \* slots for requests in flight
    Users,      \* users with a budget
    Admins,     \* users without one
    Kinds,      \* what a request may ask: a SELECT or a write, where, for real or dry
    Costs,      \* costs that EXPLAIN may estimate
    Limit,      \* settings.daily_budget_default
    BlockCost,  \* settings.cost_threshold_block
    MaxDate,    \* bound: dates
    None

ASSUME PipelineConstants ==
    /\ Kinds \subseteq [select : BOOLEAN, ext : BOOLEAN, dry : BOOLEAN]
    /\ Costs \subseteq Nat /\ 0 \in Costs
    /\ Limit \in Nat /\ BlockCost \in Nat
    /\ MaxDate \in Nat \ {0}
    /\ Users \intersect Admins = {}
    /\ None \notin Users \union Admins \union Nat

Dates == 1..MaxDate

VARIABLES
    date,      \* the UTC date
    closing,   \* it is in its last second
    usage,     \* usage[u][d]: the key argus:budget:{u}:{d}, None when absent
    expiring,  \* expiring[u][d]: the key has a TTL
    req,       \* req[r]: where the request is, what it asks, its cost and budget key
    answer,    \* what its client is told
    tx,        \* what became of the write it executed
    audited    \* its audit task was created

keys == <<usage, expiring>>
budget == <<date, closing, keys>>
outcome == <<answer, tx, audited>>
vars == <<budget, req, outcome>>

Asks(pc, u, kind, c, d) == [pc |-> pc, user |-> u, kind |-> kind, cost |-> c, day |-> d]

Idle == Asks("idle", None, [select |-> FALSE, ext |-> FALSE, dry |-> FALSE], 0, 1)

At(r, labels) == req[r].pc \in labels
Goto(r, label) == req' = [req EXCEPT ![r].pc = label]

\* asyncio.create_task(write_audit_log(...))
StartAudit(r) == audited' = [audited EXCEPT ![r] = TRUE]

\* The handler raises an HTTPException: audited as blocked, then the finally block.
Refuse(r) ==
    /\ answer' = [answer EXCEPT ![r] = "refused"]
    /\ StartAudit(r)
    /\ Goto(r, "finally")

-----------------------------------------------------------------------------
(* Admission *)

Arrive(r, u, kind) ==
    /\ At(r, {"idle"})
    /\ req' = [req EXCEPT ![r] = Asks("checks", u, kind, 0, 1)]
    /\ UNCHANGED <<budget, outcome>>

\* The external connection is opened before any check of the request; then IP
\* filter, validation, honeypot, rate limit, RBAC, hours, API key scope, whitelist.
Admit(r) ==
    /\ At(r, {"checks"})
    /\ Goto(r, IF req[r].kind.select THEN "cache" ELSE "run")
    /\ UNCHANGED <<budget, outcome>>

\* There is no such connection, or one of the checks says no.
TurnAway(r) ==
    /\ At(r, {"checks"})
    /\ Refuse(r)
    /\ UNCHANGED <<budget, tx>>

-----------------------------------------------------------------------------
(* Cache, cost and budget of a SELECT *)

CacheHit(r) ==
    /\ At(r, {"cache"})
    /\ answer' = [answer EXCEPT ![r] = "rows"]
    /\ StartAudit(r)
    /\ Goto(r, "finally")
    /\ UNCHANGED <<budget, tx>>

\* A SELECT on an external database costs nothing.  check_budget builds its key
\* from the date before it asks Redis.
CacheMiss(r) ==
    /\ At(r, {"cache"})
    /\ req' = [req EXCEPT ![r] =
                  Asks(IF @.kind.ext THEN "budget" ELSE "cost", @.user, @.kind, 0, date)]
    /\ UNCHANGED <<budget, outcome>>

\* EXPLAIN on the primary, 0 when it fails; only an admin may exceed the threshold.
Estimate(r, c) ==
    /\ At(r, {"cost"})
    /\ IF c > BlockCost /\ req[r].user \notin Admins
         THEN Refuse(r)
         ELSE /\ req' = [req EXCEPT ![r] = Asks("budget", @.user, @.kind, c, date)]
              /\ UNCHANGED <<answer, audited>>
    /\ UNCHANGED <<budget, tx>>

Spent(u, d) == IF usage[u][d] = None THEN 0 ELSE usage[u][d]

\* check_budget of an admin returns at once.
SkipBudget(r) ==
    /\ At(r, {"budget"})
    /\ req[r].user \in Admins
    /\ Goto(r, "run")
    /\ UNCHANGED <<budget, outcome>>

\* Mutant: the script compares the usage without the new cost.
Charge_Late(r, u) ==
    /\ At(r, {"budget"}) /\ u = req[r].user
    /\ LET c == req[r].cost
           d == req[r].day
       IN
        /\ Spent(u, d) <= Limit
        /\ usage' = [usage EXCEPT ![u][d] = Spent(u, d) + c]
    /\ Goto(r, "ttl")
    /\ UNCHANGED <<date, closing, expiring, answer, tx, audited>>

\* The Lua script checks and deducts in one step, before anything is executed.
Charge(r, u) ==
    /\ At(r, {"budget"}) /\ u = req[r].user
    /\ LET c == req[r].cost
           d == req[r].day
       IN
        /\ Spent(u, d) + c <= Limit
        /\ usage' = [usage EXCEPT ![u][d] = Spent(u, d) + c]
    /\ Goto(r, "ttl")
    /\ UNCHANGED <<date, closing, expiring, answer, tx, audited>>

OverBudget(r, u) ==
    /\ At(r, {"budget"}) /\ u = req[r].user
    /\ Spent(u, req[r].day) + req[r].cost > Limit
    /\ Refuse(r)
    /\ UNCHANGED <<budget, tx>>

\* Mutant: _ensure_ttl takes only -2 for a key without a TTL.
ReadTTL_OnlyMissing(r, u) ==
    /\ At(r, {"ttl"}) /\ u = req[r].user
    /\ Goto(r, IF usage[u][req[r].day] # None THEN "run"
               ELSE IF closing THEN "expire now" ELSE "expire")
    /\ UNCHANGED <<budget, outcome>>

\* Mutant: the seconds are those until midnight of the local time.
ReadTTL_LocalTime(r, u) ==
    /\ At(r, {"ttl"}) /\ u = req[r].user
    /\ \/ expiring[u][req[r].day] /\ Goto(r, "run")
       \/ ~expiring[u][req[r].day] /\ (Goto(r, "expire") \/ Goto(r, "expire now"))
    /\ UNCHANGED <<budget, outcome>>

\* _ensure_ttl: TTL of the key; without one the whole seconds until midnight are
\* computed, none of which are left in the last second of the date.
ReadTTL(r, u) ==
    /\ At(r, {"ttl"}) /\ u = req[r].user
    /\ Goto(r, IF expiring[u][req[r].day] THEN "run"
               ELSE IF closing THEN "expire now" ELSE "expire")
    /\ UNCHANGED <<budget, outcome>>

\* EXPIRE of those seconds: nothing happens to a key that has disappeared.
SetTTL(r, u) ==
    /\ At(r, {"expire"}) /\ u = req[r].user
    /\ expiring' = [expiring EXCEPT ![u][req[r].day] = usage[u][req[r].day] # None]
    /\ Goto(r, "run")
    /\ UNCHANGED <<date, closing, usage, outcome>>

\* EXPIRE 0 deletes the key.
SetNoTTL(r, u) ==
    /\ At(r, {"expire now"}) /\ u = req[r].user
    /\ usage' = [usage EXCEPT ![u][req[r].day] = None]
    /\ expiring' = [expiring EXCEPT ![u][req[r].day] = FALSE]
    /\ Goto(r, "run")
    /\ UNCHANGED <<date, closing, outcome>>

-----------------------------------------------------------------------------
(* Execution, answer and the finally block *)

\* A dry run has been charged like any other SELECT; it is not audited.
DryRun(r) ==
    /\ At(r, {"run"})
    /\ req[r].kind.dry
    /\ answer' = [answer EXCEPT ![r] = "plan"]
    /\ Goto(r, "finally")
    /\ UNCHANGED <<budget, tx, audited>>

\* asyncpg commits each statement on an external connection.  The session of
\* execute_with_timeout is closed without a commit, which rolls back.
Execute(r) ==
    /\ At(r, {"run"})
    /\ ~req[r].kind.dry
    /\ tx' = [tx EXCEPT ![r] = IF req[r].kind.select THEN "none"
                               ELSE IF req[r].kind.ext THEN "applied" ELSE "rolled back"]
    /\ Goto(r, "report")
    /\ UNCHANGED <<budget, answer, audited>>

\* 400, 500, 503 (open breaker) or 504: the handler raises an HTTPException, and
\* there is no refund.  An external write given up on may have been applied.
ExecuteFails(r, applied) ==
    /\ At(r, {"run"})
    /\ ~req[r].kind.dry
    /\ applied => req[r].kind.ext /\ ~req[r].kind.select
    /\ tx' = [tx EXCEPT ![r] = IF applied THEN "applied" ELSE "none"]
    /\ Refuse(r)
    /\ UNCHANGED budget

\* Mutant: the success is audited only when the statement was a SELECT.
Report_SelectOnly(r) ==
    /\ At(r, {"report"})
    /\ answer' = [answer EXCEPT ![r] = "rows"]
    /\ IF req[r].kind.select THEN StartAudit(r) ELSE audited' = audited
    /\ Goto(r, "finally")
    /\ UNCHANGED <<budget, tx>>

\* EXPLAIN ANALYZE, the slow query log, the audit task and write_cache.
Report(r) ==
    /\ At(r, {"report"})
    /\ answer' = [answer EXCEPT ![r] = "rows"]
    /\ StartAudit(r)
    /\ Goto(r, "finally")
    /\ UNCHANGED <<budget, tx>>

\* `except Exception`, for a Redis error in any step or a value that cannot be
\* encrypted: 500, no audit.  The refund asks for a query_type that QueryRequest
\* does not have.
Error(r) ==
    /\ At(r, {"checks", "cache", "budget", "ttl", "expire", "expire now", "run", "report"})
    /\ answer' = [answer EXCEPT ![r] = "error"]
    /\ Goto(r, "finally")
    /\ UNCHANGED <<budget, tx, audited>>

\* record_latency, the close of the connection and the heatmap; when Redis fails
\* here its exception replaces the answer.
Finally(r) ==
    /\ At(r, {"finally"})
    /\ \/ answer' = answer
       \/ answer' = [answer EXCEPT ![r] = "error"]
    /\ Goto(r, "answered")
    /\ UNCHANGED <<budget, tx, audited>>

\* The slot is free for another request.
Leave(r) ==
    /\ At(r, {"answered"})
    /\ req' = [req EXCEPT ![r] = Idle]
    /\ answer' = [answer EXCEPT ![r] = "none"]
    /\ tx' = [tx EXCEPT ![r] = "none"]
    /\ audited' = [audited EXCEPT ![r] = FALSE]
    /\ UNCHANGED budget

-----------------------------------------------------------------------------
(* Redis, the clock and crashes of the gateway *)

\* Redis expires a key when its seconds have passed, less than one before midnight.
KeyExpires(u, d) ==
    /\ expiring[u][d]
    /\ d < date \/ (d = date /\ closing)
    /\ usage' = [usage EXCEPT ![u][d] = None]
    /\ expiring' = [expiring EXCEPT ![u][d] = FALSE]
    /\ UNCHANGED <<date, closing, req, outcome>>

LastSecond ==
    /\ ~closing
    /\ closing' = TRUE
    /\ UNCHANGED <<date, keys, req, outcome>>

Midnight ==
    /\ closing
    /\ date < MaxDate
    /\ date' = date + 1
    /\ closing' = FALSE
    /\ UNCHANGED <<keys, req, outcome>>

\* Requests in flight are gone.
Crash ==
    /\ req' = [r \in Requests |-> Idle]
    /\ answer' = [r \in Requests |-> "none"]
    /\ tx' = [r \in Requests |-> "none"]
    /\ audited' = [r \in Requests |-> FALSE]
    /\ UNCHANGED budget

-----------------------------------------------------------------------------

Init ==
    /\ date = 1
    /\ closing = FALSE
    /\ usage = [u \in Users |-> [d \in Dates |-> None]]
    /\ expiring = [u \in Users |-> [d \in Dates |-> FALSE]]
    /\ req = [r \in Requests |-> Idle]
    /\ answer = [r \in Requests |-> "none"]
    /\ tx = [r \in Requests |-> "none"]
    /\ audited = [r \in Requests |-> FALSE]

CheckBudget(r) ==
    \/ SkipBudget(r)
    \/ \E u \in Users :
          Charge(r, u) \/ OverBudget(r, u) \/ ReadTTL(r, u) \/ SetTTL(r, u) \/ SetNoTTL(r, u)

Pipeline(r) ==
    \/ Admit(r) \/ TurnAway(r) \/ CacheHit(r) \/ CacheMiss(r)
    \/ \E c \in Costs : Estimate(r, c)
    \/ CheckBudget(r)
    \/ DryRun(r) \/ Execute(r) \/ \E applied \in BOOLEAN : ExecuteFails(r, applied)
    \/ Report(r) \/ Error(r) \/ Finally(r) \/ Leave(r)

Next ==
    \/ \E r \in Requests :
          \/ Pipeline(r)
          \/ \E u \in Users \union Admins, kind \in Kinds : Arrive(r, u, kind)
    \/ \E u \in Users, d \in Dates : KeyExpires(u, d)
    \/ LastSecond \/ Midnight \/ Crash

Spec == Init /\ [][Next]_vars

-----------------------------------------------------------------------------
(* Properties *)

Places == {"idle", "checks", "cache", "cost", "budget", "ttl", "expire", "expire now",
           "run", "report", "finally", "answered"}

Asking ==
    [pc : Places, user : Users \union Admins \union {None},
     kind : [select : BOOLEAN, ext : BOOLEAN, dry : BOOLEAN], cost : Costs, day : Dates]

TypeOK ==
    /\ date \in Dates
    /\ closing \in BOOLEAN
    /\ usage \in [Users -> [Dates -> 0..Limit \union {None}]]
    /\ expiring \in [Users -> [Dates -> BOOLEAN]]
    /\ req \in [Requests -> Asking]
    /\ answer \in [Requests -> {"none", "rows", "plan", "refused", "error"}]
    /\ tx \in [Requests -> {"none", "applied", "rolled back"}]
    /\ audited \in [Requests -> BOOLEAN]

\* check_budget keeps the promise of DailyBudget, though a key is built on one
\* date and charged on the next, its TTL is read, computed and set in three steps
\* that other requests and midnight come between, and keys expire a little early.
Budget == INSTANCE DailyBudget WITH used <- [u \in Users |-> Spent(u, date)]

DailyLimit == Budget!Spec

\* Why it does: no request holds a key of a day to come and no such key exists, and
\* a request about to delete the key of the running date does it in its last second.
BudgetDays ==
    /\ \A r \in Requests :
          /\ req[r].day <= date
          /\ At(r, {"expire now"}) /\ req[r].day = date => closing
    /\ \A u \in Users, d \in Dates : d > date => usage[u][d] = None

\* A budget key without TTL that no request is about to give one.
Forgotten(u, d) ==
    /\ usage[u][d] # None
    /\ ~expiring[u][d]
    /\ \A r \in Requests :
          ~(At(r, {"ttl", "expire", "expire now"}) /\ req[r].user = u /\ req[r].day = d)

\* Concurrent charges, TTL checks and expiry never leave a budget key in Redis for
\* ever: only a crash or a Redis error between the charge and EXPIRE does.
OnlyBrokenRequestsForgetKeys ==
    [][\A u \in Users, d \in Dates :
          ~Forgotten(u, d) /\ Forgotten(u, d)' =>
             Crash \/ \E r \in Requests : Error(r) /\ req[r].user = u]_vars

\* A request whose client was told rows or a refusal has its audit task, and a
\* write that reached a database without one was answered with an error: the
\* dry run, which starts none, writes nothing (query.py:508, 658).
AnswersAreAudited ==
    \A r \in Requests : At(r, {"answered"}) =>
        /\ answer[r] \in {"rows", "refused"} => audited[r]
        /\ tx[r] = "applied" => audited[r] \/ answer[r] = "error"
=============================================================================
