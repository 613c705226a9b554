--------------------------- MODULE CircuitBreaker ---------------------------
(***************************************************************************)
(* The database circuit breaker of the gateway and the retry loop that     *)
(* drives it: src/gateway/middleware/execution/circuit_breaker.py and      *)
(* executor.py.                                                            *)
(*                                                                         *)
(* All requests run on one asyncio loop, so the code between two awaits is *)
(* atomic and every await of a Redis command is a point where another      *)
(* request can run.  Each action below is one Redis command (with the      *)
(* plain Python up to the next await), one database call, or one end of a  *)
(* sleep.  Redis outlives the gateway: Crash loses the requests and keeps  *)
(* the keys.                                                               *)
(*                                                                         *)
(* Time is a countdown of every key's TTL, moved by Tick; a database call  *)
(* or a Redis round trip may take any number of ticks (the time taken to   *)
(* get a pooled connection is outside the wait_for of the executor).       *)
(***************************************************************************)
EXTENDS Naturals, FiniteSets

CONSTANTS
    Requests,     \* coroutines that run execute_with_timeout, one call at a time
    MaxAttempts,  \* len(retry_delays) + 1
    Threshold,    \* settings.circuit_failure_threshold
    Cooldown,     \* settings.circuit_cooldown_seconds, in ticks
    KeyTTL,       \* TTL of the state and opened_at keys (10 * cooldown in the code)
    ProbeTTL,     \* TTL of the half-open probe lock (query timeout + 2)
    CountTTL,     \* TTL of the failure counter (60 s)
    None

ASSUME ConstantsOK ==
    /\ MaxAttempts \in Nat \ {0}
    /\ Threshold \in Nat \ {0}
    /\ Cooldown \in Nat \ {0}
    /\ KeyTTL \in Nat /\ KeyTTL > Cooldown + 1
    /\ ProbeTTL \in Nat \ {0}
    /\ CountTTL \in Nat \ {0}
    /\ None \notin Requests

VARIABLES
    cb,         \* argus:circuit_breaker:state; an absent key reads as "closed"
    cbTTL,      \* its remaining TTL, 0 when the key is absent
    openedAge,  \* now - opened_at; KeyTTL when the opened_at key is absent
    holder,     \* who set the half_open_probe lock last (the key holds only "1")
    lockTTL,    \* remaining TTL of the lock, 0 when it is absent
    count,      \* failure_count, saturated at Threshold
    countTTL,   \* its remaining TTL, 0 when absent or when no TTL was set on it
    healthy,    \* the database answers every query of the current load
    pc,         \* where each request is
    attempt,    \* loop variable of execute_with_timeout
    again,      \* a second record_failure follows the current one (line 128)
    probe,      \* history: what became of the request's recovery probe
    counted,    \* history: calls in flight that contributed to count
    blamed      \* history: number of calls that contributed to count

redis == <<cb, cbTTL, openedAge, holder, lockTTL, count, countTTL>>
history == <<counted, blamed>>
vars == <<redis, healthy, pc, attempt, again, probe, history>>

States == {"closed", "open", "half_open"}

Labels == {"idle", "check", "opened", "promote", "lock", "exec", "backoff",
           "ok", "ok_state", "ok_count", "ok_lock", "ok_reset",
           "fail", "incr", "expire", "expire_trip", "trip", "stamp", "unlock"}

AtMost(n, bound) == IF n < bound THEN n ELSE bound

Goto(r, label) == pc' = [pc EXCEPT ![r] = label]

\* The call returns or raises; its local variables are gone.
EndCall(r) ==
    /\ Goto(r, "idle")
    /\ attempt' = [attempt EXCEPT ![r] = 1]
    /\ again' = [again EXCEPT ![r] = FALSE]
    /\ probe' = [probe EXCEPT ![r] = "none"]

-----------------------------------------------------------------------------
(* Redis commands on the keys of the breaker *)

\* SETEX state KeyTTL s
SetState(s) ==
    /\ cb' = s
    /\ cbTTL' = KeyTTL

\* DEL failure_count: the next failure starts a new run of failures.
ClearCount ==
    /\ count' = 0
    /\ countTTL' = 0
    /\ counted' = {}
    /\ blamed' = 0

\* DEL half_open_probe.  The code deletes the key without asking whose it is:
\* a probe of another request that is still running has lost its lock.
DropLock(r) ==
    /\ holder' = None
    /\ lockTTL' = 0
    /\ probe' = [q \in Requests |->
                    IF q # r /\ probe[q] = "probing" THEN "lapsed" ELSE probe[q]]

-----------------------------------------------------------------------------
(* check_circuit_breaker *)

\* A request enters execute_with_timeout.
StartCall(r) ==
    /\ pc[r] = "idle"
    /\ Goto(r, "check")
    /\ UNCHANGED <<redis, healthy, attempt, again, probe, history>>

\* GET state
ReadState(r) ==
    /\ pc[r] = "check"
    /\ \/ cb = "closed" /\ Goto(r, "exec")
       \/ cb = "open" /\ Goto(r, "opened")
       \/ cb = "half_open" /\ Goto(r, "lock")
    /\ UNCHANGED <<redis, healthy, attempt, again, probe, history>>

CooldownElapsed == Cooldown < openedAge /\ openedAge < KeyTTL

\* GET opened_at: go on to HALF_OPEN after the cooldown, answer 503 before it.
ReadOpenedAt(r) ==
    /\ pc[r] = "opened"
    /\ IF CooldownElapsed
         THEN Goto(r, "promote") /\ UNCHANGED <<attempt, again, probe>>
         ELSE EndCall(r)
    /\ UNCHANGED <<redis, healthy, history>>

\* Mutant: SET state HALF_OPEN without a TTL.
Promote_NoTTL(r) ==
    /\ pc[r] = "promote"
    /\ cb' = "half_open"
    /\ cbTTL' = 0
    /\ Goto(r, "lock")
    /\ UNCHANGED <<openedAge, holder, lockTTL, count, countTTL, healthy, attempt,
                   again, probe, history>>

\* SETEX state HALF_OPEN, whatever the state has become since it was read.
Promote(r) ==
    /\ pc[r] = "promote"
    /\ SetState("half_open")
    /\ Goto(r, "lock")
    /\ UNCHANGED <<openedAge, holder, lockTTL, count, countTTL, healthy, attempt,
                   again, probe, history>>

\* Mutant: SET half_open_probe EX, without NX.
TakeProbeLock_NoNX(r) ==
    /\ pc[r] = "lock"
    /\ holder' = r
    /\ lockTTL' = ProbeTTL
    /\ probe' = [probe EXCEPT ![r] = "probing"]
    /\ Goto(r, "exec")
    /\ UNCHANGED <<cb, cbTTL, openedAge, count, countTTL, healthy, attempt, again,
                   history>>

\* SET half_open_probe NX EX
TakeProbeLock(r) ==
    /\ pc[r] = "lock"
    /\ lockTTL = 0
    /\ holder' = r
    /\ lockTTL' = ProbeTTL
    /\ probe' = [probe EXCEPT ![r] = "probing"]
    /\ Goto(r, "exec")
    /\ UNCHANGED <<cb, cbTTL, openedAge, count, countTTL, healthy, attempt, again,
                   history>>

\* The lock is held, by this very call after a failed first attempt too: 503.
LoseProbeLock(r) ==
    /\ pc[r] = "lock"
    /\ lockTTL > 0
    /\ EndCall(r)
    /\ UNCHANGED <<redis, healthy, history>>

-----------------------------------------------------------------------------
(* execute_with_timeout: the database call and what follows it *)

QuerySucceeds(r) ==
    /\ pc[r] = "exec"
    /\ Goto(r, "ok")
    /\ probe' = [probe EXCEPT ![r] = "none"]
    /\ UNCHANGED <<redis, healthy, attempt, again, history>>

ProbeFailed(r) ==
    probe' = [probe EXCEPT ![r] = IF @ = "none" THEN "none" ELSE "failed"]

\* Mutant: the last attempt sleeps and retries too.
QueryFailsAndRetries_OneMore(r) ==
    /\ pc[r] = "exec"
    /\ ~healthy
    /\ attempt[r] <= MaxAttempts
    /\ ProbeFailed(r)
    /\ Goto(r, "backoff")
    /\ UNCHANGED <<redis, healthy, attempt, again, history>>

\* A timeout or a transient error before the last attempt: sleep and retry.
QueryFailsAndRetries(r) ==
    /\ pc[r] = "exec"
    /\ ~healthy
    /\ attempt[r] < MaxAttempts
    /\ ProbeFailed(r)
    /\ Goto(r, "backoff")
    /\ UNCHANGED <<redis, healthy, attempt, again, history>>

\* A timeout on the last attempt, or an error that is not transient on any
\* attempt: one record_failure, then 504 or 400.
QueryFailsForGood(r) ==
    /\ pc[r] = "exec"
    /\ ~healthy
    /\ ProbeFailed(r)
    /\ Goto(r, "fail")
    /\ UNCHANGED <<redis, healthy, attempt, again, history>>

\* A transient error on the last attempt: record_failure, and record_failure
\* once more after the loop, then 500.
QueryExhaustsRetries(r) ==
    /\ pc[r] = "exec"
    /\ ~healthy
    /\ attempt[r] = MaxAttempts
    /\ ProbeFailed(r)
    /\ again' = [again EXCEPT ![r] = TRUE]
    /\ Goto(r, "fail")
    /\ UNCHANGED <<redis, healthy, attempt, history>>

\* Mutant: the retry counter is not advanced.
Retry_Forever(r) ==
    /\ pc[r] = "backoff"
    /\ attempt' = [attempt EXCEPT ![r] = 1]
    /\ Goto(r, "check")
    /\ UNCHANGED <<redis, healthy, again, probe, history>>

\* The sleep ends; the next attempt asks the breaker again.
Retry(r) ==
    /\ pc[r] = "backoff"
    /\ attempt' = [attempt EXCEPT ![r] = @ + 1]
    /\ Goto(r, "check")
    /\ UNCHANGED <<redis, healthy, again, probe, history>>

-----------------------------------------------------------------------------
(* record_success *)

\* GET state
RecordSuccess(r) ==
    /\ pc[r] = "ok"
    /\ Goto(r, IF cb = "half_open" THEN "ok_state" ELSE "ok_reset")
    /\ UNCHANGED <<redis, healthy, attempt, again, probe, history>>

\* DEL state: back to CLOSED, whatever the state has become since it was read.
CloseBreaker(r) ==
    /\ pc[r] = "ok_state"
    /\ cb' = "closed"
    /\ cbTTL' = 0
    /\ Goto(r, "ok_count")
    /\ UNCHANGED <<openedAge, holder, lockTTL, count, countTTL, healthy, attempt,
                   again, probe, history>>

\* DEL failure_count, then the probe lock if this success closed the breaker.
ResetCount(r) ==
    /\ pc[r] \in {"ok_count", "ok_reset"}
    /\ ClearCount
    /\ IF pc[r] = "ok_count"
         THEN Goto(r, "ok_lock") /\ UNCHANGED <<attempt, again, probe>>
         ELSE EndCall(r)
    /\ UNCHANGED <<cb, cbTTL, openedAge, holder, lockTTL, healthy>>

ReleaseProbeLock(r) ==
    /\ pc[r] = "ok_lock"
    /\ DropLock(r)
    /\ Goto(r, "idle")
    /\ attempt' = [attempt EXCEPT ![r] = 1]
    /\ UNCHANGED <<cb, cbTTL, openedAge, count, countTTL, healthy, again, history>>

-----------------------------------------------------------------------------
(* record_failure *)

\* GET state
RecordFailure(r) ==
    /\ pc[r] = "fail"
    /\ probe' = [probe EXCEPT ![r] = "none"]
    /\ Goto(r, IF cb = "half_open" THEN "trip" ELSE "incr")
    /\ UNCHANGED <<redis, healthy, attempt, again, history>>

\* Mutant: every failed attempt of a call counts, not only its last.
CountEveryAttempt(r) ==
    /\ pc[r] = "incr"
    /\ count' = AtMost(count + attempt[r], Threshold)
    /\ counted' = counted \union {r}
    /\ blamed' = IF r \in counted THEN blamed ELSE AtMost(blamed + 1, Threshold)
    /\ Goto(r, IF count' = Threshold THEN "expire_trip" ELSE "expire")
    /\ UNCHANGED <<cb, cbTTL, openedAge, holder, lockTTL, countTTL, healthy,
                   attempt, again, probe>>

\* INCR failure_count; the value it returns decides whether this request opens
\* the breaker.
CountFailure(r) ==
    /\ pc[r] = "incr"
    /\ count' = AtMost(count + 1, Threshold)
    /\ counted' = counted \union {r}
    /\ blamed' = IF r \in counted THEN blamed ELSE AtMost(blamed + 1, Threshold)
    /\ Goto(r, IF count' = Threshold THEN "expire_trip" ELSE "expire")
    /\ UNCHANGED <<cb, cbTTL, openedAge, holder, lockTTL, countTTL, healthy,
                   attempt, again, probe>>

\* record_failure has ended: the second one of an exhausted call, or the error.
AfterFailure(r) ==
    /\ Goto(r, IF again[r] THEN "fail" ELSE "idle")
    /\ again' = [again EXCEPT ![r] = FALSE]
    /\ attempt' = [attempt EXCEPT ![r] = IF again[r] THEN @ ELSE 1]
    /\ counted' = IF again[r] THEN counted ELSE counted \ {r}
    /\ UNCHANGED blamed

\* Mutant: EXPIRE only of a count that is the first.
ExpireFirstCount(r) ==
    /\ pc[r] \in {"expire", "expire_trip"}
    /\ countTTL' = IF count = 1 THEN CountTTL ELSE countTTL
    /\ IF pc[r] = "expire_trip"
         THEN Goto(r, "trip") /\ UNCHANGED <<again, attempt, history>>
         ELSE AfterFailure(r)
    /\ UNCHANGED <<cb, cbTTL, openedAge, holder, lockTTL, count, healthy, probe>>

\* EXPIRE failure_count (it does nothing to a key deleted meanwhile)
ExpireCount(r) ==
    /\ pc[r] \in {"expire", "expire_trip"}
    /\ countTTL' = IF count = 0 THEN 0 ELSE CountTTL
    /\ IF pc[r] = "expire_trip"
         THEN Goto(r, "trip") /\ UNCHANGED <<again, attempt, history>>
         ELSE AfterFailure(r)
    /\ UNCHANGED <<cb, cbTTL, openedAge, holder, lockTTL, count, healthy, probe>>

\* Mutant: SET state OPEN without a TTL.
Trip_NoTTL(r) ==
    /\ pc[r] = "trip"
    /\ cb' = "open"
    /\ cbTTL' = 0
    /\ Goto(r, "stamp")
    /\ UNCHANGED <<openedAge, holder, lockTTL, count, countTTL, healthy, attempt,
                   again, probe, history>>

\* SETEX state OPEN
Trip(r) ==
    /\ pc[r] = "trip"
    /\ SetState("open")
    /\ Goto(r, "stamp")
    /\ UNCHANGED <<openedAge, holder, lockTTL, count, countTTL, healthy, attempt,
                   again, probe, history>>

\* SETEX opened_at: until this command an older opened_at is still there.
StampOpened(r) ==
    /\ pc[r] = "stamp"
    /\ openedAge' = 0
    /\ Goto(r, "unlock")
    /\ UNCHANGED <<cb, cbTTL, holder, lockTTL, count, countTTL, healthy, attempt,
                   again, probe, history>>

\* DEL half_open_probe
TripReleasesLock(r) ==
    /\ pc[r] = "unlock"
    /\ DropLock(r)
    /\ AfterFailure(r)
    /\ UNCHANGED <<cb, cbTTL, openedAge, count, countTTL, healthy>>

\* Redis fails in record_failure, which runs in the handlers of the exceptions
\* and after the loop: its own exception ends the call.  (A command that took
\* effect and whose answer was lost is that command, then this.)
RecordingFails(r) ==
    /\ pc[r] \in {"fail", "incr", "expire", "expire_trip", "trip", "stamp", "unlock"}
    /\ EndCall(r)
    /\ counted' = counted \ {r}
    /\ UNCHANGED <<redis, healthy, blamed>>

-----------------------------------------------------------------------------
(* Redis expiry, the database, and crashes of the gateway *)

Dec(n) == IF n = 0 THEN 0 ELSE n - 1

\* One tick: keys get older and those whose TTL ends disappear.
Tick ==
    /\ cbTTL' = Dec(cbTTL)
    /\ cb' = IF cbTTL = 1 THEN "closed" ELSE cb
    /\ openedAge' = AtMost(openedAge + 1, KeyTTL)
    /\ lockTTL' = Dec(lockTTL)
    /\ holder' = IF lockTTL = 1 THEN None ELSE holder
    /\ probe' = IF lockTTL = 1
                  THEN [r \in Requests |->
                          IF probe[r] = "probing" THEN "lapsed" ELSE probe[r]]
                  ELSE probe
    /\ countTTL' = Dec(countTTL)
    /\ IF countTTL = 1
         THEN count' = 0 /\ counted' = {} /\ blamed' = 0
         ELSE UNCHANGED <<count, history>>
    /\ UNCHANGED <<healthy, pc, attempt, again>>

\* The database or its load changes.
ChangeHealth ==
    /\ healthy' = ~healthy
    /\ UNCHANGED <<redis, pc, attempt, again, probe, history>>

\* The gateway process dies: every call in flight is lost, between any two
\* commands, and Redis keeps what they wrote.
Crash ==
    /\ \E r \in Requests : pc[r] # "idle"
    /\ pc' = [r \in Requests |-> "idle"]
    /\ attempt' = [r \in Requests |-> 1]
    /\ again' = [r \in Requests |-> FALSE]
    /\ probe' = [r \in Requests |-> "none"]
    /\ counted' = {}
    /\ UNCHANGED <<redis, healthy, blamed>>

-----------------------------------------------------------------------------

Init ==
    /\ cb = "closed" /\ cbTTL = 0
    /\ openedAge = KeyTTL
    /\ holder = None /\ lockTTL = 0
    /\ count = 0 /\ countTTL = 0
    /\ healthy = TRUE
    /\ pc = [r \in Requests |-> "idle"]
    /\ attempt = [r \in Requests |-> 1]
    /\ again = [r \in Requests |-> FALSE]
    /\ probe = [r \in Requests |-> "none"]
    /\ counted = {} /\ blamed = 0

\* One step of a call in flight.
Advance(r) ==
    \/ ReadState(r) \/ ReadOpenedAt(r) \/ Promote(r)
    \/ TakeProbeLock(r) \/ LoseProbeLock(r)
    \/ QuerySucceeds(r) \/ QueryFailsAndRetries(r)
    \/ QueryFailsForGood(r) \/ QueryExhaustsRetries(r)
    \/ Retry(r)
    \/ RecordSuccess(r) \/ CloseBreaker(r) \/ ResetCount(r) \/ ReleaseProbeLock(r)
    \/ RecordFailure(r) \/ CountFailure(r) \/ ExpireCount(r)
    \/ Trip(r) \/ StampOpened(r) \/ TripReleasesLock(r)

\* What happens while Redis answers.
Step ==
    \/ \E r \in Requests : StartCall(r) \/ Advance(r)
    \/ Tick
    \/ ChangeHealth
    \/ Crash

Next == Step \/ \E r \in Requests : RecordingFails(r)

\* Time passes, the event loop runs every coroutine that is ready, and a database
\* call ends (wait_for, the pool timeout).  Nothing obliges a client to call, the
\* database to recover, Redis to fail or the gateway to crash.
Fairness ==
    /\ WF_vars(Tick)
    /\ \A r \in Requests : WF_vars(Advance(r))

Spec == Init /\ [][Next]_vars

\* Liveness is stated for a Redis that answers.
FairSpec == Init /\ [][Step]_vars /\ Fairness
-----------------------------------------------------------------------------
(* Properties *)

TypeOK ==
    /\ cb \in States
    /\ cbTTL \in 0..KeyTTL
    /\ openedAge \in 0..KeyTTL
    /\ holder \in Requests \union {None}
    /\ lockTTL \in 0..ProbeTTL
    /\ count \in 0..Threshold
    /\ countTTL \in 0..CountTTL
    /\ healthy \in BOOLEAN
    /\ pc \in [Requests -> Labels]
    /\ attempt \in [Requests -> 1..MaxAttempts]
    /\ again \in [Requests -> BOOLEAN]
    /\ probe \in [Requests -> {"none", "probing", "lapsed", "failed"}]
    /\ counted \in SUBSET Requests
    /\ blamed \in 0..Threshold

\* Every key that blocks traffic expires by itself: a breaker that is not closed
\* and a lock that is held have a TTL running, whatever crashed or interleaved
\* (SETEX and SET EX, never SET followed by EXPIRE).
BlockingKeysExpire ==
    /\ cb # "closed" <=> cbTTL > 0
    /\ holder # None <=> lockTTL > 0

\* The lock of check_circuit_breaker ("allow only one probe request at a time",
\* line 50) does exclude: two recovery probes are in the database together only
\* if one of them outlived the lock or had it deleted under it by another
\* request (the deletes of record_success and record_failure ask no owner).
UndisturbedProbeIsAlone ==
    \A p, q \in Requests :
        probe[p] = "probing" /\ probe[q] = "probing" => p = q

\* However calls interleave with resets and expiry, one failed call adds at most
\* two to failure_count (one in the attempt loop, one after it), so the breaker
\* never opens from fewer than half the threshold of failed calls.
AtMostTwoPerCall == count <= 2 * blamed

\* A failure count without a TTL that no call is about to set: the failures of
\* one day would count as consecutive with those of another.
CountIsForgotten ==
    count > 0 /\ countTTL = 0 /\ \A r \in Requests : pc[r] \notin {"expire", "expire_trip"}

\* However the INCR and EXPIRE of several calls, the DEL of successes and expiry
\* interleave, a count is left without its 60 s only when a process or Redis
\* failed between the two commands of a call (circuit_breaker.py:111-112).
OnlyBrokenCallsForgetCount ==
    [][~CountIsForgotten /\ CountIsForgotten' =>
          Crash \/ \E r \in Requests : RecordingFails(r)]_vars

\* An open breaker does not stay open: after the cooldown a request tests the
\* database, and with no request, or after a crash that left no opened_at, the
\* key expires.
OpenEnds == cb = "open" ~> cb # "open"

\* Every call of execute_with_timeout ends: the retries are bounded and none of
\* them waits for another request.
CallsEnd == \A r \in Requests : pc[r] # "idle" ~> pc[r] = "idle"

\* Once the database answers every query for good, the breaker closes for good:
\* no late result, leftover lock or stale promotion of an earlier call keeps
\* traffic blocked.
Recovers == <>[]healthy => <>[](cb = "closed")
=============================================================================
