------------------------------ MODULE Lockout ------------------------------
(***************************************************************************)
(* The lockout of an account after failed logins:                          *)
(* src/gateway/middleware/security/brute_force.py and the login handler of *)
(* src/gateway/routers/v1/auth.py, for one username.                       *)
(*                                                                         *)
(* Two counters guard a login, one for the (address, username) pair and    *)
(* one for the username.  Each is a Redis key that INCR creates and a      *)
(* second command, EXPIRE, gives its lifetime; every Redis command is an   *)
(* action, because another login can run during its await.  The password   *)
(* check is synchronous: it belongs to the step of the database answer.    *)
(* Counters of other usernames are other keys, so one username is enough.  *)
(***************************************************************************)
EXTENDS Naturals, FiniteSets

CONSTANTS
    Logins,       \* login requests, one call at a time
    Addresses,    \* client addresses
    Account,      \* stands for the counter of the username
    None,
    MaxAttempts,  \* settings.brute_force_max_attempts
    LockTTL       \* settings.brute_force_lockout_minutes, in ticks

ASSUME LockoutConstantsOK ==
    /\ IsFiniteSet(Logins)
    /\ Account \notin Addresses
    /\ None \notin Addresses
    /\ MaxAttempts \in Nat \ {0}
    /\ LockTTL \in Nat \ {0}

Keys == Addresses \cup {Account}

VARIABLES
    n,        \* value of each counter, 0 when the key is absent
    ttl,      \* its remaining lifetime, 0 when absent or when it has none
    user,     \* the row of the username
    pc,       \* where each login is
    from,     \* the address it comes from, None between logins
    held,     \* check_brute_force found the counter of its address at the limit
    orphans   \* history: counters whose EXPIRE was lost with its request

counters == <<n, ttl, orphans>>
vars == <<n, ttl, user, pc, from, held, orphans>>

Labels == {"idle", "account", "lookup", "count_addr", "expire_addr",
           "count_acct", "expire_acct", "clear_addr", "clear_acct"}

Goto(l, label) == pc' = [pc EXCEPT ![l] = label]

\* The handler answers: 423, 403, 401, 500 or a token.
Answer(l) ==
    /\ Goto(l, "idle")
    /\ from' = [from EXCEPT ![l] = None]
    /\ held' = [held EXCEPT ![l] = FALSE]

\* The counter whose EXPIRE is the next command of l
Owes(l, k) ==
    \/ pc[l] = "expire_addr" /\ k = from[l]
    \/ pc[l] = "expire_acct" /\ k = Account

-----------------------------------------------------------------------------
(* Redis commands *)

\* Mutant: the comparison lets one attempt more through.
FullLate(k) == n[k] > MaxAttempts

Full(k) == n[k] >= MaxAttempts

\* record_failed_attempt goes from the address to the account to the 401.
Counted(l, k) ==
    IF k = Account
      THEN Answer(l)
      ELSE Goto(l, "count_acct") /\ UNCHANGED <<from, held>>

\* Mutant: the lifetime is set on the second failure, with count == 2.
CountSecond(l, k, owing) ==
    /\ n' = [n EXCEPT ![k] = @ + 1]
    /\ IF n[k] = 1 THEN Goto(l, owing) /\ UNCHANGED <<from, held>>
                    ELSE Counted(l, k)
    /\ UNCHANGED <<ttl, orphans>>

\* Mutant: the counter of the username gets no lifetime.
CountOnlyAddressExpires(l, k, owing) ==
    /\ n' = [n EXCEPT ![k] = @ + 1]
    /\ IF n[k] = 0 /\ k # Account THEN Goto(l, owing) /\ UNCHANGED <<from, held>>
                                  ELSE Counted(l, k)
    /\ UNCHANGED <<ttl, orphans>>

\* INCR k; EXPIRE follows only when the counter is new.
Count(l, k, owing) ==
    /\ n' = [n EXCEPT ![k] = @ + 1]
    /\ IF n[k] = 0 THEN Goto(l, owing) /\ UNCHANGED <<from, held>>
                    ELSE Counted(l, k)
    /\ UNCHANGED <<ttl, orphans>>

\* Mutant: the minutes of the setting are multiplied by sixty twice.
SetExpirySeconds(k) ==
    /\ ttl' = [ttl EXCEPT ![k] = IF n[k] > 0 THEN 60 * LockTTL ELSE 0]
    /\ orphans' = orphans \ {k}
    /\ n' = n

\* EXPIRE k: nothing when the key is gone
SetExpiry(k) ==
    /\ ttl' = [ttl EXCEPT ![k] = IF n[k] > 0 THEN LockTTL ELSE 0]
    /\ orphans' = orphans \ {k}
    /\ n' = n

\* DEL k
Clear(k) ==
    /\ n' = [n EXCEPT ![k] = 0]
    /\ ttl' = [ttl EXCEPT ![k] = 0]
    /\ orphans' = orphans \ {k}

-----------------------------------------------------------------------------
(* login *)

\* GET of the address counter: the value is kept over the next await.
ReadAddressCount(l, a) ==
    /\ pc[l] = "idle"
    /\ from' = [from EXCEPT ![l] = a]
    /\ held' = [held EXCEPT ![l] = Full(a)]
    /\ Goto(l, "account")
    /\ UNCHANGED <<counters, user>>

\* GET of the account counter: 423 when either count is at the limit, after a
\* TTL command that only words the answer
ReadAccountCount(l) ==
    /\ pc[l] = "account"
    /\ IF Full(Account) \/ held[l]
         THEN Answer(l)
         ELSE Goto(l, "lookup") /\ UNCHANGED <<from, held>>
    /\ UNCHANGED <<counters, user>>

\* The row of the user, its is_active flag and the password, in this order.
\* A disabled account answers 403 and the attempt is not counted.
Verify(l, right) ==
    /\ pc[l] = "lookup"
    /\ \/ user = "disabled" /\ Answer(l)
       \/ /\ user = "missing" \/ (user = "active" /\ ~right)
          /\ Goto(l, "count_addr")
          /\ UNCHANGED <<from, held>>
       \/ /\ user = "active" /\ right
          /\ Goto(l, "clear_addr")
          /\ UNCHANGED <<from, held>>
    /\ UNCHANGED <<counters, user>>

\* record_failed_attempt: INCR, EXPIRE of the address, INCR, EXPIRE of the account
CountAddress(l) ==
    /\ pc[l] = "count_addr"
    /\ Count(l, from[l], "expire_addr")
    /\ user' = user

ExpireAddress(l) ==
    /\ pc[l] = "expire_addr"
    /\ SetExpiry(from[l])
    /\ Counted(l, from[l])
    /\ user' = user

CountAccount(l) ==
    /\ pc[l] = "count_acct"
    /\ Count(l, Account, "expire_acct")
    /\ user' = user

ExpireAccount(l) ==
    /\ pc[l] = "expire_acct"
    /\ SetExpiry(Account)
    /\ Counted(l, Account)
    /\ user' = user

\* record_successful_attempt, then the token
ClearAddress(l) ==
    /\ pc[l] = "clear_addr"
    /\ Clear(from[l])
    /\ Goto(l, "clear_acct")
    /\ UNCHANGED <<user, from, held>>

ClearAccount(l) ==
    /\ pc[l] = "clear_acct"
    /\ Clear(Account)
    /\ Answer(l)
    /\ user' = user

LoginStep(l) ==
    \/ ReadAccountCount(l)
    \/ \E right \in BOOLEAN : Verify(l, right)
    \/ CountAddress(l)
    \/ ExpireAddress(l)
    \/ CountAccount(l)
    \/ ExpireAccount(l)
    \/ ClearAddress(l)
    \/ ClearAccount(l)

-----------------------------------------------------------------------------
(* The rest of the system *)

\* Counters that stay without a lifetime when the logins in lost are gone
Stranded(lost) ==
    {k \in Keys : n[k] > 0 /\ ttl[k] = 0 /\ \E l \in lost : Owes(l, k)}

\* Redis or the database raises: the handler answers 500 where it stands.
Break(l) ==
    /\ pc[l] # "idle"
    /\ orphans' = orphans \cup Stranded({l})
    /\ Answer(l)
    /\ UNCHANGED <<n, ttl, user>>

\* The gateway stops; Redis keeps the counters.
Crash ==
    /\ \E l \in Logins : pc[l] # "idle"
    /\ orphans' = orphans \cup Stranded(Logins)
    /\ pc' = [l \in Logins |-> "idle"]
    /\ from' = [l \in Logins |-> None]
    /\ held' = [l \in Logins |-> FALSE]
    /\ UNCHANGED <<n, ttl, user>>

\* register, delete_user, or an is_active flag changed in the database
ChangeUser(state) ==
    /\ user # state
    /\ user' = state
    /\ UNCHANGED <<counters, pc, from, held>>

\* One unit of time: lifetimes run down and expired counters vanish.
Tick ==
    /\ \E k \in Keys : ttl[k] > 0
    /\ n' = [k \in Keys |-> IF ttl[k] = 1 THEN 0 ELSE n[k]]
    /\ ttl' = [k \in Keys |-> IF ttl[k] > 0 THEN ttl[k] - 1 ELSE 0]
    /\ UNCHANGED <<user, pc, from, held, orphans>>

UserStates == {"active", "disabled", "missing"}

Init ==
    /\ n = [k \in Keys |-> 0]
    /\ ttl = [k \in Keys |-> 0]
    /\ user \in UserStates
    /\ pc = [l \in Logins |-> "idle"]
    /\ from = [l \in Logins |-> None]
    /\ held = [l \in Logins |-> FALSE]
    /\ orphans = {}

Next ==
    \/ \E l \in Logins :
          \/ \E a \in Addresses : ReadAddressCount(l, a)
          \/ LoginStep(l)
          \/ Break(l)
    \/ Crash
    \/ \E state \in UserStates : ChangeUser(state)
    \/ Tick

\* A login that has begun goes on to its answer, and time passes.  Nobody
\* has to log in, and neither failures nor crashes have to happen.
Fairness ==
    /\ \A l \in Logins : WF_vars(LoginStep(l))
    /\ WF_vars(Tick)

Spec == Init /\ [][Next]_vars /\ Fairness

-----------------------------------------------------------------------------
(* Properties *)

TypeOK ==
    /\ n \in [Keys -> Nat]
    /\ ttl \in [Keys -> 0..LockTTL]
    /\ user \in UserStates
    /\ pc \in [Logins -> Labels]
    /\ from \in [Logins -> Addresses \cup {None}]
    /\ held \in [Logins -> BOOLEAN]
    /\ orphans \subseteq Keys

\* A counter that is set has a lifetime, or a request is about to give it
\* one, or the request that owed it broke off between INCR and EXPIRE: no
\* interleaving of logins, of the DEL of a successful login with the INCR of
\* a failing one, or of an expiry with either, leaves a counter that locks
\* the user out for ever (brute_force.py:53-60).
LockoutsExpire ==
    \A k \in Keys :
        n[k] > 0 /\ ttl[k] = 0 => k \in orphans \/ \E l \in Logins : Owes(l, k)

\* Logins that have passed the check of counter k and may still raise it
Passed(k) ==
    {l \in Logins :
        IF k = Account
          THEN pc[l] \in {"lookup", "count_addr", "expire_addr", "count_acct"}
          ELSE from[l] = k /\ ~held[l]
               /\ pc[l] \in {"account", "lookup", "count_addr"}}

\* The check and the count are apart, so logins in flight can overshoot the
\* limit, but each by one: a counter never exceeds MaxAttempts - 1 plus the
\* number of concurrent logins (check_brute_force before, and
\* record_failed_attempt after the password check).
GuessesBounded ==
    \A k \in Keys : n[k] < MaxAttempts + Cardinality(Logins)

\* A counter at the limit goes away: the lock ends, unless the EXPIRE of the
\* counter was lost (the lockout of brute_force.py:51-60).
LockoutEnds ==
    \A k \in Keys : Full(k) ~> (n[k] = 0 \/ k \in orphans)

=============================================================================
