------------------------------- MODULE Access -------------------------------
(***************************************************************************)
(* Tokens and API keys of one user: create_jwt and get_current_user of     *)
(* src/gateway/middleware/security/auth.py, the register, login and        *)
(* refresh handlers of routers/v1/auth.py, and delete_user of admin.py.    *)
(*                                                                         *)
(* A token carries a role and is checked without the database; an API key  *)
(* is looked up in the database and copied to Redis.  Both keep rights     *)
(* alive after the row they were read from has changed, and a request that *)
(* read the row before a change may still write its token or copy after    *)
(* it.  Each action is one database or Redis answer with the Python up to  *)
(* the next await.  Using a valid token or a cached key changes nothing    *)
(* and is no action; logout only deletes the cookie of one browser.  The   *)
(* password check and its counters are module Lockout.                     *)
(***************************************************************************)
EXTENDS Integers, FiniteSets

CONSTANTS
    Requests,   \* requests that authenticate, one at a time
    Roles,      \* Role of models/user.py
    Readonly,   \* the role register gives
    Life,       \* settings.jwt_expiry_minutes, in ticks
    Grace,      \* _REFRESH_GRACE_SECONDS
    KeyTTL,     \* lifetime of a cached API key (3600 s)
    MaxTokens,  \* bound: tokens that exist at a time
    Horizon,    \* ages of changes are not counted past this bound
    None

ASSUME AccessConstantsOK ==
    /\ Readonly \in Roles
    /\ None \notin Roles
    /\ Life \in Nat \ {0}
    /\ Grace \in Nat
    /\ KeyTTL \in Nat \ {0}
    /\ MaxTokens \in Nat
    /\ Horizon \in Nat

VARIABLES
    state,   \* the user's row: never registered, active, disabled, deleted
    role,    \* its role
    keyRow,  \* the row of the API key exists
    since,   \* history: age of the last change of these, at most Horizon
    tokens,  \* tokens that can still be refreshed
    copy,    \* apikey:<hash> in Redis, or None
    pc,      \* where each request is
    row,     \* the role it read
    stale    \* history: something changed since the request read it

rows == <<state, role, keyRow, since>>
local == <<pc, row, stale>>
vars == <<rows, tokens, copy, local>>

\* left counts down over the lifetime and then the grace period; late marks
\* what was written from a row that changed after it was read.
Tokens == [role : Roles, left : 1..(Life + Grace), late : BOOLEAN]
Copies == [role : Roles, ttl : 1..KeyTTL, late : BOOLEAN]

Valid(t) == t.left > Grace

Labels == {"idle", "insert", "reread", "issue", "key_row", "key_user", "key_cache"}

\* Requests that have read something a change can make stale
Reading(q) == pc[q] \in {"issue", "key_user", "key_cache"}

Goto(q, label) == pc' = [pc EXCEPT ![q] = label]

Answer(q) ==
    /\ Goto(q, "idle")
    /\ row' = [row EXCEPT ![q] = None]
    /\ stale' = [stale EXCEPT ![q] = FALSE]

ReadRole(q, label, overtaken) ==
    /\ row' = [row EXCEPT ![q] = role]
    /\ stale' = [stale EXCEPT ![q] = overtaken]
    /\ Goto(q, label)

-----------------------------------------------------------------------------
(* register, login, refresh *)

\* register finds the name free ...
RegisterCheck(q) ==
    /\ pc[q] = "idle"
    /\ state = "new"
    /\ Goto(q, "insert")
    /\ UNCHANGED <<rows, tokens, copy, row, stale>>

\* ... inserts it, or fails on the unique index (500) ...
RegisterInsert(q) ==
    /\ pc[q] = "insert"
    /\ IF state = "new"
         THEN /\ state' = "active"
              /\ role' = Readonly
              /\ since' = 0
              /\ Goto(q, "reread")
              /\ UNCHANGED <<row, stale>>
         ELSE Answer(q) /\ UNCHANGED <<state, role, since>>
    /\ UNCHANGED <<keyRow, tokens, copy>>

\* ... and reads the row back (session.refresh), which fails when it is gone.
\* is_active is not looked at: that it is active is what register knows from its
\* own insert, and a disabled user's token is made from a row that has changed.
RegisterReread(q) ==
    /\ pc[q] = "reread"
    /\ IF state = "deleted" THEN Answer(q) ELSE ReadRole(q, "issue", state # "active")
    /\ UNCHANGED <<rows, tokens, copy>>

\* login finds the row active and the password right; the counters of the
\* lockout are cleared before the token is made.
Login(q) ==
    /\ pc[q] = "idle"
    /\ state = "active"
    /\ ReadRole(q, "issue", FALSE)
    /\ UNCHANGED <<rows, tokens, copy>>

\* Mutant: the claims of the old token are trusted, as on every other request.
RefreshFromClaims(q, t) ==
    /\ pc[q] = "idle"
    /\ row' = [row EXCEPT ![q] = t.role]
    /\ Goto(q, "issue")
    /\ UNCHANGED <<rows, tokens, copy, stale>>

\* Mutant: is_active is not looked at.
RefreshDisabled(q, t) ==
    /\ pc[q] = "idle"
    /\ state \in {"active", "disabled"}
    /\ ReadRole(q, "issue", FALSE)
    /\ UNCHANGED <<rows, tokens, copy>>

\* refresh takes any token up to the end of its grace period and asks the
\* database: 401 for a deleted user, 403 for a disabled one.
Refresh(q, t) ==
    /\ pc[q] = "idle"
    /\ t.left > 0
    /\ state = "active"
    /\ ReadRole(q, "issue", FALSE)
    /\ UNCHANGED <<rows, tokens, copy>>

\* Mutant: the lifetime is added twice.
IssueLong(q) ==
    /\ pc[q] = "issue"
    /\ Cardinality(tokens) < MaxTokens
    /\ tokens' = tokens \cup
          {[role |-> row[q], left |-> 2 * Life + Grace, late |-> stale[q]]}
    /\ Answer(q)
    /\ UNCHANGED <<rows, copy>>

\* create_jwt with the role that was read
Issue(q) ==
    /\ pc[q] = "issue"
    /\ Cardinality(tokens) < MaxTokens
    /\ tokens' = tokens \cup
          {[role |-> row[q], left |-> Life + Grace, late |-> stale[q]]}
    /\ Answer(q)
    /\ UNCHANGED <<rows, copy>>

-----------------------------------------------------------------------------
(* The API key branch of get_current_user *)

\* Mutant: a hit renews the lifetime of the copy.
KeyLookupSliding(q) ==
    /\ pc[q] = "idle"
    /\ IF copy = None
         THEN Goto(q, "key_row") /\ copy' = copy
         ELSE pc' = pc /\ copy' = [copy EXCEPT !.ttl = KeyTTL]
    /\ UNCHANGED <<rows, tokens, row, stale>>

\* GET of the copy misses, or Redis fails, and the database is asked.
KeyLookup(q) ==
    /\ pc[q] = "idle"
    /\ Goto(q, "key_row")
    /\ UNCHANGED <<rows, tokens, copy, row, stale>>

\* The row of the key: 401 without one.  Its is_active and expires_at are
\* not looked at.
KeyRow(q) ==
    /\ pc[q] = "key_row"
    /\ IF keyRow THEN Goto(q, "key_user") /\ UNCHANGED <<row, stale>>
                 ELSE Answer(q)
    /\ UNCHANGED <<rows, tokens, copy>>

\* The row of its user: 401 without one; is_active is not looked at.
KeyUser(q) ==
    /\ pc[q] = "key_user"
    /\ IF state \in {"active", "disabled"} THEN ReadRole(q, "key_cache", stale[q])
                                           ELSE Answer(q)
    /\ UNCHANGED <<rows, tokens, copy>>

\* SETEX of the copy.  An error of Redis is ignored: that is Break.
KeyCache(q) ==
    /\ pc[q] = "key_cache"
    /\ copy' = [role |-> row[q], ttl |-> KeyTTL, late |-> stale[q]]
    /\ Answer(q)
    /\ UNCHANGED <<rows, tokens>>

Step(q) ==
    \/ RegisterInsert(q)
    \/ RegisterReread(q)
    \/ Issue(q)
    \/ KeyRow(q)
    \/ KeyUser(q)
    \/ KeyCache(q)

\* A command fails, or the gateway stops; tokens and Redis stay.
Break(q) ==
    /\ pc[q] # "idle"
    /\ Answer(q)
    /\ UNCHANGED <<rows, tokens, copy>>

-----------------------------------------------------------------------------
(* Changes of the rows, and time *)

Changed ==
    /\ since' = 0
    /\ stale' = [q \in Requests |-> Reading(q)]
    /\ UNCHANGED <<tokens, copy, pc, row>>

\* delete_user
DeleteUser ==
    /\ state \in {"active", "disabled"}
    /\ state' = "deleted"
    /\ Changed
    /\ UNCHANGED <<role, keyRow>>

\* The role, the is_active flag and the API keys have no endpoint: an
\* operator changes them in the database.
ChangeRole(r) ==
    /\ state \in {"active", "disabled"}
    /\ role # r
    /\ role' = r
    /\ Changed
    /\ UNCHANGED <<state, keyRow>>

ChangeActive ==
    /\ \/ state = "active" /\ state' = "disabled"
       \/ state = "disabled" /\ state' = "active"
    /\ Changed
    /\ UNCHANGED <<role, keyRow>>

ChangeKey ==
    /\ keyRow' = ~keyRow
    /\ Changed
    /\ UNCHANGED <<state, role>>

Older(t) == [t EXCEPT !.left = @ - 1]

Tick ==
    /\ since < Horizon \/ tokens # {} \/ copy # None
    /\ since' = IF since < Horizon THEN since + 1 ELSE since
    /\ tokens' = {Older(t) : t \in {u \in tokens : u.left > 1}}
    /\ copy' = IF copy = None \/ copy.ttl = 1
                 THEN None ELSE [copy EXCEPT !.ttl = @ - 1]
    /\ UNCHANGED <<state, role, keyRow, local>>

Init ==
    /\ state \in {"new", "active"}
    /\ role = Readonly
    /\ keyRow = (state = "active")
    /\ since = 0
    /\ tokens = {}
    /\ copy = None
    /\ pc = [q \in Requests |-> "idle"]
    /\ row = [q \in Requests |-> None]
    /\ stale = [q \in Requests |-> FALSE]

Next ==
    \/ \E q \in Requests :
          \/ RegisterCheck(q)
          \/ Login(q)
          \/ \E t \in tokens : Refresh(q, t)
          \/ KeyLookup(q)
          \/ Step(q)
          \/ Break(q)
    \/ DeleteUser
    \/ \E r \in Roles : ChangeRole(r)
    \/ ChangeActive
    \/ ChangeKey
    \/ Tick

\* Time passes and a request that has begun goes on.
Fairness ==
    /\ WF_vars(Tick)
    /\ \A q \in Requests : WF_vars(Step(q))

Spec == Init /\ [][Next]_vars /\ Fairness

-----------------------------------------------------------------------------
(* Properties *)

TypeOK ==
    /\ state \in {"new", "active", "disabled", "deleted"}
    /\ role \in Roles
    /\ keyRow \in BOOLEAN
    /\ since \in 0..Horizon
    /\ tokens \subseteq Tokens
    /\ copy \in Copies \cup {None}
    /\ pc \in [Requests -> Labels]
    /\ row \in [Requests -> Roles \cup {None}]
    /\ stale \in [Requests -> BOOLEAN]

\* A valid token that no longer agrees with the user's row ends within one
\* lifetime of the change, however often it or its successors are refreshed,
\* unless the request that made it had read the row before the change
\* (get_current_user, auth.py:145-155, never asks; refresh does).
RightsFade ==
    \A t \in tokens :
        Valid(t) /\ (state # "active" \/ t.role # role) =>
            t.late \/ t.left - Grace + since <= Life

\* The same of the Redis copy of an API key: it outlives the key, its user or
\* the role by at most its lifetime, unless it was written by a request that
\* had read the rows before the change (auth.py:164-227).
KeyCopiesFade ==
    copy # None /\ (~keyRow \/ state = "deleted" \/ copy.role # role) =>
        copy.late \/ copy.ttl + since <= KeyTTL

\* Once a user is deleted or disabled for good, no valid token is left from
\* some time on, and a deleted user leaves no copy of an API key either.
WithdrawnAccessEnds ==
    /\ <>[](state \in {"disabled", "deleted"}) => <>[](\A t \in tokens : ~Valid(t))
    /\ <>[](state = "deleted") => <>[](copy = None)

=============================================================================
