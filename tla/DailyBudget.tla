---------------------------- MODULE DailyBudget ----------------------------
(***************************************************************************)
(* What check_budget (src/gateway/middleware/performance/budget.py)        *)
(* promises the pipeline: what a user is charged on one date stays within  *)
(* the daily limit, and the sum restarts at midnight UTC or in the second  *)
(* before it, never during the day.  QueryPipeline implements it with one  *)
(* Redis key per user and date.                                            *)
(***************************************************************************)
EXTENDS Naturals

CONSTANTS
    Users,   \* users with a budget: an admin has none
    Costs,   \* costs that EXPLAIN may estimate
    Limit    \* settings.daily_budget_default

VARIABLES
    used,     \* used[u]: what u was charged since the last restart
    closing   \* the date is in its last second

vars == <<used, closing>>

Init ==
    /\ used = [u \in Users |-> 0]
    /\ closing = FALSE

\* The Lua script: check and deduct in one step.
Charge(u, c) ==
    /\ used[u] + c <= Limit
    /\ used' = [used EXCEPT ![u] = @ + c]
    /\ UNCHANGED closing

\* int(seconds_until_midnight) lets the key expire up to a second early.
Restart(u) ==
    /\ closing
    /\ used' = [used EXCEPT ![u] = 0]
    /\ UNCHANGED closing

LastSecond ==
    /\ ~closing
    /\ closing' = TRUE
    /\ UNCHANGED used

Midnight ==
    /\ closing
    /\ closing' = FALSE
    /\ used' = [u \in Users |-> 0]

Next ==
    \/ \E u \in Users : Restart(u) \/ \E c \in Costs : Charge(u, c)
    \/ LastSecond
    \/ Midnight

Spec == Init /\ [][Next]_vars
=============================================================================
