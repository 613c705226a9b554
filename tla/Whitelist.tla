------------------------------ MODULE Whitelist ------------------------------
(***************************************************************************)
(* The whitelist mode: only queries whose fingerprint an administrator has *)
(* approved run (src/gateway/routers/v1/query.py:251-288 and               *)
(* routers/v1/admin.py:313-409), here for one fingerprint.  The approval   *)
(* is a row of query_whitelist; Redis holds a copy of it for a day, which  *)
(* is what queries ask first.  Row and copy are changed one after the      *)
(* other, by administrators and by the queries themselves.                 *)
(*                                                                         *)
(* The layers of the pipeline around the whitelist keep no state that it   *)
(* reads; each of them lets a request on or refuses it.  Time is counted   *)
(* in ticks; CopyTTL of them are 24 hours.                                 *)
(***************************************************************************)
EXTENDS Naturals

CONSTANTS
    Queries,    \* queries in flight, all of the one fingerprint
    Admins,     \* administrators' requests in flight
    CopyTTL     \* SETEX argus:whitelist:<fingerprint> 86400

ASSUME CopyTTLOK == CopyTTL \in Nat \ {0}

VARIABLES
    row,    \* query_whitelist has the fingerprint
    copy,   \* the remaining TTL of its key in Redis; 0: there is none
    stage,  \* where each query is
    op,     \* where each administrator's request is
    late    \* history: the copy outlives its row for a cause that has passed

whitelistVars == <<row, copy, stage, op, late>>

Stages == {"idle", "validate", "permit", "copy", "row", "fill", "run"}

Advance(r, label) == stage' = [stage EXCEPT ![r] = label]

Refuse(r) == Advance(r, "idle")

\* SETEX; a copy of a row that is not there any more is late.
SetCopy ==
    /\ copy' = CopyTTL
    /\ late' = ~row

-----------------------------------------------------------------------------
(* execute_query, up to the cache *)

Submit(r) ==
    /\ stage[r] = "idle"
    /\ Advance(r, "validate")
    /\ UNCHANGED <<row, copy, op, late>>

\* validate_query: the type of the query, then the injection patterns.
Validate(r) ==
    /\ stage[r] = "validate"
    /\ Advance(r, "permit") \/ Refuse(r)
    /\ UNCHANGED <<row, copy, op, late>>

\* Honeypot, sensitive fields, rate limit, role, hours, operation and the
\* scope of an API key.
Permit(r) ==
    /\ stage[r] = "permit"
    /\ Advance(r, "copy") \/ Refuse(r)
    /\ UNCHANGED <<row, copy, op, late>>

\* Mutant: a hit gives the key a new day.
ReadCopySliding(r) ==
    /\ stage[r] = "copy"
    /\ Advance(r, IF copy > 0 THEN "run" ELSE "row")
    /\ copy' = IF copy > 0 THEN CopyTTL ELSE 0
    /\ UNCHANGED <<row, op, late>>

\* EXISTS; when Redis fails the request does.
ReadCopy(r) ==
    /\ stage[r] = "copy"
    /\ Advance(r, IF copy > 0 THEN "run" ELSE "row") \/ Refuse(r)
    /\ UNCHANGED <<row, copy, op, late>>

\* The row.  An exception is logged and counts as "not approved".
ReadRow(r) ==
    /\ stage[r] = "row"
    /\ (row /\ Advance(r, "fill")) \/ Refuse(r)
    /\ UNCHANGED <<row, copy, op, late>>

\* Mutant: one tick too long.
FillLong(r) ==
    /\ stage[r] = "fill"
    /\ copy' = CopyTTL + 1
    /\ late' = ~row
    /\ Advance(r, "run")
    /\ UNCHANGED <<row, op>>

Fill(r) ==
    /\ stage[r] = "fill"
    /\ SetCopy
    /\ Advance(r, "run")
    /\ UNCHANGED <<row, op>>

\* SETEX fails: the same except clause, so an approved query is refused.
FillFails(r) ==
    /\ stage[r] = "fill"
    /\ Refuse(r)
    /\ UNCHANGED <<row, copy, op, late>>

\* The rest of the pipeline.
RunQuery(r) ==
    /\ stage[r] = "run"
    /\ Advance(r, "idle")
    /\ UNCHANGED <<row, copy, op, late>>

-----------------------------------------------------------------------------
(* Administration *)

\* add_to_whitelist finds no row (otherwise it answers "exists") ...
Approve(a) ==
    /\ op[a] = "idle"
    /\ ~row
    /\ op' = [op EXCEPT ![a] = "insert"]
    /\ UNCHANGED <<row, copy, stage, late>>

\* ... and commits one, or fails on the unique index when another did.
InsertApproval(a) ==
    /\ op[a] = "insert"
    /\ row' = TRUE
    /\ op' = [op EXCEPT ![a] = IF row THEN "idle" ELSE "cache"]
    /\ late' = FALSE
    /\ UNCHANGED <<copy, stage>>

CacheApproval(a) ==
    /\ op[a] = "cache"
    /\ SetCopy
    /\ op' = [op EXCEPT ![a] = "idle"]
    /\ UNCHANGED <<row, stage>>

\* Mutant: the key is left to expire.
DeleteQuietly(a) ==
    /\ op[a] = "delete"
    /\ row' = FALSE
    /\ op' = [b \in Admins |-> IF b = a THEN "idle"
                              ELSE IF op[b] = "delete" THEN "miss" ELSE op[b]]
    /\ UNCHANGED <<copy, stage, late>>

\* remove_from_whitelist loads the row (404 without one) ...
Withdraw(a) ==
    /\ op[a] = "idle"
    /\ row
    /\ op' = [op EXCEPT ![a] = "delete"]
    /\ UNCHANGED <<row, copy, stage, late>>

\* ... and commits a DELETE by its id, so that whoever loaded the same row
\* deletes nothing any more, also when the fingerprint is approved anew ...
DeleteApproval(a) ==
    /\ op[a] = "delete"
    /\ row' = FALSE
    /\ op' = [b \in Admins |-> IF b = a THEN "forget"
                              ELSE IF op[b] = "delete" THEN "miss" ELSE op[b]]
    /\ UNCHANGED <<copy, stage, late>>

\* ... but goes on to delete the copy: a DELETE that matches no row is a warning.
DeleteNothing(a) ==
    /\ op[a] = "miss"
    /\ op' = [op EXCEPT ![a] = "forget"]
    /\ UNCHANGED <<row, copy, stage, late>>

ForgetApproval(a) ==
    /\ op[a] = "forget"
    /\ copy' = 0
    /\ late' = FALSE
    /\ op' = [op EXCEPT ![a] = "idle"]
    /\ UNCHANGED <<row, stage>>

-----------------------------------------------------------------------------

\* The database or Redis fails, or the gateway stops; a copy whose DEL is lost
\* stays.
LoseCommand(a) ==
    /\ op[a] # "idle"
    /\ late' = (late \/ (op[a] = "forget" /\ copy > 0 /\ ~row))
    /\ op' = [op EXCEPT ![a] = "idle"]
    /\ UNCHANGED <<row, copy, stage>>

Tick ==
    /\ copy > 0
    /\ copy' = copy - 1
    /\ late' = (late /\ copy > 1)
    /\ UNCHANGED <<row, stage, op>>

WhitelistInit ==
    /\ row = FALSE
    /\ copy = 0
    /\ stage = [r \in Queries |-> "idle"]
    /\ op = [a \in Admins |-> "idle"]
    /\ late = FALSE

WhitelistNext ==
    \/ \E r \in Queries :
          \/ Submit(r)
          \/ Validate(r)
          \/ Permit(r)
          \/ ReadCopy(r)
          \/ ReadRow(r)
          \/ Fill(r)
          \/ FillFails(r)
          \/ RunQuery(r)
    \/ \E a \in Admins :
          \/ Approve(a)
          \/ InsertApproval(a)
          \/ CacheApproval(a)
          \/ Withdraw(a)
          \/ DeleteApproval(a)
          \/ DeleteNothing(a)
          \/ ForgetApproval(a)
          \/ LoseCommand(a)
    \/ Tick

\* Redis expires what it holds; nobody needs to do anything else.
WhitelistSpec == WhitelistInit /\ [][WhitelistNext]_whitelistVars /\ WF_whitelistVars(Tick)

-----------------------------------------------------------------------------
(* Properties *)

WhitelistTypeOK ==
    /\ row \in BOOLEAN
    /\ copy \in 0..CopyTTL
    /\ stage \in [Queries -> Stages]
    /\ op \in [Admins -> {"idle", "insert", "cache", "delete", "miss", "forget"}]
    /\ late \in BOOLEAN

\* However queries and administrators interleave, a withdrawn approval is still
\* in Redis only because its DEL is about to run, because the DEL was lost, or
\* because someone who had seen the row wrote the key after it was gone
\* (query.py:272, admin.py:344 and 406).
ApprovalsHaveACause ==
    copy > 0 /\ ~row => late \/ \E a \in Admins : op[a] = "forget"

\* Even then it ends: an approval that stays withdrawn leaves Redis for good,
\* though queries keep asking for it (setex 86400 is not renewed by a hit).
WithdrawnApprovalsEnd == <>[](~row) => <>[](copy = 0)

=============================================================================
