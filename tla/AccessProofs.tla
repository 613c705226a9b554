---------------------------- MODULE AccessProofs ----------------------------
(***************************************************************************)
(* What Access promises for any lifetimes, roles and number of requests:   *)
(* rights that were withdrawn end with the token or the copy that carries  *)
(* them, one lifetime later at most.                                       *)
(***************************************************************************)
EXTENDS Access, TLAPS

-----------------------------------------------------------------------------
(* The inductive invariant *)

\* A request whose view no change has overtaken holds what the rows say.
ViewsAreCurrent ==
    \A q \in Requests :
        /\ pc[q] = "issue" => row[q] \in Roles /\ (stale[q] \/ (state = "active" /\ row[q] = role))
        /\ pc[q] = "key_user" => stale[q] \/ keyRow
        /\ pc[q] = "key_cache" =>
              /\ row[q] \in Roles
              /\ stale[q] \/ (keyRow /\ state \in {"active", "disabled"} /\ row[q] = role)

\* RightsFade, for tokens in their grace period as well.
TokensFade ==
    \A t \in tokens :
        state # "active" \/ t.role # role => t.late \/ t.left - Grace + since <= Life

IInv == TypeOK /\ ViewsAreCurrent /\ TokensFade /\ KeyCopiesFade

-----------------------------------------------------------------------------
(* What the steps have in common *)

LEMMA AnswerFacts ==
  ASSUME TypeOK, ViewsAreCurrent, NEW q \in Requests, Answer(q), UNCHANGED rows
  PROVE  /\ pc' \in [Requests -> Labels] /\ row' \in [Requests -> Roles \cup {None}]
         /\ stale' \in [Requests -> BOOLEAN]
         /\ ViewsAreCurrent'
<1>1. /\ pc' \in [Requests -> Labels] /\ row' \in [Requests -> Roles \cup {None}]
      /\ stale' \in [Requests -> BOOLEAN]
  BY DEF Answer, Goto, TypeOK, Labels
<1>2. \A p \in Requests : IF p = q THEN pc'[p] = "idle"
                          ELSE pc'[p] = pc[p] /\ row'[p] = row[p] /\ stale'[p] = stale[p]
  BY DEF Answer, Goto, TypeOK
<1>3. ViewsAreCurrent'
  BY <1>2 DEF ViewsAreCurrent, rows
<1> QED
  BY <1>1, <1>3

LEMMA ReadRoleFacts ==
  ASSUME TypeOK, ViewsAreCurrent, NEW q \in Requests, NEW label \in {"issue", "key_cache"},
         NEW overtaken \in BOOLEAN, ReadRole(q, label, overtaken), UNCHANGED rows,
         label = "issue" => overtaken \/ state = "active",
         label = "key_cache" => overtaken \/ (keyRow /\ state \in {"active", "disabled"})
  PROVE  /\ pc' \in [Requests -> Labels] /\ row' \in [Requests -> Roles \cup {None}]
         /\ stale' \in [Requests -> BOOLEAN]
         /\ ViewsAreCurrent'
<1>1. /\ pc' \in [Requests -> Labels] /\ row' \in [Requests -> Roles \cup {None}]
      /\ stale' \in [Requests -> BOOLEAN]
  BY DEF ReadRole, Goto, TypeOK, Labels
<1>2. \A p \in Requests :
         IF p = q THEN pc'[p] = label /\ row'[p] = role /\ stale'[p] = overtaken
         ELSE pc'[p] = pc[p] /\ row'[p] = row[p] /\ stale'[p] = stale[p]
  BY DEF ReadRole, Goto, TypeOK
<1>3. ViewsAreCurrent'
  BY <1>2 DEF ViewsAreCurrent, rows, TypeOK
<1> QED
  BY <1>1, <1>3

\* The request moves to a label that asks less of its view.
LEMMA GotoFacts ==
  ASSUME TypeOK, ViewsAreCurrent, NEW q \in Requests, NEW label \in Labels, Goto(q, label),
         label \in {"idle", "insert", "key_row"} \/ (label = "key_user" /\ keyRow),
         UNCHANGED <<rows, row, stale>>
  PROVE  pc' \in [Requests -> Labels] /\ ViewsAreCurrent'
<1>1. pc' \in [Requests -> Labels]
  BY DEF Goto, TypeOK
<1>2. \A p \in Requests : pc'[p] = IF p = q THEN label ELSE pc[p]
  BY DEF Goto, TypeOK
<1>3. ViewsAreCurrent'
  BY <1>2 DEF ViewsAreCurrent, rows
<1> QED
  BY <1>1, <1>3

\* A change overtakes every view, and starts the age of the rows again.
LEMMA ChangedFacts ==
  ASSUME IInv, Changed
  PROVE  /\ since' \in 0..Horizon
         /\ stale' \in [Requests -> BOOLEAN]
         /\ ViewsAreCurrent' /\ TokensFade' /\ KeyCopiesFade'
<1>1. since' = 0 /\ UNCHANGED <<tokens, copy, pc, row>>
  BY DEF Changed
<1>2. \A q \in Requests : stale'[q] = Reading(q)
  BY DEF Changed
<1>3. ViewsAreCurrent'
  BY <1>1, <1>2 DEF ViewsAreCurrent, Reading, IInv
<1>4. \A t \in tokens : t.left \in Int /\ t.left <= Life + Grace
  BY AccessConstantsOK DEF IInv, TypeOK, Tokens
<1>5. TokensFade'
  BY <1>1, <1>4, AccessConstantsOK DEF TokensFade
<1>6. copy # None => copy.ttl \in Int /\ copy.ttl <= KeyTTL
  BY AccessConstantsOK DEF IInv, TypeOK, Copies
<1>7. KeyCopiesFade'
  BY <1>1, <1>6, AccessConstantsOK DEF KeyCopiesFade
<1>8. since' \in 0..Horizon /\ stale' \in [Requests -> BOOLEAN]
  BY <1>1, AccessConstantsOK DEF Changed, Reading
<1> QED
  BY <1>3, <1>5, <1>7, <1>8

\* What does not touch rows, tokens and copy leaves their ages as they are.
LEMMA SameRights ==
  ASSUME IInv, UNCHANGED <<rows, tokens, copy>>
  PROVE  TokensFade' /\ KeyCopiesFade'
BY DEF IInv, TokensFade, KeyCopiesFade, rows

-----------------------------------------------------------------------------
(* The steps *)

LEMMA InsertStep ==
  ASSUME IInv, NEW q \in Requests, RegisterInsert(q) PROVE IInv'
<1>1. CASE state = "new"
  <2>1. /\ state' = "active" /\ role' = Readonly /\ since' = 0 /\ Goto(q, "reread")
        /\ UNCHANGED <<keyRow, tokens, copy, row, stale>>
    BY <1>1 DEF RegisterInsert
  <2>2. TypeOK'
    BY <2>1, AccessConstantsOK DEF IInv, TypeOK, Goto, Labels
  <2>3. \A p \in Requests : pc'[p] = IF p = q THEN "reread" ELSE pc[p]
    BY <2>1 DEF IInv, TypeOK, Goto
  <2>4. ViewsAreCurrent'
    BY <1>1, <2>1, <2>3 DEF IInv, ViewsAreCurrent
  <2>5. \A t \in tokens : t.left \in Int /\ t.left <= Life + Grace
    BY AccessConstantsOK DEF IInv, TypeOK, Tokens
  <2>6. TokensFade'
    BY <2>1, <2>5, AccessConstantsOK DEF TokensFade
  <2>7. copy # None => copy.ttl \in Int /\ copy.ttl <= KeyTTL
    BY AccessConstantsOK DEF IInv, TypeOK, Copies
  <2>8. KeyCopiesFade'
    BY <2>1, <2>7, AccessConstantsOK DEF KeyCopiesFade
  <2> QED
    BY <2>2, <2>4, <2>6, <2>8 DEF IInv
<1>2. CASE state # "new"
  <2>1. Answer(q) /\ UNCHANGED <<rows, tokens, copy>>
    BY <1>2 DEF RegisterInsert, rows
  <2> QED
    BY <2>1, AnswerFacts, SameRights DEF IInv, TypeOK, rows
<1> QED
  BY <1>1, <1>2

\* A token is as current as the view it is made from.
LEMMA IssueStep ==
  ASSUME IInv, NEW q \in Requests, Issue(q) PROVE IInv'
<1> DEFINE new == [role |-> row[q], left |-> Life + Grace, late |-> stale[q]]
<1>1. pc[q] = "issue" /\ tokens' = tokens \cup {new} /\ Answer(q) /\ UNCHANGED <<rows, copy>>
  BY DEF Issue
<1>2. row[q] \in Roles /\ (stale[q] \/ (state = "active" /\ row[q] = role))
  BY <1>1 DEF IInv, ViewsAreCurrent
<1>3. new \in Tokens
  BY <1>2, AccessConstantsOK DEF Tokens, IInv, TypeOK
<1>4. state # "active" \/ new.role # role => new.late
  BY <1>2
<1>5. TypeOK'
  BY <1>1, <1>3, AnswerFacts DEF IInv, TypeOK, rows
<1>6. TokensFade' /\ KeyCopiesFade'
  BY <1>1, <1>4 DEF IInv, TokensFade, KeyCopiesFade, rows
<1> QED
  BY <1>1, <1>5, <1>6, AnswerFacts DEF IInv

LEMMA KeyCacheStep ==
  ASSUME IInv, NEW q \in Requests, KeyCache(q) PROVE IInv'
<1> DEFINE new == [role |-> row[q], ttl |-> KeyTTL, late |-> stale[q]]
<1>1. pc[q] = "key_cache" /\ copy' = new /\ Answer(q) /\ UNCHANGED <<rows, tokens>>
  BY DEF KeyCache
<1>2. /\ row[q] \in Roles
      /\ stale[q] \/ (keyRow /\ state \in {"active", "disabled"} /\ row[q] = role)
  BY <1>1 DEF IInv, ViewsAreCurrent
<1>3. new \in Copies
  BY <1>2, AccessConstantsOK DEF Copies, IInv, TypeOK
<1>4. ~keyRow \/ state = "deleted" \/ new.role # role => new.late
  BY <1>2
<1>5. TypeOK'
  BY <1>1, <1>3, AnswerFacts DEF IInv, TypeOK, rows
<1>6. TokensFade' /\ KeyCopiesFade'
  BY <1>1, <1>4 DEF IInv, TokensFade, KeyCopiesFade, rows
<1> QED
  BY <1>1, <1>5, <1>6, AnswerFacts DEF IInv

\* Tokens and copies come nearer their end while the change grows older.
LEMMA TickStep ==
  ASSUME IInv, Tick PROVE IInv'
<1>1. /\ tokens' = {Older(t) : t \in {u \in tokens : u.left > 1}}
      /\ UNCHANGED <<state, role, keyRow, local>>
      /\ since \in 0..Horizon /\ since' \in 0..Horizon /\ since' <= since + 1
  BY AccessConstantsOK DEF Tick, IInv, TypeOK
<1>2. ASSUME NEW t \in tokens, t.left > 1
      PROVE  /\ Older(t) \in Tokens
             /\ Older(t).left = t.left - 1 /\ Older(t).role = t.role /\ Older(t).late = t.late
             /\ t.left \in Int
  BY <1>2, AccessConstantsOK DEF IInv, TypeOK, Tokens, Older
<1>3. TokensFade'
  <2> SUFFICES ASSUME NEW s \in tokens', state # "active" \/ s.role # role
               PROVE  s.late \/ s.left - Grace + since' <= Life
    BY <1>1 DEF TokensFade
  <2>1. PICK t \in tokens : t.left > 1 /\ s = Older(t)
    BY <1>1
  <2>2. t.late \/ t.left - Grace + since <= Life
    BY <1>2, <2>1 DEF IInv, TokensFade
  <2> QED
    BY <1>1, <1>2, <2>1, <2>2, AccessConstantsOK
<1>4. CASE copy = None \/ copy.ttl = 1
  <2>1. copy' = None
    BY <1>4 DEF Tick
  <2>2. TypeOK'
    BY <1>1, <1>2, <2>1 DEF IInv, TypeOK, local
  <2> QED
    BY <1>1, <1>3, <2>1, <2>2 DEF IInv, KeyCopiesFade, ViewsAreCurrent, local
<1>5. CASE copy # None /\ copy.ttl # 1
  <2>1. copy \in Copies /\ copy' = [copy EXCEPT !.ttl = copy.ttl - 1]
    BY <1>5 DEF Tick, IInv, TypeOK
  <2>2. /\ copy' \in Copies /\ copy'.ttl = copy.ttl - 1 /\ copy'.role = copy.role
        /\ copy'.late = copy.late /\ copy.ttl \in Int
    BY <1>5, <2>1, AccessConstantsOK DEF Copies
  <2>3. TypeOK'
    BY <1>1, <1>2, <2>2 DEF IInv, TypeOK, local
  <2>4. KeyCopiesFade'
    BY <1>1, <1>5, <2>2, AccessConstantsOK DEF IInv, KeyCopiesFade
  <2> QED
    BY <1>1, <1>3, <2>3, <2>4 DEF IInv, ViewsAreCurrent, local
<1> QED
  BY <1>4, <1>5

LEMMA IInvStep == IInv /\ [Next]_vars => IInv'
<1> SUFFICES ASSUME IInv, [Next]_vars PROVE IInv'
  OBVIOUS
<1> DEFINE Kept == UNCHANGED <<rows, tokens, copy>>
<1>a. ASSUME Kept, ViewsAreCurrent', pc' \in [Requests -> Labels],
             row' \in [Requests -> Roles \cup {None}], stale' \in [Requests -> BOOLEAN]
      PROVE  IInv'
  BY <1>a, SameRights DEF IInv, TypeOK, rows
<1>b. ASSUME NEW q \in Requests, Answer(q), Kept PROVE IInv'
  BY <1>a, <1>b, AnswerFacts DEF IInv
<1>c. ASSUME NEW q \in Requests, NEW label \in {"insert", "key_row"}, Goto(q, label),
             Kept, UNCHANGED <<row, stale>>
      PROVE  IInv'
  <2>1. label \in Labels
    BY <1>c DEF Labels
  <2> QED
    BY <1>a, <1>c, <2>1, GotoFacts DEF IInv, TypeOK
<1>1. ASSUME NEW q \in Requests, RegisterCheck(q) PROVE IInv'
  BY <1>1, <1>c DEF RegisterCheck
<1>2. ASSUME NEW q \in Requests, Login(q) \/ (\E t \in tokens : Refresh(q, t)) PROVE IInv'
  <2>1. state = "active" /\ ReadRole(q, "issue", FALSE) /\ Kept
    BY <1>2 DEF Login, Refresh
  <2> QED
    BY <1>a, <2>1, ReadRoleFacts DEF IInv
<1>3. ASSUME NEW q \in Requests, KeyLookup(q) PROVE IInv'
  BY <1>3, <1>c DEF KeyLookup
<1>4. ASSUME NEW q \in Requests, RegisterReread(q) PROVE IInv'
  <2>1. CASE state = "deleted"
    BY <1>4, <1>b, <2>1 DEF RegisterReread
  <2>2. CASE state # "deleted"
    <3>1. ReadRole(q, "issue", state # "active") /\ Kept
      BY <1>4, <2>2 DEF RegisterReread
    <3> QED
      BY <1>a, <3>1, ReadRoleFacts DEF IInv
  <2> QED
    BY <2>1, <2>2
<1>5. ASSUME NEW q \in Requests, KeyRow(q) PROVE IInv'
  <2>1. CASE keyRow
    <3>1. Goto(q, "key_user") /\ Kept /\ UNCHANGED <<row, stale>>
      BY <1>5, <2>1 DEF KeyRow
    <3>2. pc' \in [Requests -> Labels] /\ ViewsAreCurrent'
      BY <2>1, <3>1, GotoFacts DEF IInv, Labels
    <3> QED
      BY <1>a, <3>1, <3>2 DEF IInv, TypeOK
  <2>2. CASE ~keyRow
    BY <1>5, <1>b, <2>2 DEF KeyRow
  <2> QED
    BY <2>1, <2>2
<1>6. ASSUME NEW q \in Requests, KeyUser(q) PROVE IInv'
  <2>1. CASE state \in {"active", "disabled"}
    <3>1. ReadRole(q, "key_cache", stale[q]) /\ Kept /\ pc[q] = "key_user"
      BY <1>6, <2>1 DEF KeyUser
    <3>2. stale[q] \in BOOLEAN /\ (stale[q] \/ keyRow)
      BY <3>1 DEF IInv, ViewsAreCurrent, TypeOK
    <3> QED
      BY <1>a, <2>1, <3>1, <3>2, ReadRoleFacts DEF IInv
  <2>2. CASE state \notin {"active", "disabled"}
    BY <1>6, <1>b, <2>2 DEF KeyUser
  <2> QED
    BY <2>1, <2>2
<1>7. ASSUME NEW q \in Requests, Break(q) PROVE IInv'
  BY <1>7, <1>b DEF Break
<1>8. ASSUME Changed, state' \in {"new", "active", "disabled", "deleted"}, role' \in Roles,
             keyRow' \in BOOLEAN
      PROVE  IInv'
  BY <1>8, ChangedFacts DEF IInv, TypeOK, Changed
<1>9. CASE DeleteUser
  BY <1>8, <1>9 DEF DeleteUser, IInv, TypeOK
<1>10. ASSUME NEW r \in Roles, ChangeRole(r) PROVE IInv'
  BY <1>8, <1>10 DEF ChangeRole, IInv, TypeOK
<1>11. CASE ChangeActive
  BY <1>8, <1>11 DEF ChangeActive, IInv, TypeOK
<1>12. CASE ChangeKey
  BY <1>8, <1>12 DEF ChangeKey, IInv, TypeOK
<1>13. CASE UNCHANGED vars
  <2>1. Kept /\ UNCHANGED <<pc, row, stale>>
    BY <1>13 DEF vars, local
  <2>2. ViewsAreCurrent'
    BY <2>1 DEF IInv, ViewsAreCurrent, rows
  <2> QED
    BY <1>a, <2>1, <2>2 DEF IInv, TypeOK
<1> QED
  BY <1>1, <1>2, <1>3, <1>4, <1>5, <1>6, <1>7, <1>9, <1>10, <1>11, <1>12, <1>13,
     InsertStep, IssueStep, KeyCacheStep, TickStep DEF Next, Step

LEMMA InitIInv == Init => IInv
BY AccessConstantsOK DEF Init, IInv, TypeOK, Labels, ViewsAreCurrent, TokensFade, KeyCopiesFade

-----------------------------------------------------------------------------
(* Theorems *)

LEMMA IInvHolds == Spec => []IInv
BY InitIInv, IInvStep, PTL DEF Spec

\* No token or copy lives longer than its lifetime says.
THEOREM TypeCorrect == Spec => []TypeOK
<1>1. IInv => TypeOK
  BY DEF IInv
<1> QED
  BY <1>1, IInvHolds, PTL

\* A valid token of a disabled or deleted user, or with a role that was taken
\* away, ends one lifetime after the change, however often tokens are refreshed.
THEOREM RightsAlwaysFade == Spec => []RightsFade
<1>1. IInv => RightsFade
  BY DEF IInv, TokensFade, RightsFade
<1> QED
  BY <1>1, IInvHolds, PTL

\* A copy of an API key outlives what it was made from by one lifetime at most.
THEOREM KeyCopiesAlwaysFade == Spec => []KeyCopiesFade
<1>1. IInv => KeyCopiesFade
  BY DEF IInv
<1> QED
  BY <1>1, IInvHolds, PTL
=============================================================================
