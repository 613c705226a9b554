------------------------ MODULE QueryPipelineProofs ------------------------
(***************************************************************************)
(* The theorems about QueryPipeline, for any requests, users, costs, limit *)
(* and number of dates: its types, and that it implements DailyBudget.     *)
(***************************************************************************)
EXTENDS QueryPipeline, TLAPS

\* A request that moves on stays a request.
LEMMA GotoType ==
  ASSUME req \in [Requests -> Asking], NEW r \in Requests, NEW label \in Places, Goto(r, label)
  PROVE  req' \in [Requests -> Asking]
BY DEF Goto, Asking

LEMMA RefuseType ==
  ASSUME TypeOK, NEW r \in Requests, Refuse(r)
  PROVE  /\ req' \in [Requests -> Asking]
         /\ answer' \in [Requests -> {"none", "rows", "plan", "refused", "error"}]
         /\ audited' \in [Requests -> BOOLEAN]
<1>1. req' \in [Requests -> Asking]
  BY GotoType DEF Refuse, TypeOK, Places
<1> QED
  BY <1>1 DEF Refuse, StartAudit, TypeOK

\* What a request in flight is made of.
LEMMA AsksType ==
  /\ Idle \in Asking
  /\ \A f \in Asking : f.kind \in [select : BOOLEAN, ext : BOOLEAN, dry : BOOLEAN]
  /\ \A pc \in Places, u \in Users \union Admins \union {None},
        kind \in [select : BOOLEAN, ext : BOOLEAN, dry : BOOLEAN], c \in Costs, d \in Dates :
          Asks(pc, u, kind, c, d) \in Asking
<1>1. \A f \in Asking : f.kind \in [select : BOOLEAN, ext : BOOLEAN, dry : BOOLEAN]
  BY DEF Asking
<1>2. \A pc \in Places, u \in Users \union Admins \union {None},
         kind \in [select : BOOLEAN, ext : BOOLEAN, dry : BOOLEAN], c \in Costs, d \in Dates :
           Asks(pc, u, kind, c, d) \in Asking
  BY DEF Asks, Asking
<1>3. Idle \in Asking
  <2>1. "idle" \in Places /\ 0 \in Costs /\ 1 \in Dates
    BY PipelineConstants DEF Places, Dates
  <2>2. [select |-> FALSE, ext |-> FALSE, dry |-> FALSE]
          \in [select : BOOLEAN, ext : BOOLEAN, dry : BOOLEAN]
    OBVIOUS
  <2> QED
    BY <1>2, <2>1, <2>2 DEF Idle
<1> QED
  BY <1>1, <1>2, <1>3

LEMMA AsksFields ==
  \A pc, u, kind, c, d :
     Asks(pc, u, kind, c, d).pc = pc /\ Asks(pc, u, kind, c, d).day = d
BY DEF Asks

\* A budget key never holds more than the limit.
LEMMA ChargeType ==
  ASSUME TypeOK, NEW r \in Requests, NEW u \in Users, Charge(r, u)
  PROVE  usage' \in [Users -> [Dates -> 0..Limit \union {None}]]
<1> DEFINE c == req[r].cost
           d == req[r].day
<1>1. c \in Nat /\ d \in Dates
  BY PipelineConstants DEF TypeOK, Asking
<1>5. usage[u] \in [Dates -> 0..Limit \union {None}]
  BY DEF TypeOK
<1>2. Spent(u, d) \in Nat
  <2> HIDE DEF c, d
  <2>1. usage[u][d] \in 0..Limit \union {None}
    BY <1>1, <1>5
  <2> QED
    BY <2>1, PipelineConstants DEF Spent
<1>3. Spent(u, d) + c \in 0..Limit
  BY <1>1, <1>2, PipelineConstants DEF Charge
<1>4. usage' = [usage EXCEPT ![u][d] = Spent(u, d) + c]
  BY DEF Charge
<1>6. [usage[u] EXCEPT ![d] = Spent(u, d) + c] \in [Dates -> 0..Limit \union {None}]
  <2> HIDE DEF c, d
  <2> QED
    BY <1>1, <1>3, <1>5
<1> HIDE DEF c, d
<1> QED
  BY <1>4, <1>6 DEF TypeOK

\* Every variable keeps its type, whatever requests, expiry, midnight and crashes do.
LEMMA TypeStep == TypeOK /\ [Next]_vars => TypeOK'
<1> SUFFICES ASSUME TypeOK, [Next]_vars PROVE TypeOK'
  OBVIOUS
<1> USE DEF budget, keys, outcome
<1>1. ASSUME NEW r \in Requests, NEW u \in Users \union Admins, NEW kind \in Kinds,
             Arrive(r, u, kind)
      PROVE  TypeOK'
  <2>1. kind \in [select : BOOLEAN, ext : BOOLEAN, dry : BOOLEAN] /\ 1 \in Dates /\ "checks" \in Places
    BY PipelineConstants DEF Dates, Places
  <2>2. Asks("checks", u, kind, 0, 1) \in Asking
    BY <2>1, AsksType, PipelineConstants
  <2> QED
    BY <1>1, <2>2 DEF Arrive, TypeOK
<1>2. ASSUME NEW r \in Requests, Admit(r) PROVE TypeOK'
  <2>1. req' \in [Requests -> Asking]
    BY <1>2, GotoType DEF Admit, TypeOK, Places
  <2> QED
    BY <1>2, <2>1 DEF Admit, TypeOK
<1>3. ASSUME NEW r \in Requests, TurnAway(r) PROVE TypeOK'
  BY <1>3, RefuseType DEF TurnAway, TypeOK
<1>4. ASSUME NEW r \in Requests, CacheHit(r) PROVE TypeOK'
  <2>1. req' \in [Requests -> Asking]
    BY <1>4, GotoType DEF CacheHit, TypeOK, Places
  <2> QED
    BY <1>4, <2>1 DEF CacheHit, StartAudit, TypeOK
<1>5. ASSUME NEW r \in Requests, CacheMiss(r) PROVE TypeOK'
  <2>1. req' \in [Requests -> Asking]
    <3>1. (IF req[r].kind.ext THEN "budget" ELSE "cost") \in Places
      BY DEF Places
    <3>2. req[r] \in Asking /\ date \in Dates /\ 0 \in Costs
      BY PipelineConstants DEF TypeOK
    <3>3. req[r].user \in Users \union Admins \union {None}
      BY <3>2 DEF Asking
    <3>4. Asks(IF req[r].kind.ext THEN "budget" ELSE "cost", req[r].user, req[r].kind, 0, date)
            \in Asking
      BY <3>1, <3>2, <3>3, AsksType
    <3> QED
      BY <1>5, <3>4 DEF CacheMiss, TypeOK
  <2> QED
    BY <1>5, <2>1 DEF CacheMiss, TypeOK
<1>6. ASSUME NEW r \in Requests, NEW c \in Costs, Estimate(r, c) PROVE TypeOK'
  <2>1. CASE Refuse(r)
    BY <1>6, <2>1, RefuseType DEF Estimate, TypeOK
  <2>2. CASE /\ req' = [req EXCEPT ![r] = Asks("budget", @.user, @.kind, c, date)]
             /\ UNCHANGED <<answer, audited>>
    <3>1. req' \in [Requests -> Asking]
      <4>1. req[r] \in Asking /\ date \in Dates /\ "budget" \in Places
        BY DEF TypeOK, Places
      <4>2. req[r].user \in Users \union Admins \union {None}
        BY <4>1 DEF Asking
      <4>3. Asks("budget", req[r].user, req[r].kind, c, date) \in Asking
        BY <4>1, <4>2, AsksType
      <4> QED
        BY <2>2, <4>3 DEF TypeOK
    <3> QED
      BY <1>6, <2>2, <3>1 DEF Estimate, TypeOK
  <2> QED
    BY <1>6, <2>1, <2>2 DEF Estimate
<1>7. ASSUME NEW r \in Requests, SkipBudget(r) PROVE TypeOK'
  <2>1. req' \in [Requests -> Asking]
    BY <1>7, GotoType DEF SkipBudget, TypeOK, Places
  <2> QED
    BY <1>7, <2>1 DEF SkipBudget, TypeOK
<1>8. ASSUME NEW r \in Requests, NEW u \in Users, Charge(r, u) PROVE TypeOK'
  <2>1. req' \in [Requests -> Asking]
    BY <1>8, GotoType DEF Charge, TypeOK, Places
  <2> QED
    BY <1>8, <2>1, ChargeType DEF Charge, TypeOK
<1>9. ASSUME NEW r \in Requests, NEW u \in Users, OverBudget(r, u) PROVE TypeOK'
  BY <1>9, RefuseType DEF OverBudget, TypeOK
<1>10. ASSUME NEW r \in Requests, NEW u \in Users, ReadTTL(r, u) PROVE TypeOK'
  <2>1. req' \in [Requests -> Asking]
    BY <1>10, GotoType DEF ReadTTL, TypeOK, Places
  <2> QED
    BY <1>10, <2>1 DEF ReadTTL, TypeOK
<1>11. ASSUME NEW r \in Requests, NEW u \in Users, SetTTL(r, u) PROVE TypeOK'
  <2>1. req' \in [Requests -> Asking]
    BY <1>11, GotoType DEF SetTTL, TypeOK, Places
  <2>2. expiring' \in [Users -> [Dates -> BOOLEAN]]
    BY <1>11 DEF SetTTL, TypeOK
  <2> QED
    BY <1>11, <2>1, <2>2 DEF SetTTL, TypeOK
<1>a. ASSUME NEW u \in Users, NEW d, usage' = [usage EXCEPT ![u][d] = None],
             expiring' = [expiring EXCEPT ![u][d] = FALSE]
      PROVE  /\ usage' \in [Users -> [Dates -> 0..Limit \union {None}]]
             /\ expiring' \in [Users -> [Dates -> BOOLEAN]]
  BY <1>a DEF TypeOK
<1>12. ASSUME NEW r \in Requests, NEW u \in Users, SetNoTTL(r, u) PROVE TypeOK'
  <2>1. req' \in [Requests -> Asking]
    BY <1>12, GotoType DEF SetNoTTL, TypeOK, Places
  <2> QED
    BY <1>12, <1>a, <2>1 DEF SetNoTTL, TypeOK
<1>13. ASSUME NEW r \in Requests, DryRun(r) PROVE TypeOK'
  <2>1. req' \in [Requests -> Asking]
    BY <1>13, GotoType DEF DryRun, TypeOK, Places
  <2> QED
    BY <1>13, <2>1 DEF DryRun, TypeOK
<1>14. ASSUME NEW r \in Requests, Execute(r) PROVE TypeOK'
  <2>1. req' \in [Requests -> Asking]
    BY <1>14, GotoType DEF Execute, TypeOK, Places
  <2> QED
    BY <1>14, <2>1 DEF Execute, TypeOK
<1>15. ASSUME NEW r \in Requests, NEW applied \in BOOLEAN, ExecuteFails(r, applied) PROVE TypeOK'
  BY <1>15, RefuseType DEF ExecuteFails, TypeOK
<1>16. ASSUME NEW r \in Requests, Report(r) PROVE TypeOK'
  <2>1. req' \in [Requests -> Asking]
    BY <1>16, GotoType DEF Report, TypeOK, Places
  <2> QED
    BY <1>16, <2>1 DEF Report, StartAudit, TypeOK
<1>17. ASSUME NEW r \in Requests, Error(r) PROVE TypeOK'
  <2>1. req' \in [Requests -> Asking]
    BY <1>17, GotoType DEF Error, TypeOK, Places
  <2> QED
    BY <1>17, <2>1 DEF Error, TypeOK
<1>18. ASSUME NEW r \in Requests, Finally(r) PROVE TypeOK'
  <2>1. req' \in [Requests -> Asking]
    BY <1>18, GotoType DEF Finally, TypeOK, Places
  <2> QED
    BY <1>18, <2>1 DEF Finally, TypeOK
<1>19. ASSUME NEW r \in Requests, Leave(r) PROVE TypeOK'
  BY <1>19, AsksType, PipelineConstants DEF Leave, TypeOK
<1>20. ASSUME NEW u \in Users, NEW d \in Dates, KeyExpires(u, d) PROVE TypeOK'
  BY <1>20, <1>a DEF KeyExpires, TypeOK
<1>21. CASE LastSecond
  BY <1>21 DEF LastSecond, TypeOK
<1>22. CASE Midnight
  <2>1. date \in 1..MaxDate /\ date < MaxDate /\ date' = date + 1
    BY <1>22 DEF Midnight, TypeOK, Dates
  <2>2. date' \in Dates
    BY <2>1, PipelineConstants DEF Dates
  <2> QED
    BY <1>22, <2>2 DEF Midnight, TypeOK
<1>23. CASE Crash
  BY <1>23, AsksType, PipelineConstants DEF Crash, TypeOK
<1>24. CASE UNCHANGED vars
  BY <1>24 DEF vars, TypeOK
<1>25. ASSUME NEW r \in Requests, CheckBudget(r) PROVE TypeOK'
  BY <1>25, <1>7, <1>8, <1>9, <1>10, <1>11, <1>12 DEF CheckBudget
<1>26. ASSUME NEW r \in Requests, Pipeline(r) PROVE TypeOK'
  BY <1>26, <1>2, <1>3, <1>4, <1>5, <1>6, <1>13, <1>14, <1>15, <1>16, <1>17, <1>18, <1>19, <1>25
     DEF Pipeline
<1>27. ASSUME Next PROVE TypeOK'
  BY <1>27, <1>1, <1>20, <1>21, <1>22, <1>23, <1>26 DEF Next
<1> QED
  BY <1>24, <1>27

THEOREM TypeCorrect == Spec => []TypeOK
<1>1. Init => TypeOK
  <2>1. 1 \in Dates
    BY PipelineConstants DEF Dates
  <2>2. ASSUME Init
        PROVE  /\ usage \in [Users -> [Dates -> 0..Limit \union {None}]]
               /\ expiring \in [Users -> [Dates -> BOOLEAN]]
    BY <2>2 DEF Init
  <2>3. Init => req \in [Requests -> Asking]
    BY AsksType, PipelineConstants DEF Init
  <2> QED
    BY <2>1, <2>2, <2>3 DEF Init, TypeOK
<1> QED
  BY <1>1, TypeStep, PTL DEF Spec

\* A step that lets no request take a key, and creates none.
LEMMA DaysKept ==
  ASSUME TypeOK, BudgetDays, date' = date, closing' = closing,
         \A r \in Requests :
            \/ req'[r].day <= date /\ req'[r].pc # "expire now"
            \/ req'[r].day = req[r].day /\ req'[r].pc = req[r].pc,
         \A u \in Users, d \in Dates : d > date => usage'[u][d] = None
  PROVE  BudgetDays'
BY DEF BudgetDays, At

\* No key of a day to come is held or exists, and only the last second of a date
\* deletes its keys.
LEMMA DaysStep == TypeOK /\ BudgetDays /\ [Next]_vars => BudgetDays'
<1> SUFFICES ASSUME TypeOK, BudgetDays, [Next]_vars PROVE BudgetDays'
  OBVIOUS
<1> USE DEF budget, keys, outcome
<1>a. \A r \in Requests : req[r] \in Asking /\ req[r].day <= date
  BY DEF TypeOK, BudgetDays
<1>b. \A u \in Users, d \in Dates : d > date => usage[u][d] = None
  BY DEF BudgetDays
<1>c. date \in Nat /\ 1 <= date /\ date <= date
  <2>1. date \in 1..MaxDate
    BY DEF TypeOK, Dates
  <2> QED
    BY <2>1, PipelineConstants
\* Requests that move on, but not to a deletion.
<1>d. ASSUME NEW r \in Requests, NEW label \in Places \ {"expire now"}, Goto(r, label),
             UNCHANGED <<date, closing>>,
             \A u \in Users, d \in Dates : d > date => usage'[u][d] = None
      PROVE  BudgetDays'
  <2>1. \A q \in Requests : \/ req'[q].day <= date /\ req'[q].pc # "expire now"
                            \/ req'[q].day = req[q].day /\ req'[q].pc = req[q].pc
    BY <1>a, <1>d DEF Goto, TypeOK, Asking
  <2> QED
    BY <1>d, <2>1, DaysKept
<1>e. ASSUME NEW r \in Requests, Refuse(r), UNCHANGED budget PROVE BudgetDays'
  BY <1>b, <1>d, <1>e DEF Refuse, Places
\* Requests that start anew, or take the key of the running date.
<1>f. ASSUME NEW r \in Requests, NEW pc, NEW u, NEW kind, NEW c, NEW d,
             req' = [req EXCEPT ![r] = Asks(pc, u, kind, c, d)], d <= date,
             pc # "expire now", UNCHANGED budget
      PROVE  BudgetDays'
  <2>1. \A q \in Requests : \/ req'[q].day <= date /\ req'[q].pc # "expire now"
                            \/ req'[q].day = req[q].day /\ req'[q].pc = req[q].pc
    <3> TAKE q \in Requests
    <3>1. CASE q = r
      <4>1. req'[r] = Asks(pc, u, kind, c, d)
        BY <1>f DEF TypeOK
      <4>2. req'[r].day = d /\ req'[r].pc = pc
        BY <4>1, AsksFields
      <4> QED
        BY <1>f, <3>1, <4>2
    <3>2. CASE q # r
      BY <1>f, <3>2 DEF TypeOK
    <3> QED
      BY <3>1, <3>2
  <2> QED
    BY <1>b, <1>f, <2>1, DaysKept
<1>g. ASSUME UNCHANGED <<date, closing, req>>,
             \A u \in Users, d \in Dates : usage'[u][d] \in {usage[u][d], None}
      PROVE  BudgetDays'
  BY <1>b, <1>g, DaysKept
<1>1. ASSUME NEW r \in Requests, NEW u \in Users \union Admins, NEW kind \in Kinds,
             Arrive(r, u, kind)
      PROVE  BudgetDays'
  <2>1. req' = [req EXCEPT ![r] = Asks("checks", u, kind, 0, 1)] /\ UNCHANGED budget
    BY <1>1 DEF Arrive
  <2> QED
    BY <1>c, <1>f, <2>1
<1>2. ASSUME NEW r \in Requests,
             Admit(r) \/ CacheHit(r) \/ SkipBudget(r) \/ DryRun(r) \/ Execute(r)
               \/ Report(r) \/ Error(r) \/ Finally(r)
      PROVE  BudgetDays'
  <2>1. UNCHANGED budget
    BY <1>2 DEF Admit, CacheHit, SkipBudget, DryRun, Execute, Report, Error, Finally
  <2>2. \E label \in Places \ {"expire now"} : Goto(r, label)
    BY <1>2 DEF Admit, CacheHit, SkipBudget, DryRun, Execute, Report, Error, Finally, Places
  <2> QED
    BY <1>b, <1>d, <2>1, <2>2
<1>3. ASSUME NEW r \in Requests,
             TurnAway(r) \/ (\E u \in Users : OverBudget(r, u))
               \/ (\E applied \in BOOLEAN : ExecuteFails(r, applied))
      PROVE  BudgetDays'
  BY <1>3, <1>e DEF TurnAway, OverBudget, ExecuteFails
<1>5. ASSUME NEW r \in Requests, CacheMiss(r) PROVE BudgetDays'
  <2>0. UNCHANGED budget /\ "budget" # "expire now" /\ "cost" # "expire now"
    BY <1>5 DEF CacheMiss
  <2>1. req' = [req EXCEPT ![r] = Asks(IF req[r].kind.ext THEN "budget" ELSE "cost",
                                       req[r].user, req[r].kind, 0, date)]
    BY <1>5 DEF CacheMiss
  <2>2. CASE req[r].kind.ext
    <3>1. req' = [req EXCEPT ![r] = Asks("budget", req[r].user, req[r].kind, 0, date)]
      BY <2>1, <2>2
    <3> QED
      BY <1>c, <1>f, <2>0, <3>1
  <2>3. CASE ~req[r].kind.ext
    <3>1. req' = [req EXCEPT ![r] = Asks("cost", req[r].user, req[r].kind, 0, date)]
      BY <2>1, <2>3
    <3> QED
      BY <1>c, <1>f, <2>0, <3>1
  <2> QED
    BY <2>2, <2>3
<1>6. ASSUME NEW r \in Requests, NEW c \in Costs, Estimate(r, c) PROVE BudgetDays'
  <2>1. CASE Refuse(r)
    BY <1>6, <1>e, <2>1 DEF Estimate
  <2>2. CASE req' = [req EXCEPT ![r] = Asks("budget", @.user, @.kind, c, date)]
    <3>1. req' = [req EXCEPT ![r] = Asks("budget", req[r].user, req[r].kind, c, date)]
      BY <2>2
    <3>2. UNCHANGED budget /\ "budget" # "expire now"
      BY <1>6 DEF Estimate
    <3> QED
      BY <1>c, <1>f, <3>1, <3>2
  <2> QED
    BY <1>6, <2>1, <2>2 DEF Estimate
<1>8. ASSUME NEW r \in Requests, NEW u \in Users, Charge(r, u) PROVE BudgetDays'
  <2>1. req[r].day \in Nat /\ req[r].day <= date
    BY <1>a DEF Asking, Dates
  <2>2. \E n : usage' = [usage EXCEPT ![u][req[r].day] = n]
    BY <1>8 DEF Charge
  <2>3. \A v \in Users, d \in Dates : d # req[r].day => usage'[v][d] = usage[v][d]
    <3>1. PICK n : usage' = [usage EXCEPT ![u][req[r].day] = n]
      BY <2>2
    <3> DEFINE e == req[r].day
    <3>2. usage' = [usage EXCEPT ![u] = [usage[u] EXCEPT ![e] = n]]
      BY <3>1
    <3> HIDE DEF e
    <3>3. \A v \in Users, d \in Dates : d # e => usage'[v][d] = usage[v][d]
      BY <3>2 DEF TypeOK
    <3> QED
      BY <3>3 DEF e
  <2>4. \A d \in Dates : d > date => d # req[r].day
    BY <1>c, <2>1 DEF Dates
  <2>5. \A v \in Users, d \in Dates : d > date => usage'[v][d] = None
    BY <1>b, <2>3, <2>4
  <2>6. Goto(r, "ttl") /\ UNCHANGED <<date, closing>> /\ "ttl" \in Places \ {"expire now"}
    BY <1>8 DEF Charge, Places
  <2> QED
    BY <1>d, <2>5, <2>6
<1>10. ASSUME NEW r \in Requests, NEW u \in Users, ReadTTL(r, u) PROVE BudgetDays'
  <2>1. CASE Goto(r, "run") \/ Goto(r, "expire")
    BY <1>10, <1>b, <1>d, <2>1 DEF ReadTTL, Places
  <2>2. CASE closing /\ Goto(r, "expire now")
    <3>1. \A q \in Requests : req'[q].day = req[q].day
      BY <2>2 DEF Goto, TypeOK, Asking
    <3> QED
      BY <1>10, <1>a, <1>b, <2>2, <3>1 DEF ReadTTL, BudgetDays
  <2> QED
    BY <1>10, <2>1, <2>2 DEF ReadTTL
<1>11. ASSUME NEW r \in Requests, NEW u \in Users, SetTTL(r, u) PROVE BudgetDays'
  BY <1>11, <1>b, <1>d DEF SetTTL, Places
<1>h. ASSUME NEW u \in Users, NEW e, usage' = [usage EXCEPT ![u][e] = None]
      PROVE  \A v \in Users, d \in Dates : usage'[v][d] \in {usage[v][d], None}
  BY <1>h DEF TypeOK
<1>12. ASSUME NEW r \in Requests, NEW u \in Users, SetNoTTL(r, u) PROVE BudgetDays'
  BY <1>12, <1>b, <1>d, <1>h DEF SetNoTTL, Places
<1>19. ASSUME NEW r \in Requests, Leave(r) PROVE BudgetDays'
  <2>1. req' = [req EXCEPT ![r] = Idle] /\ UNCHANGED budget
    BY <1>19 DEF Leave
  <2> QED
    BY <1>c, <1>f, <2>1 DEF Idle
<1>20. ASSUME NEW u \in Users, NEW d \in Dates, KeyExpires(u, d) PROVE BudgetDays'
  BY <1>20, <1>g, <1>h DEF KeyExpires
<1>21. CASE LastSecond
  BY <1>21 DEF LastSecond, BudgetDays, At
<1>22. CASE Midnight
  <2>1. date' = date + 1 /\ req' = req /\ usage' = usage
    BY <1>22 DEF Midnight
  <2>2. \A r \in Requests : req[r].day \in Nat /\ req[r].day < date'
    BY <1>a, <1>c, <2>1 DEF Asking, Dates
  <2>3. \A d \in Dates : d > date' => d > date
    BY <1>c, <2>1 DEF Dates
  <2>4. \A r \in Requests : req'[r].day <= date' /\ req'[r].day # date'
    BY <1>c, <2>1, <2>2
  <2>5. \A u \in Users, d \in Dates : d > date' => usage'[u][d] = None
    BY <1>b, <2>1, <2>3
  <2> QED
    BY <2>4, <2>5 DEF BudgetDays
<1>23. CASE Crash
  <2>1. \A r \in Requests : req'[r].day <= date /\ req'[r].pc # "expire now"
    BY <1>23, <1>c DEF Crash, Idle, Asks
  <2> QED
    BY <1>23, <1>b, <2>1, DaysKept DEF Crash
<1>24. CASE UNCHANGED vars
  BY <1>24 DEF vars, BudgetDays, At
<1>25. ASSUME NEW r \in Requests, Pipeline(r) PROVE BudgetDays'
  BY <1>25, <1>2, <1>3, <1>5, <1>6, <1>8, <1>10, <1>11, <1>12, <1>19 DEF Pipeline, CheckBudget
<1>26. ASSUME Next PROVE BudgetDays'
  BY <1>26, <1>1, <1>20, <1>21, <1>22, <1>23, <1>25 DEF Next
<1> QED
  BY <1>24, <1>26

\* For any number of requests and users, a key is held or exists only for a date that
\* has begun, and only the last second of a date deletes its keys.
THEOREM DaysPassed == Spec => []BudgetDays
<1>1. Init => BudgetDays
  <2>1. Idle.day = 1 /\ Idle.pc = "idle"
    BY AsksFields DEF Idle
  <2>2. ASSUME Init PROVE \A r \in Requests : req[r].day <= date /\ req[r].pc # "expire now"
    <3>1. (\A r \in Requests : req[r] = Idle) /\ date = 1
      BY <2>2 DEF Init
    <3>2. Idle.day <= date
      BY <2>1, <3>1
    <3> QED
      BY <2>1, <3>1, <3>2
  <2>3. ASSUME Init PROVE \A u \in Users, d \in Dates : usage[u][d] = None
    BY <2>3 DEF Init
  <2> QED
    BY <2>2, <2>3, PipelineConstants DEF BudgetDays, At
<1> QED
  BY <1>1, TypeCorrect, DaysStep, PTL DEF Spec

-----------------------------------------------------------------------------
\* Requests that charge nothing today leave what DailyBudget sees as it was.
LEMMA NothingSpent ==
  ASSUME UNCHANGED <<date, closing>>, \A u \in Users : Spent(u, date)' = Spent(u, date)
  PROVE  UNCHANGED Budget!vars
BY DEF Budget!vars

\* Deleting a key of the running date is a restart, of another date a stutter.
LEMMA Deletion ==
  ASSUME TypeOK, NEW u \in Users, NEW d \in Dates, UNCHANGED <<date, closing>>,
         usage' = [usage EXCEPT ![u][d] = None], d = date => closing
  PROVE  [Budget!Next]_(Budget!vars)
<1>1. \A v \in Users, e \in Dates :
         usage'[v][e] = IF v = u /\ e = d THEN None ELSE usage[v][e]
  BY DEF TypeOK
<1>2. date \in Dates
  BY DEF TypeOK
<1>3. CASE d = date
  <2>a. \A v \in Users : Spent(v, date)' = IF v = u THEN 0 ELSE Spent(v, date)
    BY <1>1, <1>2, <1>3 DEF Spent
  <2>1. [v \in Users |-> Spent(v, date)]' = [[v \in Users |-> Spent(v, date)] EXCEPT ![u] = 0]
    BY <2>a
  <2>2. Budget!Restart(u)
    BY <1>3, <2>1 DEF Budget!Restart
  <2> QED
    BY <2>2 DEF Budget!Next
<1>4. CASE d # date
  <2>1. \A v \in Users : Spent(v, date)' = Spent(v, date)
    BY <1>1, <1>2, <1>4 DEF Spent
  <2> QED
    BY <2>1, NothingSpent
<1> QED
  BY <1>3, <1>4

\* A charge to the key of the running date is a charge of DailyBudget; one that
\* midnight overtook is a stutter.
LEMMA Deduction ==
  ASSUME TypeOK, NEW r \in Requests, NEW u \in Users, Charge(r, u)
  PROVE  [Budget!Next]_(Budget!vars)
<1> DEFINE c == req[r].cost
           d == req[r].day
<1>1. c \in Costs /\ d \in Dates /\ date \in Dates
  BY DEF TypeOK, Asking
<1>2. /\ Spent(u, d) + c <= Limit
      /\ usage' = [usage EXCEPT ![u][d] = Spent(u, d) + c]
      /\ UNCHANGED <<date, closing>>
  BY DEF Charge
<1>3. Spent(u, d) \in Nat /\ Spent(u, d) + c # None
  <2>1. usage[u][d] \in 0..Limit \union {None}
    BY <1>1 DEF TypeOK
  <2>2. Spent(u, d) \in Nat
    BY <2>1, PipelineConstants DEF Spent
  <2>3. Spent(u, d) + c \in Nat
    <3> HIDE DEF c, d
    <3> QED
      BY <1>1, <2>2, PipelineConstants
  <2> QED
    BY <2>2, <2>3, PipelineConstants
<1> HIDE DEF c, d
<1>4. \A v \in Users, e \in Dates :
         usage'[v][e] = IF v = u /\ e = d THEN Spent(u, d) + c ELSE usage[v][e]
  BY <1>1, <1>2 DEF TypeOK
<1>5. CASE d = date
  <2>1. [v \in Users |-> Spent(v, date)]'
           = [[v \in Users |-> Spent(v, date)] EXCEPT ![u] = @ + c]
    <3>1. \A v \in Users : Spent(v, date)' = IF v = u THEN Spent(u, d) + c ELSE Spent(v, date)
      BY <1>1, <1>2, <1>3, <1>4, <1>5 DEF Spent
    <3> QED
      BY <1>5, <3>1
  <2>2. Budget!Charge(u, c)
    BY <1>2, <1>5, <2>1 DEF Budget!Charge
  <2> QED
    BY <1>1, <2>2 DEF Budget!Next
<1>6. CASE d # date
  <2>1. \A v \in Users : Spent(v, date)' = Spent(v, date)
    BY <1>1, <1>2, <1>4, <1>6 DEF Spent
  <2> QED
    BY <1>2, <2>1, NothingSpent
<1> QED
  BY <1>5, <1>6

\* Midnight starts a date nobody has been charged on.
LEMMA NewDate ==
  ASSUME TypeOK, BudgetDays, Midnight
  PROVE  Budget!Midnight
<1>1. date \in 1..MaxDate /\ date < MaxDate /\ date' = date + 1 /\ closing /\ closing' = FALSE
      /\ usage' = usage
  BY DEF Midnight, TypeOK, Dates, keys
<1>2. date' \in Dates /\ date' > date
  BY <1>1, PipelineConstants DEF Dates
<1>3. \A u \in Users : usage'[u][date'] = None
  BY <1>1, <1>2 DEF BudgetDays
<1>4. [u \in Users |-> Spent(u, date)]' = [u \in Users |-> 0]
  BY <1>3 DEF Spent
<1> QED
  BY <1>1, <1>4 DEF Budget!Midnight

\* check_budget implements DailyBudget for any number of requests, users and dates:
\* whatever the interleaving of charges, TTL checks, expiry, midnight and crashes,
\* no user is charged beyond the limit on a date, and the sum restarts only then.
THEOREM DailyLimitKept == Spec => DailyLimit
<1>1. Init => Budget!Init
  <2>1. ASSUME Init PROVE \A u \in Users : Spent(u, date) = 0
    <3>1. 1 \in Dates
      BY PipelineConstants DEF Dates
    <3> QED
      BY <2>1, <3>1 DEF Init, Spent
  <2> QED
    BY <2>1 DEF Init, Budget!Init
<1>2. TypeOK /\ BudgetDays /\ [Next]_vars => [Budget!Next]_(Budget!vars)
  <2> SUFFICES ASSUME TypeOK, BudgetDays, [Next]_vars PROVE [Budget!Next]_(Budget!vars)
    OBVIOUS
  <2>1. ASSUME UNCHANGED budget PROVE UNCHANGED Budget!vars
    BY <2>1, NothingSpent DEF budget, keys, Spent
  <2>2. ASSUME UNCHANGED <<date, closing, usage>> PROVE UNCHANGED Budget!vars
    BY <2>2, NothingSpent DEF Spent
  <2>3. ASSUME NEW r \in Requests, CheckBudget(r) PROVE [Budget!Next]_(Budget!vars)
    <3>1. CASE SkipBudget(r)
      BY <2>1, <3>1 DEF SkipBudget
    <3>2. ASSUME NEW u \in Users, Charge(r, u) PROVE [Budget!Next]_(Budget!vars)
      BY <3>2, Deduction
    <3>3. ASSUME NEW u \in Users, OverBudget(r, u) \/ ReadTTL(r, u)
          PROVE  UNCHANGED Budget!vars
      BY <2>1, <3>3 DEF OverBudget, ReadTTL
    <3>4. ASSUME NEW u \in Users, SetTTL(r, u) PROVE UNCHANGED Budget!vars
      BY <2>2, <3>4 DEF SetTTL
    <3>5. ASSUME NEW u \in Users, SetNoTTL(r, u) PROVE [Budget!Next]_(Budget!vars)
      <4>1. req[r].day \in Dates
        BY DEF TypeOK, Asking
      <4>2. req[r].day = date => closing
        BY <3>5 DEF SetNoTTL, BudgetDays, At
      <4>3. usage' = [usage EXCEPT ![u][req[r].day] = None] /\ UNCHANGED <<date, closing>>
        BY <3>5 DEF SetNoTTL
      <4> QED
        BY <4>1, <4>2, <4>3, Deletion
    <3> QED
      BY <2>3, <3>1, <3>2, <3>3, <3>4, <3>5 DEF CheckBudget
  <2>4. ASSUME NEW r \in Requests, Pipeline(r), ~CheckBudget(r) PROVE UNCHANGED Budget!vars
    <3>1. UNCHANGED budget
      BY <2>4 DEF Pipeline, Admit, TurnAway, CacheHit, CacheMiss, Estimate, DryRun, Execute,
                  ExecuteFails, Report, Error, Finally, Leave
    <3> QED
      BY <2>1, <3>1
  <2>5. ASSUME NEW r \in Requests, NEW u \in Users \union Admins, NEW kind \in Kinds,
               Arrive(r, u, kind)
        PROVE  UNCHANGED Budget!vars
    BY <2>1, <2>5 DEF Arrive
  <2>6. ASSUME NEW u \in Users, NEW d \in Dates, KeyExpires(u, d)
        PROVE  [Budget!Next]_(Budget!vars)
    <3>1. usage' = [usage EXCEPT ![u][d] = None] /\ UNCHANGED <<date, closing>>
      BY <2>6 DEF KeyExpires
    <3>2. date \in 1..MaxDate /\ d \in 1..MaxDate
      BY DEF TypeOK, Dates
    <3>3. d = date => closing
      BY <2>6, <3>2, PipelineConstants DEF KeyExpires
    <3> QED
      BY <3>1, <3>3, Deletion
  <2>7. CASE LastSecond
    <3>1. \A u \in Users : Spent(u, date)' = Spent(u, date)
      BY <2>7 DEF LastSecond, keys, Spent
    <3>2. Budget!LastSecond
      BY <2>7, <3>1 DEF LastSecond, Budget!LastSecond
    <3> QED
      BY <3>2 DEF Budget!Next
  <2>8. CASE Midnight
    BY <2>8, NewDate DEF Budget!Next
  <2>9. CASE Crash
    BY <2>1, <2>9 DEF Crash
  <2>10. CASE UNCHANGED vars
    BY <2>1, <2>10 DEF vars
  <2>11. ASSUME Next PROVE [Budget!Next]_(Budget!vars)
    BY <2>3, <2>4, <2>5, <2>6, <2>7, <2>8, <2>9, <2>11 DEF Next
  <2> QED
    BY <2>10, <2>11
<1> QED
  BY <1>1, <1>2, TypeCorrect, DaysPassed, PTL DEF Spec, DailyLimit, Budget!Spec

-----------------------------------------------------------------------------
(* Audit *)

\* A write is applied in the last places only, and whoever has an answer of rows
\* or a refusal, or has written and did not fail, has started its audit task.
Traced(r) ==
    /\ tx[r] = "applied" => At(r, {"report", "finally", "answered"})
    /\ At(r, {"finally", "answered"}) =>
          /\ answer[r] \in {"rows", "refused"} => audited[r]
          /\ tx[r] = "applied" => audited[r] \/ answer[r] = "error"

AllTraced == \A r \in Requests : Traced(r)

LEMMA GotoPlace ==
  ASSUME TypeOK, NEW r \in Requests, NEW label, Goto(r, label)
  PROVE  \A q \in Requests : req'[q].pc = IF q = r THEN label ELSE req[q].pc
BY DEF Goto, TypeOK, Asking

\* A step of one request is traced if that request is.
LEMMA OneIsTraced ==
  ASSUME AllTraced, NEW r \in Requests, Traced(r)',
         \A q \in Requests \ {r} : /\ req'[q].pc = req[q].pc /\ answer'[q] = answer[q]
                                   /\ tx'[q] = tx[q] /\ audited'[q] = audited[q]
  PROVE  AllTraced'
BY DEF AllTraced, Traced, At

\* On the way to the statement nothing is applied or answered.
LEMMA MoveIsTraced ==
  ASSUME TypeOK, AllTraced, NEW r \in Requests, UNCHANGED outcome,
         ~At(r, {"report", "finally", "answered"}), req'[r].pc \notin {"finally", "answered"},
         \A q \in Requests \ {r} : req'[q].pc = req[q].pc
  PROVE  AllTraced'
<1>1. Traced(r)'
  BY DEF AllTraced, Traced, At, outcome
<1> QED
  BY <1>1, OneIsTraced DEF outcome

\* With its audit task started, a request may end in any way.
LEMMA AuditIsTraced ==
  ASSUME TypeOK, AllTraced, NEW r \in Requests, NEW given, answer' = [answer EXCEPT ![r] = given],
         StartAudit(r), Goto(r, "finally"), \A q \in Requests \ {r} : tx'[q] = tx[q]
  PROVE  AllTraced'
<1>1. audited'[r] = TRUE /\ \A q \in Requests \ {r} : audited'[q] = audited[q] /\ answer'[q] = answer[q]
  BY DEF StartAudit, TypeOK
<1>2. \A q \in Requests : req'[q].pc = IF q = r THEN "finally" ELSE req[q].pc
  BY GotoPlace
<1>3. Traced(r)'
  BY <1>1, <1>2 DEF Traced, At
<1> QED
  BY <1>1, <1>2, <1>3, OneIsTraced

LEMMA AuditStep == TypeOK /\ AllTraced /\ [Next]_vars => AllTraced'
<1> SUFFICES ASSUME TypeOK, AllTraced, [Next]_vars PROVE AllTraced'
  OBVIOUS
<1>a. ASSUME NEW r \in Requests, NEW label \in Places \ {"finally", "answered"}, Goto(r, label),
             ~At(r, {"report", "finally", "answered"}), UNCHANGED outcome
      PROVE  AllTraced'
  BY <1>a, GotoPlace, MoveIsTraced
<1>b. ASSUME NEW r \in Requests, NEW pc \in Places \ {"finally", "answered"},
             NEW u, NEW kind, NEW c, NEW d, req' = [req EXCEPT ![r] = Asks(pc, u, kind, c, d)],
             ~At(r, {"report", "finally", "answered"}), UNCHANGED outcome
      PROVE  AllTraced'
  <2>1. req'[r] = Asks(pc, u, kind, c, d) /\ \A q \in Requests \ {r} : req'[q] = req[q]
    BY <1>b DEF TypeOK
  <2>2. req'[r].pc = pc
    BY <2>1, AsksFields
  <2> QED
    BY <1>b, <2>1, <2>2, MoveIsTraced
<1>c. ASSUME NEW r \in Requests, Refuse(r), UNCHANGED tx PROVE AllTraced'
  BY <1>c, AuditIsTraced DEF Refuse
<1>1. ASSUME NEW r \in Requests, NEW u \in Users \union Admins, NEW kind \in Kinds,
             Arrive(r, u, kind)
      PROVE  AllTraced'
  BY <1>1, <1>b DEF Arrive, Places, At
<1>2. ASSUME NEW r \in Requests, Admit(r) \/ SkipBudget(r) PROVE AllTraced'
  BY <1>2, <1>a DEF Admit, SkipBudget, Places, At
<1>3. ASSUME NEW r \in Requests, NEW u \in Users, OverBudget(r, u) PROVE AllTraced'
  BY <1>3, <1>c DEF OverBudget
<1>18. ASSUME NEW r \in Requests, TurnAway(r) PROVE AllTraced'
  BY <1>18, <1>c DEF TurnAway
<1>4. ASSUME NEW r \in Requests, CacheHit(r) PROVE AllTraced'
  BY <1>4, AuditIsTraced DEF CacheHit
<1>5. ASSUME NEW r \in Requests, CacheMiss(r) PROVE AllTraced'
  <2>1. UNCHANGED outcome /\ ~At(r, {"report", "finally", "answered"})
    BY <1>5 DEF CacheMiss, At
  <2>2. CASE req[r].kind.ext
    <3>1. req' = [req EXCEPT ![r] = Asks("budget", req[r].user, req[r].kind, 0, date)]
      BY <1>5, <2>2 DEF CacheMiss
    <3> QED
      BY <1>b, <2>1, <3>1 DEF Places
  <2>3. CASE ~req[r].kind.ext
    <3>1. req' = [req EXCEPT ![r] = Asks("cost", req[r].user, req[r].kind, 0, date)]
      BY <1>5, <2>3 DEF CacheMiss
    <3> QED
      BY <1>b, <2>1, <3>1 DEF Places
  <2> QED
    BY <2>2, <2>3
<1>6. ASSUME NEW r \in Requests, NEW c \in Costs, Estimate(r, c) PROVE AllTraced'
  <2>1. CASE Refuse(r)
    BY <1>6, <1>c, <2>1 DEF Estimate
  <2>2. CASE /\ req' = [req EXCEPT ![r] = Asks("budget", req[r].user, req[r].kind, c, date)]
             /\ UNCHANGED <<answer, audited>>
    BY <1>6, <1>b, <2>2 DEF Estimate, Places, At, outcome
  <2> QED
    BY <1>6, <2>1, <2>2 DEF Estimate
<1>7. ASSUME NEW r \in Requests, NEW u \in Users,
             Charge(r, u) \/ ReadTTL(r, u) \/ SetTTL(r, u) \/ SetNoTTL(r, u)
      PROVE  AllTraced'
  <2>1. UNCHANGED outcome /\ ~At(r, {"report", "finally", "answered"})
    BY <1>7 DEF Charge, ReadTTL, SetTTL, SetNoTTL, At, outcome
  <2>2. \E label \in {"ttl", "run", "expire", "expire now"} : Goto(r, label)
    BY <1>7 DEF Charge, ReadTTL, SetTTL, SetNoTTL
  <2> QED
    BY <1>a, <2>1, <2>2 DEF Places
<1>8. ASSUME NEW r \in Requests, DryRun(r) PROVE AllTraced'
  <2>1. /\ answer'[r] = "plan" /\ UNCHANGED <<tx, audited>>
        /\ \A q \in Requests \ {r} : answer'[q] = answer[q]
    BY <1>8 DEF DryRun, TypeOK
  <2>2. \A q \in Requests : req'[q].pc = IF q = r THEN "finally" ELSE req[q].pc
    BY <1>8, GotoPlace DEF DryRun
  <2>3. tx[r] # "applied"
    BY <1>8 DEF DryRun, AllTraced, Traced, At
  <2>4. Traced(r)'
    BY <2>1, <2>2, <2>3 DEF Traced, At
  <2> QED
    BY <2>1, <2>2, <2>4, OneIsTraced
<1>9. ASSUME NEW r \in Requests, Execute(r) PROVE AllTraced'
  <2>1. UNCHANGED <<answer, audited>> /\ \A q \in Requests \ {r} : tx'[q] = tx[q]
    BY <1>9 DEF Execute, TypeOK
  <2>2. \A q \in Requests : req'[q].pc = IF q = r THEN "report" ELSE req[q].pc
    BY <1>9, GotoPlace DEF Execute
  <2>3. Traced(r)'
    BY <2>2 DEF Traced, At
  <2> QED
    BY <2>1, <2>2, <2>3, OneIsTraced
<1>10. ASSUME NEW r \in Requests, NEW applied \in BOOLEAN, ExecuteFails(r, applied) PROVE AllTraced'
  <2>1. \A q \in Requests \ {r} : tx'[q] = tx[q]
    BY <1>10 DEF ExecuteFails, TypeOK
  <2> QED
    BY <1>10, <2>1, AuditIsTraced DEF ExecuteFails, Refuse
<1>11. ASSUME NEW r \in Requests, Report(r) PROVE AllTraced'
  BY <1>11, AuditIsTraced DEF Report
<1>12. ASSUME NEW r \in Requests, Error(r) PROVE AllTraced'
  <2>1. /\ answer'[r] = "error" /\ UNCHANGED <<tx, audited>>
        /\ \A q \in Requests \ {r} : answer'[q] = answer[q]
    BY <1>12 DEF Error, TypeOK
  <2>2. \A q \in Requests : req'[q].pc = IF q = r THEN "finally" ELSE req[q].pc
    BY <1>12, GotoPlace DEF Error
  <2>3. Traced(r)'
    BY <2>1, <2>2 DEF Traced, At
  <2> QED
    BY <2>1, <2>2, <2>3, OneIsTraced
<1>13. ASSUME NEW r \in Requests, Finally(r) PROVE AllTraced'
  <2>1. /\ answer'[r] \in {answer[r], "error"} /\ UNCHANGED <<tx, audited>>
        /\ \A q \in Requests \ {r} : answer'[q] = answer[q]
    BY <1>13 DEF Finally, TypeOK
  <2>2. \A q \in Requests : req'[q].pc = IF q = r THEN "answered" ELSE req[q].pc
    BY <1>13, GotoPlace DEF Finally
  <2>3. Traced(r)'
    BY <1>13, <2>1, <2>2 DEF Finally, AllTraced, Traced, At
  <2> QED
    BY <2>1, <2>2, <2>3, OneIsTraced
<1>14. ASSUME NEW r \in Requests, Leave(r) PROVE AllTraced'
  <2>1. /\ tx'[r] = "none"
        /\ \A q \in Requests \ {r} : answer'[q] = answer[q] /\ tx'[q] = tx[q] /\ audited'[q] = audited[q]
    BY <1>14 DEF Leave, TypeOK
  <2>2. req'[r].pc = "idle" /\ \A q \in Requests \ {r} : req'[q] = req[q]
    BY <1>14 DEF Leave, TypeOK, Idle, Asks
  <2>3. Traced(r)'
    BY <2>1, <2>2 DEF Traced, At
  <2> QED
    BY <2>1, <2>2, <2>3, OneIsTraced
<1>15. CASE Crash
  BY <1>15 DEF Crash, AllTraced, Traced, At, Idle, Asks
<1>16. ASSUME UNCHANGED <<req, outcome>> PROVE AllTraced'
  BY <1>16 DEF AllTraced, Traced, At, outcome
<1>17. ASSUME NEW r \in Requests, Pipeline(r) PROVE AllTraced'
  BY <1>2, <1>3, <1>18, <1>4, <1>5, <1>6, <1>7, <1>8, <1>9, <1>10, <1>11, <1>12, <1>13, <1>14,
     <1>17 DEF Pipeline, CheckBudget
<1> QED
  BY <1>1, <1>15, <1>16, <1>17 DEF Next, KeyExpires, LastSecond, Midnight, vars

\* Every request whose client got rows or a refusal has its audit task, and every
\* write applied without one ended in an error.
THEOREM AlwaysAudited == Spec => []AnswersAreAudited
<1>1. Init => AllTraced
  BY DEF Init, AllTraced, Traced, At, Idle, Asks
<1>2. AllTraced => AnswersAreAudited
  BY DEF AllTraced, Traced, AnswersAreAudited, At
<1> QED
  BY <1>1, <1>2, AuditStep, TypeCorrect, PTL DEF Spec

-----------------------------------------------------------------------------
(* Budget keys that nobody is about to give a TTL *)

\* The request is between its charge of the key and the EXPIRE of it.
Owing(r, u, d) ==
    At(r, {"ttl", "expire", "expire now"}) /\ req[r].user = u /\ req[r].day = d

\* A key stays remembered when it and those who owe it an EXPIRE stay as they are.
LEMMA Remembered ==
  ASSUME NEW u, NEW d, ~Forgotten(u, d),
         usage'[u][d] = usage[u][d], expiring'[u][d] = expiring[u][d],
         \A r \in Requests : Owing(r, u, d) => Owing(r, u, d)'
  PROVE  ~Forgotten(u, d)'
BY DEF Forgotten, Owing

\* A step of a request that does not owe it.
LEMMA OthersRemember ==
  ASSUME NEW u, NEW d, ~Forgotten(u, d), UNCHANGED keys,
         NEW r \in Requests, ~Owing(r, u, d),
         \A q \in Requests \ {r} : req'[q] = req[q]
  PROVE  ~Forgotten(u, d)'
<1>1. \A q \in Requests : Owing(q, u, d) => Owing(q, u, d)'
  BY DEF Owing, At
<1> QED
  BY <1>1, Remembered DEF keys

LEMMA GotoOthers ==
  ASSUME TypeOK, NEW r \in Requests, NEW label, Goto(r, label)
  PROVE  /\ req'[r].pc = label /\ req'[r].user = req[r].user /\ req'[r].day = req[r].day
         /\ \A q \in Requests \ {r} : req'[q] = req[q]
BY DEF Goto, TypeOK, Asking

LEMMA RefuseOthers ==
  ASSUME TypeOK, NEW r \in Requests, Refuse(r)
  PROVE  \A q \in Requests \ {r} : req'[q] = req[q]
BY GotoOthers DEF Refuse

\* A step of check_budget of the key's owners and of anyone else
LEMMA BudgetRemembers ==
  ASSUME TypeOK, NEW u \in Users, NEW d \in Dates, ~Forgotten(u, d),
         NEW r \in Requests, CheckBudget(r)
  PROVE  ~Forgotten(u, d)'
<1>1. CASE SkipBudget(r)
  BY <1>1, GotoOthers, OthersRemember DEF SkipBudget, Owing, At, budget
<1>2. ASSUME NEW v \in Users, Charge(r, v) PROVE ~Forgotten(u, d)'
  <2>1. /\ req'[r].pc = "ttl" /\ req'[r].user = v /\ req'[r].day = req[r].day
        /\ \A q \in Requests \ {r} : req'[q] = req[q]
    BY <1>2, GotoOthers DEF Charge
  <2>2. CASE v = u /\ req[r].day = d
    BY <2>1, <2>2 DEF Forgotten, At
  <2>3. CASE ~(v = u /\ req[r].day = d)
    <3>1. usage'[u][d] = usage[u][d] /\ expiring' = expiring
      BY <1>2, <2>3 DEF Charge, TypeOK
    <3>2. \A q \in Requests : Owing(q, u, d) => Owing(q, u, d)'
      BY <1>2, <2>1 DEF Charge, Owing, At
    <3> QED
      BY <3>1, <3>2, Remembered
  <2> QED
    BY <2>2, <2>3
<1>3. ASSUME NEW v \in Users, OverBudget(r, v) PROVE ~Forgotten(u, d)'
  BY <1>3, RefuseOthers, OthersRemember DEF OverBudget, Owing, At, budget
<1>4. ASSUME NEW v \in Users, ReadTTL(r, v) PROVE ~Forgotten(u, d)'
  <2>1. /\ UNCHANGED keys
        /\ expiring[v][req[r].day] \/ req'[r].pc \in {"expire", "expire now"}
        /\ v = req[r].user /\ req'[r].user = req[r].user /\ req'[r].day = req[r].day
        /\ \A q \in Requests \ {r} : req'[q] = req[q]
    BY <1>4, GotoOthers DEF ReadTTL, budget
  <2>2. CASE v = u /\ req[r].day = d /\ expiring[u][d]
    BY <2>1, <2>2 DEF Forgotten, keys
  <2>3. CASE ~(v = u /\ req[r].day = d)
    BY <2>1, <2>3, OthersRemember DEF Owing
  <2>4. CASE v = u /\ req[r].day = d /\ ~expiring[u][d]
    BY <2>1, <2>4 DEF Forgotten, At
  <2> QED
    BY <2>2, <2>3, <2>4
<1>5. ASSUME NEW v \in Users, SetTTL(r, v) PROVE ~Forgotten(u, d)'
  <2>1. /\ v = req[r].user /\ usage' = usage
        /\ \A q \in Requests \ {r} : req'[q] = req[q]
    BY <1>5, GotoOthers DEF SetTTL
  <2>2. CASE v = u /\ req[r].day = d
    <3>1. expiring'[u][d] = (usage[u][d] # None)
      BY <1>5, <2>2 DEF SetTTL, TypeOK
    <3> QED
      BY <2>1, <3>1 DEF Forgotten
  <2>3. CASE ~(v = u /\ req[r].day = d)
    <3>1. expiring'[u][d] = expiring[u][d]
      BY <1>5, <2>3 DEF SetTTL, TypeOK
    <3>2. \A q \in Requests : Owing(q, u, d) => Owing(q, u, d)'
      BY <2>1, <2>3 DEF Owing, At
    <3> QED
      BY <2>1, <3>1, <3>2, Remembered
  <2> QED
    BY <2>2, <2>3
<1>6. ASSUME NEW v \in Users, SetNoTTL(r, v) PROVE ~Forgotten(u, d)'
  <2>1. v = req[r].user /\ \A q \in Requests \ {r} : req'[q] = req[q]
    BY <1>6, GotoOthers DEF SetNoTTL
  <2>2. CASE v = u /\ req[r].day = d
    <3>1. usage'[u][d] = None
      BY <1>6, <2>2 DEF SetNoTTL, TypeOK
    <3> QED
      BY <3>1 DEF Forgotten
  <2>3. CASE ~(v = u /\ req[r].day = d)
    <3>1. expiring'[u][d] = expiring[u][d] /\ usage'[u][d] = usage[u][d]
      BY <1>6, <2>3 DEF SetNoTTL, TypeOK
    <3>2. \A q \in Requests : Owing(q, u, d) => Owing(q, u, d)'
      BY <2>1, <2>3 DEF Owing, At
    <3> QED
      BY <3>1, <3>2, Remembered
  <2> QED
    BY <2>2, <2>3
<1> QED
  BY <1>1, <1>2, <1>3, <1>4, <1>5, <1>6 DEF CheckBudget

\* The other steps of a request leave the keys alone, and only Error leaves an
\* EXPIRE undone.
LEMMA PipelineRemembers ==
  ASSUME TypeOK, NEW u \in Users, NEW d \in Dates, ~Forgotten(u, d),
         NEW r \in Requests, Pipeline(r), ~(Error(r) /\ req[r].user = u)
  PROVE  ~Forgotten(u, d)'
<1> USE DEF Owing, At, budget
<1>1. CASE Admit(r) \/ CacheHit(r) \/ DryRun(r) \/ Execute(r) \/ Report(r) \/ Finally(r)
  <2>1. UNCHANGED keys /\ ~Owing(r, u, d)
    BY <1>1 DEF Admit, CacheHit, DryRun, Execute, Report, Finally
  <2>2. \A q \in Requests \ {r} : req'[q] = req[q]
    BY <1>1, GotoOthers DEF Admit, CacheHit, DryRun, Execute, Report, Finally
  <2> QED
    BY <2>1, <2>2, OthersRemember
<1>2. CASE CacheMiss(r) \/ Leave(r) \/ \E c \in Costs : Estimate(r, c)
  <2>1. UNCHANGED keys /\ ~Owing(r, u, d)
    BY <1>2 DEF CacheMiss, Leave, Estimate
  <2>2. \A q \in Requests \ {r} : req'[q] = req[q]
    BY <1>2, RefuseOthers DEF CacheMiss, Leave, Estimate, TypeOK
  <2> QED
    BY <2>1, <2>2, OthersRemember
<1>3. CASE TurnAway(r) \/ \E applied \in BOOLEAN : ExecuteFails(r, applied)
  <2>1. UNCHANGED keys /\ ~Owing(r, u, d)
    BY <1>3 DEF TurnAway, ExecuteFails
  <2>2. \A q \in Requests \ {r} : req'[q] = req[q]
    BY <1>3, RefuseOthers DEF TurnAway, ExecuteFails
  <2> QED
    BY <2>1, <2>2, OthersRemember
<1>4. CASE Error(r)
  <2>1. UNCHANGED keys /\ req[r].user # u /\ \A q \in Requests \ {r} : req'[q] = req[q]
    BY <1>4, GotoOthers DEF Error
  <2> QED
    BY <2>1, OthersRemember
<1>5. CASE CheckBudget(r)
  BY <1>5, BudgetRemembers
<1> QED
  BY <1>1, <1>2, <1>3, <1>4, <1>5 DEF Pipeline

\* For any users and requests: a budget key is left in Redis without a TTL only by a
\* crash, or by an error in a request of its own user.
THEOREM KeysAreRemembered == Spec => OnlyBrokenRequestsForgetKeys
<1> DEFINE Step == \A u \in Users, d \in Dates :
                      ~Forgotten(u, d) /\ Forgotten(u, d)' =>
                         Crash \/ \E r \in Requests : Error(r) /\ req[r].user = u
<1>1. TypeOK /\ [Next]_vars => [Step]_vars
  <2> SUFFICES ASSUME TypeOK, Next, NEW u \in Users, NEW d \in Dates, ~Forgotten(u, d), ~Crash,
                      \A r \in Requests : ~(Error(r) /\ req[r].user = u)
               PROVE  ~Forgotten(u, d)'
    OBVIOUS
  <2>1. ASSUME NEW r \in Requests, Pipeline(r) PROVE ~Forgotten(u, d)'
    BY <2>1, PipelineRemembers
  <2>2. ASSUME NEW r \in Requests, NEW v \in Users \union Admins, NEW kind \in Kinds,
               Arrive(r, v, kind)
        PROVE  ~Forgotten(u, d)'
    <3>1. UNCHANGED keys /\ ~Owing(r, u, d) /\ \A q \in Requests \ {r} : req'[q] = req[q]
      BY <2>2 DEF Arrive, Owing, At, budget, TypeOK
    <3> QED
      BY <3>1, OthersRemember
  <2>3. ASSUME NEW v \in Users, NEW e \in Dates, KeyExpires(v, e) PROVE ~Forgotten(u, d)'
    <3>1. CASE v = u /\ e = d
      <4>1. usage'[u][d] = None
        BY <2>3, <3>1 DEF KeyExpires, TypeOK
      <4> QED
        BY <4>1 DEF Forgotten
    <3>2. CASE ~(v = u /\ e = d)
      <4>1. usage'[u][d] = usage[u][d] /\ expiring'[u][d] = expiring[u][d] /\ req' = req
        BY <2>3, <3>2 DEF KeyExpires, TypeOK
      <4> QED
        BY <4>1, Remembered DEF Owing, At
    <3> QED
      BY <3>1, <3>2
  <2>4. CASE LastSecond \/ Midnight
    BY <2>4, Remembered DEF LastSecond, Midnight, keys, Owing, At
  <2> QED
    BY <2>1, <2>2, <2>3, <2>4 DEF Next
<1> QED
  BY <1>1, TypeCorrect, PTL DEF Spec, OnlyBrokenRequestsForgetKeys
=============================================================================
