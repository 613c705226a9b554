------------------------------ MODULE Assistant ------------------------------
(***************************************************************************)
(* The AI endpoints (src/gateway/routers/v1/ai.py), their calls to the     *)
(* provider with retries, and the two per-minute limiters of a user:       *)
(* _check_ai_rate_limit and check_rate_limit, here for one user.  The      *)
(* middleware's limiter per address is the choice of arriving or not: any  *)
(* error of Redis lets a request through, so nothing rests on it.          *)
(*                                                                         *)
(* A limiter counts in a Redis key named by the minute: the clock is read, *)
(* then INCR runs, perhaps in a later minute.  Minutes are named by their  *)
(* age: 0 is now.  The keys live for two minutes from their first INCR, so *)
(* those of age 0 and 1 are there; what an INCR finds under an older name  *)
(* is open.  EXPIRE changes nothing but that, so a limiter is one step.    *)
(*                                                                         *)
(* What the model answers is abstracted to text or an "ERROR:" string; the *)
(* pipeline that runs generated SQL is module QueryPipeline.               *)
(***************************************************************************)
EXTENDS Naturals, FiniteSets

CONSTANTS
    Requests,   \* requests in flight
    Limit,      \* Limit[l]: requests per minute of each limiter
    MaxRetries  \* attempts of call_groq and call_gemini (1 for call_openai)

Limiters == {"ai", "user"}

ASSUME AssistantConstantsOK ==
    /\ IsFiniteSet(Requests)
    /\ Limit \in [Limiters -> Nat]
    /\ MaxRetries \in Nat \ {0}

VARIABLES
    count,   \* count[l][a]: the counter of l of the minute of age a, up to Limit + 1
    pc,      \* where each request is
    kind,    \* its endpoint
    age,     \* the age of the minute whose name it uses
    try,     \* attempts at the provider
    calls,   \* history: calls of asks counted in the minutes of age 0 and 1
    ran      \* history: queries run that were counted in these minutes

vars == <<count, pc, kind, age, try, calls, ran>>

\* nl-to-sql runs what it generated; explain, insights, explain-anomaly and
\* schema-chat answer with it; a query is an ordinary POST /query/execute.
Kinds == {"query", "nl", "ask"}

Labels == {"idle", "ai", "call", "backoff", "user"}

Recent == 0..1

Goto(r, label) == pc' = [pc EXCEPT ![r] = label]

\* The next limiter reads the clock: its minute is now.
Enter(r, label) ==
    /\ Goto(r, label)
    /\ age' = [age EXCEPT ![r] = 0]

Answer(r) ==
    /\ Enter(r, "idle")
    /\ kind' = [kind EXCEPT ![r] = "query"]
    /\ try' = [try EXCEPT ![r] = 0]

-----------------------------------------------------------------------------
(* Limiters *)

\* INCR of the key r has named; other values than Limit + 1 above are alike.
Incr(l, r) ==
    count' = IF age[r] \in Recent /\ count[l][age[r]] <= Limit[l]
               THEN [count EXCEPT ![l][age[r]] = @ + 1] ELSE count

\* The value INCR returns is within the limit; under a name that is older
\* than the keys it may be any value.
Within(l, r) == age[r] \in Recent => count[l][age[r]] < Limit[l]

-----------------------------------------------------------------------------

\* A request the middleware lets through: 429 past the limit of an address.
Arrive(r, k) ==
    /\ pc[r] = "idle"
    /\ kind' = [kind EXCEPT ![r] = k]
    /\ Enter(r, IF k = "query" THEN "user" ELSE "ai")
    /\ UNCHANGED <<count, try, calls, ran>>

\* Mutant: the counter is compared, with GET, and its INCR forgotten.
PassAiEarly(r) ==
    /\ pc[r] = "ai"
    /\ Within("ai", r)
    /\ Goto(r, "call")
    /\ UNCHANGED <<count, kind, age, try, calls, ran>>

\* _check_ai_rate_limit, then the topic of the question and, for nl-to-sql
\* and schema-chat, the schema.  The minute stays: the calls count for it.
PassAi(r) ==
    /\ pc[r] = "ai"
    /\ Within("ai", r)
    /\ Incr("ai", r)
    /\ Goto(r, "call")
    /\ UNCHANGED <<kind, age, try, calls, ran>>

\* nl-to-sql: a "top N" question needs no provider.
PassAiPattern(r) ==
    /\ pc[r] = "ai"
    /\ kind[r] = "nl"
    /\ Within("ai", r)
    /\ Incr("ai", r)
    /\ Enter(r, "user")
    /\ UNCHANGED <<kind, try, calls, ran>>

\* 429 past the limit, 400 for an off-topic question: it has been counted.
StopAi(r) ==
    /\ pc[r] = "ai"
    /\ Incr("ai", r)
    /\ Answer(r)
    /\ UNCHANGED <<calls, ran>>

-----------------------------------------------------------------------------
(* call_groq, call_gemini, call_openai *)

Called(r) ==
    calls' = IF age[r] \in Recent THEN [calls EXCEPT ![age[r]] = @ + 1] ELSE calls

\* The text is the answer; nl-to-sql takes it, with a LIMIT, to the pipeline.
TakeText(r) ==
    IF kind[r] = "nl"
      THEN /\ Enter(r, "user")
           /\ try' = [try EXCEPT ![r] = 0]
           /\ kind' = kind
      ELSE Answer(r)

CallSucceeds(r) ==
    /\ pc[r] = "call"
    /\ Called(r)
    /\ TakeText(r)
    /\ UNCHANGED <<count, ran>>

\* A deployment without a provider: text, or "ERROR:" for a sensitive column.
AnswerByMock(r) ==
    /\ pc[r] = "call"
    /\ try[r] = 0
    /\ TakeText(r) \/ Answer(r)
    /\ UNCHANGED <<count, calls, ran>>

\* Mutant: one attempt more than range(max_retries) has.
CallFailsOnceMore(r) ==
    /\ pc[r] = "call"
    /\ try[r] < MaxRetries
    /\ Called(r)
    /\ try' = [try EXCEPT ![r] = @ + 1]
    /\ Goto(r, "backoff")
    /\ UNCHANGED <<count, kind, age, ran>>

\* A 429 or an exception, attempts left: sleep.
CallFails(r) ==
    /\ pc[r] = "call"
    /\ try[r] + 1 < MaxRetries
    /\ Called(r)
    /\ try' = [try EXCEPT ![r] = @ + 1]
    /\ Goto(r, "backoff")
    /\ UNCHANGED <<count, kind, age, ran>>

\* The last attempt fails, or the answer has no choices: an "ERROR:" string,
\* which call_llm hands on instead of asking the mock.
CallGivesUp(r) ==
    /\ pc[r] = "call"
    /\ Called(r)
    /\ Answer(r)
    /\ UNCHANGED <<count, ran>>

EndBackoff(r) ==
    /\ pc[r] = "backoff"
    /\ Goto(r, "call")
    /\ UNCHANGED <<count, kind, age, try, calls, ran>>

-----------------------------------------------------------------------------
(* execute_query, with the user's limiter *)

\* Mutant: one query too many.
RunLate(r) ==
    /\ pc[r] = "user"
    /\ age[r] \in Recent => count["user"][age[r]] <= Limit["user"]
    /\ Incr("user", r)
    /\ ran' = IF age[r] \in Recent THEN [ran EXCEPT ![age[r]] = @ + 1] ELSE ran
    /\ Answer(r)
    /\ UNCHANGED calls

Run(r) ==
    /\ pc[r] = "user"
    /\ Within("user", r)
    /\ Incr("user", r)
    /\ ran' = IF age[r] \in Recent THEN [ran EXCEPT ![age[r]] = @ + 1] ELSE ran
    /\ Answer(r)
    /\ UNCHANGED calls

\* 429 past the limit; a query that another layer refuses has been counted.
DoNotRun(r) ==
    /\ pc[r] = "user"
    /\ Incr("user", r)
    /\ Answer(r)
    /\ UNCHANGED <<calls, ran>>

Step(r) ==
    \/ PassAi(r)
    \/ PassAiPattern(r)
    \/ StopAi(r)
    \/ CallSucceeds(r)
    \/ AnswerByMock(r)
    \/ CallFails(r)
    \/ CallGivesUp(r)
    \/ EndBackoff(r)
    \/ Run(r)
    \/ DoNotRun(r)

\* Redis or the pipeline fails, or the gateway stops.
Break(r) ==
    /\ pc[r] # "idle"
    /\ Answer(r)
    /\ UNCHANGED <<count, calls, ran>>

-----------------------------------------------------------------------------

\* The minute changes; what was of age 1 is forgotten.
Shift(f) == [a \in Recent |-> IF a = 0 THEN 0 ELSE f[a - 1]]

NextMinute ==
    /\ count' = [l \in Limiters |-> Shift(count[l])]
    /\ calls' = Shift(calls)
    /\ ran' = Shift(ran)
    /\ age' = [r \in Requests |->
                  IF pc[r] = "idle" THEN 0 ELSE IF age[r] = 2 THEN 2 ELSE age[r] + 1]
    /\ UNCHANGED <<pc, kind, try>>

Zero == [a \in Recent |-> 0]

Init ==
    /\ count = [l \in Limiters |-> Zero]
    /\ pc = [r \in Requests |-> "idle"]
    /\ kind = [r \in Requests |-> "query"]
    /\ age = [r \in Requests |-> 0]
    /\ try = [r \in Requests |-> 0]
    /\ calls = Zero
    /\ ran = Zero

Next ==
    \/ \E r \in Requests :
          \/ \E k \in Kinds : Arrive(r, k)
          \/ Step(r)
          \/ Break(r)
    \/ NextMinute

Spec == Init /\ [][Next]_vars

-----------------------------------------------------------------------------
(* Properties *)

TypeOK ==
    /\ \A l \in Limiters : count[l] \in [Recent -> 0..(Limit[l] + 1)]
    /\ pc \in [Requests -> Labels]
    /\ kind \in [Requests -> Kinds]
    /\ age \in [Requests -> 0..2]
    /\ try \in [Requests -> 0..(MaxRetries - 1)]
    /\ calls \in [Recent -> Nat]
    /\ ran \in [Recent -> Nat]

\* However requests interleave and however long they back off, the asks that
\* are counted in one minute make at most MaxRetries calls each to the
\* provider, and at most Limit of them make any (ai.py:67-93, 636-684).
ProviderIsSpared == \A a \in Recent : calls[a] <= MaxRetries * Limit["ai"]

\* No more queries counted in one minute are run than the user's limit,
\* those that nl-to-sql generated included (rate_limiter.py:34-46).
RunsWithinLimit == \A a \in Recent : ran[a] <= Limit["user"]

=============================================================================
