--------------------------- MODULE AdmissionProofs ---------------------------
(***************************************************************************)
(* What two admissions promise for any number of requests: the limiters of *)
(* Assistant, for every limit and number of attempts, and the whitelist of *)
(* Whitelist, for every lifetime of a copy.                                *)
(*                                                                         *)
(* ProviderIsSpared bounds a number of calls by a number of requests that  *)
(* were let in, so its invariant counts what these requests may still do:  *)
(* the attempts that they have left are a finite set, every call takes one *)
(* away, and a request that is let in adds as many as call_groq makes.     *)
(***************************************************************************)
EXTENDS Assistant, Whitelist, FiniteSetTheorems, TLAPS

-----------------------------------------------------------------------------
(* The invariant *)

Attempts == 0..(MaxRetries - 1)

Calling == {"call", "backoff"}

\* The attempts that the asks counted in the minute of age a have left.
Owed(a) == {p \in Requests \X Attempts :
               pc[p[1]] \in Calling /\ age[p[1]] = a /\ try[p[1]] <= p[2]}

\* The asks that the limiter has let in in the minute of age a, at the most.
LetIn(l, a) == IF count[l][a] <= Limit[l] THEN count[l][a] ELSE Limit[l]

\* Only a request that is calling the provider has used attempts.
TriesAreOwn == \A r \in Requests : pc[r] \notin Calling => try[r] = 0

CallsAreCounted ==
    \A a \in Recent : calls[a] + Cardinality(Owed(a)) <= MaxRetries * LetIn("ai", a)

RunsAreCounted == \A a \in Recent : ran[a] <= LetIn("user", a)

IInv ==
    /\ TypeOK
    /\ count \in [Limiters -> [Recent -> Nat]]
    /\ TriesAreOwn
    /\ CallsAreCounted
    /\ RunsAreCounted

-----------------------------------------------------------------------------
(* Types *)

LEMMA InitType == Init => TypeOK /\ count \in [Limiters -> [Recent -> Nat]]
BY AssistantConstantsOK DEF Init, TypeOK, Zero, Recent, Limiters, Labels, Kinds

LEMMA IncrType ==
  ASSUME TypeOK, NEW l \in Limiters, NEW r \in Requests, Incr(l, r)
  PROVE  \A m \in Limiters : count'[m] \in [Recent -> 0..(Limit[m] + 1)]
<1>1. CASE age[r] \in Recent /\ count[l][age[r]] <= Limit[l]
  <2>1. count' = [count EXCEPT ![l] = [count[l] EXCEPT ![age[r]] = count[l][age[r]] + 1]]
    BY <1>1 DEF Incr
  <2>2. [count[l] EXCEPT ![age[r]] = count[l][age[r]] + 1] \in [Recent -> 0..(Limit[l] + 1)]
    BY <1>1, AssistantConstantsOK DEF TypeOK
  <2> QED
    BY <2>1, <2>2 DEF TypeOK
<1>2. CASE ~(age[r] \in Recent /\ count[l][age[r]] <= Limit[l])
  BY <1>2 DEF Incr, TypeOK
<1> QED
  BY <1>1, <1>2

LEMMA TypeStep == TypeOK /\ [Next]_vars => TypeOK'
<1> SUFFICES ASSUME TypeOK, [Next]_vars PROVE TypeOK'
  OBVIOUS
<1> USE AssistantConstantsOK
<1> DEFINE Counts == \A m \in Limiters : count[m] \in [Recent -> 0..(Limit[m] + 1)]
<1>a. Counts
  BY DEF TypeOK
<1>b. ASSUME NEW l \in Limiters, NEW r \in Requests, Incr(l, r) PROVE Counts'
  BY <1>b, IncrType
<1>c. "ai" \in Limiters /\ "user" \in Limiters
  BY DEF Limiters
<1> HIDE DEF Counts
<1>d. ASSUME Counts', pc' \in [Requests -> Labels], kind' \in [Requests -> Kinds],
             age' \in [Requests -> 0..2], try' \in [Requests -> 0..(MaxRetries - 1)],
             calls' \in [Recent -> Nat], ran' \in [Recent -> Nat]
      PROVE  TypeOK'
  BY <1>d DEF Counts, TypeOK
<1>e. ASSUME NEW r \in Requests, Answer(r)
      PROVE  /\ pc' \in [Requests -> Labels] /\ kind' \in [Requests -> Kinds]
             /\ age' \in [Requests -> 0..2] /\ try' \in [Requests -> 0..(MaxRetries - 1)]
  BY <1>e DEF Answer, Enter, Goto, TypeOK, Labels, Kinds
<1>f. ASSUME NEW r \in Requests, Called(r) PROVE calls' \in [Recent -> Nat]
  BY <1>f DEF Called, TypeOK
<1>g. ASSUME NEW r \in Requests, TakeText(r)
      PROVE  /\ pc' \in [Requests -> Labels] /\ kind' \in [Requests -> Kinds]
             /\ age' \in [Requests -> 0..2] /\ try' \in [Requests -> 0..(MaxRetries - 1)]
  BY <1>g, <1>e DEF TakeText, Enter, Goto, TypeOK, Labels
<1>1. ASSUME NEW r \in Requests, NEW k \in Kinds, Arrive(r, k) PROVE TypeOK'
  BY <1>1, <1>a, <1>d DEF Arrive, Enter, Goto, TypeOK, Labels, Counts
<1>2. ASSUME NEW r \in Requests, PassAi(r) PROVE TypeOK'
  BY <1>2, <1>b, <1>c, <1>d DEF PassAi, Goto, TypeOK, Labels
<1>3. ASSUME NEW r \in Requests, PassAiPattern(r) PROVE TypeOK'
  BY <1>3, <1>b, <1>c, <1>d DEF PassAiPattern, Enter, Goto, TypeOK, Labels
<1>4. ASSUME NEW r \in Requests, StopAi(r) PROVE TypeOK'
  BY <1>4, <1>b, <1>c, <1>d, <1>e DEF StopAi, TypeOK
<1>5. ASSUME NEW r \in Requests, CallSucceeds(r) PROVE TypeOK'
  BY <1>5, <1>a, <1>d, <1>f, <1>g DEF CallSucceeds, TypeOK, Counts
<1>6. ASSUME NEW r \in Requests, AnswerByMock(r) PROVE TypeOK'
  BY <1>6, <1>a, <1>d, <1>e, <1>g DEF AnswerByMock, TypeOK, Counts
<1>7. ASSUME NEW r \in Requests, CallFails(r) PROVE TypeOK'
  BY <1>7, <1>a, <1>d, <1>f DEF CallFails, Goto, TypeOK, Labels, Counts
<1>8. ASSUME NEW r \in Requests, CallGivesUp(r) PROVE TypeOK'
  BY <1>8, <1>a, <1>d, <1>e, <1>f DEF CallGivesUp, TypeOK, Counts
<1>9. ASSUME NEW r \in Requests, EndBackoff(r) PROVE TypeOK'
  BY <1>9, <1>a, <1>d DEF EndBackoff, Goto, TypeOK, Labels, Counts
<1>10. ASSUME NEW r \in Requests, Run(r) PROVE TypeOK'
  <2>1. ran' \in [Recent -> Nat]
    BY <1>10 DEF Run, TypeOK
  <2> QED
    BY <1>10, <1>b, <1>c, <1>d, <1>e, <2>1 DEF Run, TypeOK
<1>11. ASSUME NEW r \in Requests, DoNotRun(r) PROVE TypeOK'
  BY <1>11, <1>b, <1>c, <1>d, <1>e DEF DoNotRun, TypeOK
<1>12. ASSUME NEW r \in Requests, Break(r) PROVE TypeOK'
  BY <1>12, <1>a, <1>d, <1>e DEF Break, TypeOK, Counts
<1>13. CASE NextMinute
  <2>1. Counts'
    BY <1>13 DEF NextMinute, Counts, TypeOK, Shift, Recent
  <2>2. calls' \in [Recent -> Nat] /\ ran' \in [Recent -> Nat]
    BY <1>13 DEF NextMinute, TypeOK, Shift, Recent
  <2>3. age' \in [Requests -> 0..2]
    BY <1>13 DEF NextMinute, TypeOK
  <2> QED
    BY <1>13, <1>d, <2>1, <2>2, <2>3 DEF NextMinute, TypeOK
<1>14. CASE UNCHANGED vars
  BY <1>14 DEF vars, TypeOK
<1> QED
  BY <1>1, <1>2, <1>3, <1>4, <1>5, <1>6, <1>7, <1>8, <1>9, <1>10, <1>11, <1>12, <1>13, <1>14
     DEF Next, Step

\* The types of counters, requests and histories, whatever the limits.
THEOREM TypeCorrect == Spec => []TypeOK
<1>1. Init => TypeOK
  BY InitType
<1> QED
  BY <1>1, TypeStep, PTL DEF Spec

-----------------------------------------------------------------------------
(* Attempts *)

LEMMA OwedIsFinite ==
  ASSUME NEW a PROVE IsFiniteSet(Owed(a)) /\ Cardinality(Owed(a)) \in Nat
<1>1. IsFiniteSet(Requests \X Attempts)
  <2>1. IsFiniteSet(Attempts)
    BY AssistantConstantsOK, FS_Interval DEF Attempts
  <2> QED
    BY <2>1, AssistantConstantsOK, FS_Product
<1>2. Owed(a) \in SUBSET (Requests \X Attempts)
  BY DEF Owed
<1> QED
  BY <1>1, <1>2, FS_Subset, FS_CardinalityType

\* Attempts that are given up are not made.
LEMMA FewerOwed ==
  ASSUME NEW a, Owed(a)' \subseteq Owed(a)
  PROVE  Cardinality(Owed(a)') \in Nat /\ Cardinality(Owed(a)') <= Cardinality(Owed(a))
<1>1. IsFiniteSet(Owed(a)) /\ Owed(a)' \in SUBSET Owed(a)
  BY OwedIsFinite
<1> QED
  BY <1>1, FS_Subset, FS_CardinalityType

\* A call is the attempt that it was.
LEMMA OneOwedLess ==
  ASSUME NEW a, NEW p \in Owed(a), Owed(a)' \subseteq Owed(a) \ {p}
  PROVE  Cardinality(Owed(a)') \in Nat /\ Cardinality(Owed(a)') + 1 <= Cardinality(Owed(a))
<1>1. IsFiniteSet(Owed(a) \ {p}) /\ Cardinality(Owed(a) \ {p}) = Cardinality(Owed(a)) - 1
  BY OwedIsFinite, FS_RemoveElement
<1>2. /\ Cardinality(Owed(a)') \in Nat
      /\ Cardinality(Owed(a)') <= Cardinality(Owed(a) \ {p})
  BY <1>1, FS_Subset, FS_CardinalityType
<1> QED
  BY <1>1, <1>2, OwedIsFinite

\* A request that is let in may make as many calls as call_groq has attempts.
LEMMA AttemptsMoreOwed ==
  ASSUME NEW a, NEW r \in Requests, Owed(a)' \subseteq Owed(a) \union ({r} \X Attempts)
  PROVE  Cardinality(Owed(a)') \in Nat /\ Cardinality(Owed(a)') <= Cardinality(Owed(a)) + MaxRetries
<1> DEFINE new == {r} \X Attempts
<1>1. IsFiniteSet(Attempts) /\ Cardinality(Attempts) = MaxRetries
  BY AssistantConstantsOK, FS_Interval DEF Attempts
<1>2. IsFiniteSet({r}) /\ Cardinality({r}) = 1
  BY FS_Singleton
<1>3. IsFiniteSet(new) /\ Cardinality(new) = MaxRetries
  <2>1. IsFiniteSet(new) /\ Cardinality(new) = 1 * MaxRetries
    BY <1>1, <1>2, FS_Product
  <2> QED
    BY <2>1, AssistantConstantsOK
<1>4. /\ IsFiniteSet(Owed(a) \union new)
      /\ Cardinality(Owed(a) \union new)
           = Cardinality(Owed(a)) + Cardinality(new) - Cardinality(Owed(a) \cap new)
  BY <1>3, OwedIsFinite, FS_Union
<1>5. Cardinality(Owed(a) \cap new) \in Nat
  BY OwedIsFinite, FS_Intersection, FS_CardinalityType
<1>6. /\ Cardinality(Owed(a)') \in Nat
      /\ Cardinality(Owed(a)') <= Cardinality(Owed(a) \union new)
  BY <1>4, FS_Subset, FS_CardinalityType
<1> HIDE DEF new
<1> QED
  BY <1>3, <1>4, <1>5, <1>6, OwedIsFinite, AssistantConstantsOK

-----------------------------------------------------------------------------
(* Limiters *)

\* The number let in is at most the limit, and grows with the counter.
LEMMA LetInType ==
  ASSUME TypeOK, NEW l \in Limiters, NEW a \in Recent
  PROVE  /\ LetIn(l, a) \in 0..Limit[l]
         /\ count[l][a] \in Nat /\ Limit[l] \in Nat
BY AssistantConstantsOK DEF TypeOK, LetIn

\* INCR raises one counter at most.
LEMMA IncrAdds ==
  ASSUME TypeOK, count \in [Limiters -> [Recent -> Nat]], NEW l \in Limiters,
         NEW r \in Requests, Incr(l, r)
  PROVE  /\ count' \in [Limiters -> [Recent -> Nat]]
         /\ \A m \in Limiters, a \in Recent : LetIn(m, a) <= LetIn(m, a)'
         /\ \A a \in Recent : Within(l, r) /\ age[r] = a => LetIn(l, a)' = LetIn(l, a) + 1
<1> USE AssistantConstantsOK
<1>1. CASE age[r] \in Recent /\ count[l][age[r]] <= Limit[l]
  <2>1. count' = [count EXCEPT ![l] = [count[l] EXCEPT ![age[r]] = count[l][age[r]] + 1]]
    BY <1>1 DEF Incr
  <2>2. count[l][age[r]] \in Nat /\ Limit[l] \in Nat
    BY <1>1
  <2>3. count'[l][age[r]] = count[l][age[r]] + 1
    BY <1>1, <2>1
  <2>4. \A m \in Limiters, a \in Recent : m # l \/ a # age[r] => count'[m][a] = count[m][a]
    BY <1>1, <2>1
  <2>5. count' \in [Limiters -> [Recent -> Nat]]
    <3>1. [count[l] EXCEPT ![age[r]] = count[l][age[r]] + 1] \in [Recent -> Nat]
      BY <1>1, <2>2
    <3> QED
      BY <2>1, <3>1
  <2>6. \A m \in Limiters, a \in Recent : LetIn(m, a) <= LetIn(m, a)'
    <3> TAKE m \in Limiters, a \in Recent
    <3>1. CASE m = l /\ a = age[r]
      BY <3>1, <2>2, <2>3 DEF LetIn
    <3>2. CASE m # l \/ a # age[r]
      BY <3>2, <2>4, LetInType DEF LetIn
    <3> QED
      BY <3>1, <3>2
  <2>7. \A a \in Recent : Within(l, r) /\ age[r] = a => LetIn(l, a)' = LetIn(l, a) + 1
    BY <1>1, <2>2, <2>3 DEF Within, LetIn
  <2> QED
    BY <2>5, <2>6, <2>7
<1>2. CASE ~(age[r] \in Recent /\ count[l][age[r]] <= Limit[l])
  <2>1. count' = count /\ ~(Within(l, r) /\ age[r] \in Recent)
    BY <1>2, LetInType DEF Incr, Within
  <2>2. \A m \in Limiters, a \in Recent : LetIn(m, a) <= LetIn(m, a)'
    BY <2>1, LetInType DEF LetIn
  <2> QED
    BY <2>1, <2>2
<1> QED
  BY <1>1, <1>2

LEMMA InitIInv == Init => IInv
<1> SUFFICES ASSUME Init PROVE IInv
  OBVIOUS
<1>1. TypeOK /\ count \in [Limiters -> [Recent -> Nat]]
  BY InitType
<1>2. \A a \in Recent : Owed(a) = {}
  BY DEF Init, Owed, Calling
<1>3. \A a \in Recent : calls[a] = 0 /\ ran[a] = 0 /\ LetIn("ai", a) \in Nat /\ LetIn("user", a) \in Nat
  BY <1>1, LetInType DEF Init, Zero, Limiters
<1>4. TriesAreOwn
  BY DEF Init, TriesAreOwn
<1>5. CallsAreCounted
  BY <1>2, <1>3, FS_EmptySet, AssistantConstantsOK DEF CallsAreCounted
<1>6. RunsAreCounted
  BY <1>3 DEF RunsAreCounted
<1> QED
  BY <1>1, <1>4, <1>5, <1>6 DEF IInv

-----------------------------------------------------------------------------
(* Steps *)

\* A step of r leaves the other requests where they are.
OnlyMoves(r) ==
    \A q \in Requests \ {r} : pc'[q] = pc[q] /\ age'[q] = age[q] /\ try'[q] = try[q]

\* r does not call the provider any more, or not yet.
Leaves(r) == pc'[r] \notin Calling /\ try'[r] = 0

Grows == \A m \in Limiters, a \in Recent : LetIn(m, a) <= LetIn(m, a)'

LEMMA OthersOwe ==
  ASSUME NEW r \in Requests, OnlyMoves(r), NEW a
  PROVE  /\ Owed(a)' \subseteq Owed(a) \union ({r} \X Attempts)
         /\ pc'[r] \notin Calling => \A p \in Owed(a)' : p \in Owed(a) /\ p[1] # r
BY DEF OnlyMoves, Owed

LEMMA Enough ==
  ASSUME IInv, TypeOK', NEW a \in Recent
  PROVE  /\ calls[a] \in Nat /\ ran[a] \in Nat
         /\ calls[a] + Cardinality(Owed(a)) <= MaxRetries * LetIn("ai", a)
         /\ LetIn("ai", a) \in Nat /\ LetIn("ai", a)' \in Nat
         /\ LetIn("ai", a) <= LetIn("ai", a)' =>
                MaxRetries * LetIn("ai", a) <= MaxRetries * LetIn("ai", a)'
<1>1. LetIn("ai", a) \in Nat /\ LetIn("ai", a)' \in Nat
  BY AssistantConstantsOK DEF IInv, TypeOK, LetIn, Limiters
<1>2. \A m, x, y \in Nat : x <= y => m * x <= m * y
  OBVIOUS
<1> QED
  BY <1>1, <1>2, AssistantConstantsOK DEF IInv, CallsAreCounted, TypeOK

\* The sum stays below the bound if calls and attempts change as they may.
LEMMA StillEnough ==
  ASSUME IInv, TypeOK', NEW a \in Recent, NEW k \in Nat,
         LetIn("ai", a) <= LetIn("ai", a)', calls'[a] = calls[a] + k,
         Cardinality(Owed(a)') \in Nat, Cardinality(Owed(a)') + k <= Cardinality(Owed(a))
  PROVE  calls'[a] + Cardinality(Owed(a)') <= MaxRetries * LetIn("ai", a)'
<1>1. /\ calls[a] \in Nat /\ Cardinality(Owed(a)) \in Nat
      /\ calls[a] + Cardinality(Owed(a)) <= MaxRetries * LetIn("ai", a)
      /\ MaxRetries * LetIn("ai", a) <= MaxRetries * LetIn("ai", a)'
      /\ MaxRetries * LetIn("ai", a) \in Nat /\ MaxRetries * LetIn("ai", a)' \in Nat
  BY Enough, OwedIsFinite, AssistantConstantsOK
<1>2. \A m, n, c, o, p \in Nat :
          c + o <= m /\ m <= n /\ p + k <= o => c + k + p <= n
  OBVIOUS
<1> QED
  BY <1>1, <1>2

\* A step without a call, that ends what r had left.
LEMMA QuietStep ==
  ASSUME IInv, TypeOK', NEW r \in Requests, OnlyMoves(r), Leaves(r), Grows, UNCHANGED calls
  PROVE  TriesAreOwn' /\ CallsAreCounted'
<1>1. TriesAreOwn'
  BY DEF TriesAreOwn, IInv, OnlyMoves, Leaves
<1>2. ASSUME NEW a \in Recent
      PROVE  calls'[a] + Cardinality(Owed(a)') <= MaxRetries * LetIn("ai", a)'
  <2>1. Owed(a)' \subseteq Owed(a)
    BY OthersOwe DEF Leaves
  <2>2. LetIn("ai", a) <= LetIn("ai", a)'
    BY DEF Grows, Limiters
  <2>3. calls'[a] = calls[a] + 0
    BY Enough
  <2>4. Cardinality(Owed(a)') \in Nat /\ Cardinality(Owed(a)') + 0 <= Cardinality(Owed(a))
    BY <2>1, FewerOwed, OwedIsFinite
  <2> QED
    BY <2>2, <2>3, <2>4, StillEnough
<1> QED
  BY <1>1, <1>2 DEF CallsAreCounted

\* A call takes one of the attempts that r had left, and r stops or may go on
\* with the next one.
LEMMA CallStep ==
  ASSUME IInv, TypeOK', NEW r \in Requests, pc[r] = "call", OnlyMoves(r), Called(r), UNCHANGED count,
         \/ Leaves(r)
         \/ pc'[r] \in Calling /\ age'[r] = age[r] /\ try'[r] = try[r] + 1
  PROVE  TriesAreOwn' /\ CallsAreCounted'
<1>1. TriesAreOwn'
  BY DEF TriesAreOwn, IInv, OnlyMoves, Leaves
<1>2. ASSUME NEW a \in Recent
      PROVE  calls'[a] + Cardinality(Owed(a)') <= MaxRetries * LetIn("ai", a)'
  <2>a. LetIn("ai", a) <= LetIn("ai", a)'
    BY Enough DEF LetIn
  <2>b. try[r] \in Attempts
    BY DEF IInv, TypeOK, Attempts
  <2>1. \A p \in Owed(a)' : p \in Owed(a) /\ p # <<r, try[r]>>
    <3>1. CASE Leaves(r)
      BY <3>1, OthersOwe DEF Leaves
    <3>2. CASE pc'[r] \in Calling /\ age'[r] = age[r] /\ try'[r] = try[r] + 1
      BY <3>2, <2>b DEF Owed, OnlyMoves, Calling, Attempts
    <3> QED
      BY <3>1, <3>2
  <2>2. CASE age[r] = a
    <3>1. <<r, try[r]>> \in Owed(a)
      BY <2>2, <2>b DEF Owed, Calling, Attempts
    <3>2. calls'[a] = calls[a] + 1
      BY <2>2 DEF Called, IInv, TypeOK
    <3>3. Owed(a)' \subseteq Owed(a) \ {<<r, try[r]>>}
      BY <2>1
    <3>4. Cardinality(Owed(a)') \in Nat /\ Cardinality(Owed(a)') + 1 <= Cardinality(Owed(a))
      BY <3>1, <3>3, OneOwedLess
    <3> QED
      BY <2>a, <3>2, <3>4, StillEnough
  <2>3. CASE age[r] # a
    <3>1. calls'[a] = calls[a] + 0
      BY <2>3, Enough DEF Called, IInv, TypeOK
    <3>2. Cardinality(Owed(a)') \in Nat /\ Cardinality(Owed(a)') + 0 <= Cardinality(Owed(a))
      BY <2>1, FewerOwed, OwedIsFinite
    <3> QED
      BY <2>a, <3>1, <3>2, StillEnough
  <2> QED
    BY <2>2, <2>3
<1> QED
  BY <1>1, <1>2 DEF CallsAreCounted

\* A request that is let in is counted, and has all of its attempts left.
LEMMA PassAiStep ==
  ASSUME IInv, TypeOK', NEW r \in Requests, PassAi(r)
  PROVE  TriesAreOwn' /\ CallsAreCounted'
<1>0. /\ pc[r] = "ai" /\ Within("ai", r) /\ Incr("ai", r) /\ UNCHANGED <<age, try, calls>>
      /\ pc' = [pc EXCEPT ![r] = "call"]
  BY DEF PassAi, Goto
<1>a. OnlyMoves(r) /\ pc'[r] = "call"
  BY <1>0 DEF OnlyMoves, IInv, TypeOK
<1>1. TriesAreOwn'
  BY <1>0, <1>a DEF TriesAreOwn, IInv, OnlyMoves, Calling
<1>2. ASSUME NEW a \in Recent
      PROVE  calls'[a] + Cardinality(Owed(a)') <= MaxRetries * LetIn("ai", a)'
  <2>a. /\ LetIn("ai", a) <= LetIn("ai", a)'
        /\ age[r] = a => LetIn("ai", a)' = LetIn("ai", a) + 1
    BY <1>0, IncrAdds DEF IInv, Limiters
  <2>1. CASE age[r] = a
    <3>1. /\ Cardinality(Owed(a)') \in Nat
          /\ Cardinality(Owed(a)') <= Cardinality(Owed(a)) + MaxRetries
      BY <1>a, OthersOwe, AttemptsMoreOwed
    <3>2. MaxRetries * (LetIn("ai", a) + 1) = MaxRetries * LetIn("ai", a) + MaxRetries
      BY Enough, AssistantConstantsOK
    <3>3. LetIn("ai", a)' = LetIn("ai", a) + 1
      BY <2>a, <2>1
    <3>4. calls'[a] = calls[a]
      BY <1>0
    <3>5. /\ calls[a] \in Nat /\ Cardinality(Owed(a)) \in Nat
          /\ calls[a] + Cardinality(Owed(a)) <= MaxRetries * LetIn("ai", a)
          /\ MaxRetries * LetIn("ai", a) \in Nat
      BY OwedIsFinite, Enough, AssistantConstantsOK
    <3>6. \A m, c, o, p \in Nat :
              c + o <= m /\ p <= o + MaxRetries => c + p <= m + MaxRetries
      BY AssistantConstantsOK
    <3> QED
      BY <3>1, <3>2, <3>3, <3>4, <3>5, <3>6
  <2>2. CASE age[r] # a
    <3>1. Owed(a)' \subseteq Owed(a)
      BY <1>0, <1>a, <2>2 DEF Owed, OnlyMoves
    <3>2. calls'[a] = calls[a] + 0
      BY <1>0, Enough
    <3>3. Cardinality(Owed(a)') \in Nat /\ Cardinality(Owed(a)') + 0 <= Cardinality(Owed(a))
      BY <3>1, FewerOwed, OwedIsFinite
    <3> QED
      BY <2>a, <3>2, <3>3, StillEnough
  <2> QED
    BY <2>1, <2>2
<1> QED
  BY <1>1, <1>2 DEF CallsAreCounted

\* A request that sleeps goes on with the attempts it has left.
LEMMA EndBackoffStep ==
  ASSUME IInv, TypeOK', NEW r \in Requests, EndBackoff(r)
  PROVE  TriesAreOwn' /\ CallsAreCounted'
<1>1. /\ pc[r] = "backoff" /\ UNCHANGED <<count, age, try, calls>>
      /\ pc' = [pc EXCEPT ![r] = "call"]
  BY DEF EndBackoff, Goto
<1>2. TriesAreOwn'
  BY <1>1 DEF TriesAreOwn, IInv, Calling, TypeOK
<1>3. ASSUME NEW a \in Recent
      PROVE  calls'[a] + Cardinality(Owed(a)') <= MaxRetries * LetIn("ai", a)'
  <2>1. Owed(a)' \subseteq Owed(a)
    BY <1>1 DEF Owed, Calling, IInv, TypeOK
  <2>2. LetIn("ai", a) <= LetIn("ai", a)'
    BY <1>1, Enough DEF LetIn
  <2>3. calls'[a] = calls[a] + 0
    BY <1>1, Enough
  <2>4. Cardinality(Owed(a)') \in Nat /\ Cardinality(Owed(a)') + 0 <= Cardinality(Owed(a))
    BY <2>1, FewerOwed, OwedIsFinite
  <2> QED
    BY <2>2, <2>3, <2>4, StillEnough
<1> QED
  BY <1>2, <1>3 DEF CallsAreCounted

\* What was of age 0 is of age 1; nobody is counted in the new minute yet.
LEMMA NextMinuteStep ==
  ASSUME IInv, TypeOK', NextMinute
  PROVE  TriesAreOwn' /\ CallsAreCounted' /\ RunsAreCounted'
<1>0. 0 \in Recent /\ 1 \in Recent /\ Recent = {0, 1} /\ "ai" \in Limiters /\ "user" \in Limiters
  BY DEF Recent, Limiters
<1>1. /\ \A l \in Limiters : count'[l][0] = 0 /\ count'[l][1] = count[l][0]
      /\ calls'[0] = 0 /\ calls'[1] = calls[0] /\ ran'[0] = 0 /\ ran'[1] = ran[0]
      /\ UNCHANGED <<pc, try>>
  BY <1>0 DEF NextMinute, Shift
<1>2. \A r \in Requests : pc[r] # "idle" =>
          /\ age'[r] # 0
          /\ age'[r] = 1 => age[r] = 0
  BY DEF NextMinute, IInv, TypeOK
<1>3. /\ \A l \in Limiters : LetIn(l, 1)' = LetIn(l, 0)
      /\ \A l \in Limiters : LetIn(l, 0)' = 0
  BY <1>1, AssistantConstantsOK DEF LetIn
<1>4. TriesAreOwn'
  BY <1>1 DEF TriesAreOwn, IInv
<1>5. Owed(0)' = {}
  BY <1>1, <1>2 DEF Owed, Calling
<1>6. Cardinality(Owed(1)') \in Nat /\ Cardinality(Owed(1)') <= Cardinality(Owed(0))
  <2>1. Owed(1)' \in SUBSET Owed(0)
    BY <1>1, <1>2 DEF Owed, Calling
  <2> QED
    BY <2>1, OwedIsFinite, FS_Subset, FS_CardinalityType
<1>7. CallsAreCounted'
  <2>1. calls'[0] + Cardinality(Owed(0)') <= MaxRetries * LetIn("ai", 0)'
    <3>1. calls'[0] = 0 /\ LetIn("ai", 0)' = 0
      BY <1>0, <1>1, <1>3
    <3>2. Cardinality(Owed(0)') = 0
      BY <1>5, FS_EmptySet
    <3>3. MaxRetries * 0 = 0
      BY AssistantConstantsOK
    <3> QED
      BY <3>1, <3>2, <3>3
  <2>2. calls'[1] + Cardinality(Owed(1)') <= MaxRetries * LetIn("ai", 1)'
    <3>1. /\ calls[0] \in Nat /\ Cardinality(Owed(0)) \in Nat
          /\ calls[0] + Cardinality(Owed(0)) <= MaxRetries * LetIn("ai", 0)
          /\ MaxRetries * LetIn("ai", 0) \in Nat
      BY <1>0, OwedIsFinite, Enough, AssistantConstantsOK
    <3>2. calls'[1] = calls[0] /\ LetIn("ai", 1)' = LetIn("ai", 0)
      BY <1>0, <1>1, <1>3
    <3>3. \A m, c, o, p \in Nat : c + o <= m /\ p <= o => c + p <= m
      OBVIOUS
    <3> QED
      BY <1>6, <3>1, <3>2, <3>3
  <2> QED
    BY <1>0, <2>1, <2>2 DEF CallsAreCounted
<1>8. RunsAreCounted'
  BY <1>0, <1>1, <1>3 DEF RunsAreCounted, IInv
<1> QED
  BY <1>4, <1>7, <1>8

\* A step that runs no query.
LEMMA NothingRuns ==
  ASSUME IInv, TypeOK', Grows, UNCHANGED ran PROVE RunsAreCounted'
<1> SUFFICES ASSUME NEW a \in Recent PROVE ran[a] <= LetIn("user", a)'
  BY DEF RunsAreCounted
<1>1. /\ ran[a] \in Nat /\ LetIn("user", a) \in Nat /\ LetIn("user", a)' \in Nat
      /\ ran[a] <= LetIn("user", a) /\ LetIn("user", a) <= LetIn("user", a)'
  BY AssistantConstantsOK DEF IInv, TypeOK, RunsAreCounted, LetIn, Limiters, Grows
<1> QED
  BY <1>1

\* A query is run by a request that its limiter has just let in.
LEMMA RunStep ==
  ASSUME IInv, TypeOK', NEW r \in Requests, Run(r) PROVE RunsAreCounted'
<1> SUFFICES ASSUME NEW a \in Recent PROVE ran'[a] <= LetIn("user", a)'
  BY DEF RunsAreCounted
<1>1. /\ ran[a] \in Nat /\ LetIn("user", a) \in Nat /\ LetIn("user", a)' \in Nat
      /\ ran[a] <= LetIn("user", a)
  BY AssistantConstantsOK DEF IInv, TypeOK, RunsAreCounted, LetIn, Limiters
<1>2. /\ LetIn("user", a) <= LetIn("user", a)'
      /\ age[r] = a => LetIn("user", a)' = LetIn("user", a) + 1
  BY IncrAdds DEF Run, IInv, Limiters
<1>3. ran'[a] = IF age[r] = a THEN ran[a] + 1 ELSE ran[a]
  BY DEF Run, IInv, TypeOK
<1> QED
  BY <1>1, <1>2, <1>3

LEMMA IInvStep == IInv /\ [Next]_vars => IInv'
<1> SUFFICES ASSUME IInv, [Next]_vars PROVE IInv'
  OBVIOUS
<1>0. TypeOK /\ TypeOK' /\ count \in [Limiters -> [Recent -> Nat]]
  BY TypeStep DEF IInv
<1> DEFINE Counts == count \in [Limiters -> [Recent -> Nat]]
<1>a. ASSUME UNCHANGED count PROVE Counts' /\ Grows
  BY <1>0, <1>a, LetInType DEF Grows, LetIn
<1>b. ASSUME NEW l \in Limiters, NEW r \in Requests, Incr(l, r) PROVE Counts' /\ Grows
  BY <1>0, <1>b, IncrAdds DEF Grows
<1>c. "ai" \in Limiters /\ "user" \in Limiters
  BY DEF Limiters
<1>d. ASSUME NEW r \in Requests, Answer(r) PROVE OnlyMoves(r) /\ Leaves(r)
  BY <1>0, <1>d DEF Answer, Enter, Goto, OnlyMoves, Leaves, TypeOK, Calling
<1>e. ASSUME NEW r \in Requests, NEW l, l \notin Calling, Enter(r, l),
             try[r] = 0 /\ UNCHANGED try
      PROVE  OnlyMoves(r) /\ Leaves(r)
  BY <1>0, <1>e DEF Enter, Goto, OnlyMoves, Leaves, TypeOK
<1>f. ASSUME NEW r \in Requests, TakeText(r) PROVE OnlyMoves(r) /\ Leaves(r)
  BY <1>0, <1>d, <1>f DEF TakeText, Enter, Goto, OnlyMoves, Leaves, TypeOK, Calling
<1>g. ASSUME NEW r \in Requests, OnlyMoves(r), Leaves(r), Counts', Grows, UNCHANGED <<calls, ran>>
      PROVE  IInv'
  BY <1>0, <1>g, QuietStep, NothingRuns DEF IInv
<1>h. ASSUME Counts', Grows, UNCHANGED ran, TriesAreOwn', CallsAreCounted'
      PROVE  IInv'
  BY <1>0, <1>h, NothingRuns DEF IInv
<1> HIDE DEF Counts
<1>1. ASSUME NEW r \in Requests, NEW k \in Kinds, Arrive(r, k) PROVE IInv'
  <2>1. OnlyMoves(r) /\ Leaves(r)
    BY <1>1, <1>e DEF Arrive, IInv, TriesAreOwn, Calling
  <2> QED
    BY <1>1, <1>a, <1>g, <2>1 DEF Arrive
<1>2. ASSUME NEW r \in Requests, PassAi(r) PROVE IInv'
  <2>1. TriesAreOwn' /\ CallsAreCounted'
    BY <1>0, <1>2, PassAiStep
  <2> QED
    BY <1>2, <1>b, <1>c, <1>h, <2>1 DEF PassAi
<1>3. ASSUME NEW r \in Requests, PassAiPattern(r) PROVE IInv'
  <2>1. OnlyMoves(r) /\ Leaves(r)
    BY <1>3, <1>e DEF PassAiPattern, IInv, TriesAreOwn, Calling
  <2> QED
    BY <1>3, <1>b, <1>c, <1>g, <2>1 DEF PassAiPattern
<1>4. ASSUME NEW r \in Requests, StopAi(r) PROVE IInv'
  BY <1>4, <1>b, <1>c, <1>d, <1>g DEF StopAi
<1>5. ASSUME NEW r \in Requests, CallSucceeds(r) PROVE IInv'
  <2>1. TriesAreOwn' /\ CallsAreCounted'
    BY <1>0, <1>5, <1>f, CallStep DEF CallSucceeds
  <2> QED
    BY <1>5, <1>a, <1>h, <2>1 DEF CallSucceeds
<1>6. ASSUME NEW r \in Requests, AnswerByMock(r) PROVE IInv'
  BY <1>6, <1>a, <1>d, <1>f, <1>g DEF AnswerByMock
<1>7. ASSUME NEW r \in Requests, CallFails(r) PROVE IInv'
  <2>1. /\ OnlyMoves(r) /\ pc[r] = "call" /\ Called(r)
        /\ pc'[r] \in Calling /\ age'[r] = age[r] /\ try'[r] = try[r] + 1
    BY <1>0, <1>7 DEF CallFails, Goto, OnlyMoves, Calling, TypeOK
  <2>2. TriesAreOwn' /\ CallsAreCounted'
    BY <1>0, <1>7, <2>1, CallStep DEF CallFails
  <2> QED
    BY <1>7, <1>a, <1>h, <2>2 DEF CallFails
<1>8. ASSUME NEW r \in Requests, CallGivesUp(r) PROVE IInv'
  <2>1. TriesAreOwn' /\ CallsAreCounted'
    BY <1>0, <1>8, <1>d, CallStep DEF CallGivesUp
  <2> QED
    BY <1>8, <1>a, <1>h, <2>1 DEF CallGivesUp
<1>9. ASSUME NEW r \in Requests, EndBackoff(r) PROVE IInv'
  BY <1>0, <1>9, <1>a, <1>h, EndBackoffStep DEF EndBackoff
<1>10. ASSUME NEW r \in Requests, Run(r) PROVE IInv'
  <2>1. Counts' /\ Grows /\ OnlyMoves(r) /\ Leaves(r) /\ UNCHANGED calls
    BY <1>10, <1>b, <1>c, <1>d DEF Run
  <2>2. TriesAreOwn' /\ CallsAreCounted'
    BY <1>0, <2>1, QuietStep
  <2> QED
    BY <1>0, <1>10, <2>1, <2>2, RunStep DEF IInv, Counts
<1>11. ASSUME NEW r \in Requests, DoNotRun(r) PROVE IInv'
  BY <1>11, <1>b, <1>c, <1>d, <1>g DEF DoNotRun
<1>12. ASSUME NEW r \in Requests, Break(r) PROVE IInv'
  BY <1>12, <1>a, <1>d, <1>g DEF Break
<1>13. CASE NextMinute
  <2>1. Counts'
    BY <1>0, <1>13 DEF Counts, NextMinute, Shift, Recent
  <2> QED
    BY <1>0, <1>13, <2>1, NextMinuteStep DEF IInv, Counts
<1>14. CASE UNCHANGED vars
  <2>1. Counts' /\ Grows /\ UNCHANGED ran
    BY <1>14, <1>a DEF vars
  <2>2. TriesAreOwn' /\ CallsAreCounted'
    BY <1>14 DEF vars, IInv, TriesAreOwn, CallsAreCounted, Owed, LetIn
  <2> QED
    BY <1>h, <2>1, <2>2
<1> QED
  BY <1>1, <1>2, <1>3, <1>4, <1>5, <1>6, <1>7, <1>8, <1>9, <1>10, <1>11, <1>12, <1>13, <1>14
     DEF Next, Step

-----------------------------------------------------------------------------
(* The theorems about the assistant *)

THEOREM Invariant == Spec => []IInv
BY InitIInv, IInvStep, PTL DEF Spec

\* The provider is not called more often in a minute than the limit and the retries
\* allow together, however many requests there are and however long they back off.
THEOREM ProviderSpared == Spec => []ProviderIsSpared
<1>1. IInv => ProviderIsSpared
  <2> SUFFICES ASSUME IInv, NEW a \in Recent PROVE calls[a] <= MaxRetries * Limit["ai"]
    BY DEF ProviderIsSpared
  <2>1. LetIn("ai", a) \in 0..Limit["ai"] /\ Limit["ai"] \in Nat
    BY LetInType DEF IInv, Limiters
  <2>2. /\ calls[a] \in Nat
        /\ calls[a] + Cardinality(Owed(a)) <= MaxRetries * LetIn("ai", a)
    BY DEF IInv, TypeOK, CallsAreCounted
  <2>3. \A m, x, y \in Nat : x <= y => m * x <= m * y
    OBVIOUS
  <2>4. /\ MaxRetries * LetIn("ai", a) <= MaxRetries * Limit["ai"]
        /\ MaxRetries * LetIn("ai", a) \in Nat /\ MaxRetries * Limit["ai"] \in Nat
    BY <2>1, <2>3, AssistantConstantsOK
  <2> QED
    BY <2>2, <2>4, OwedIsFinite
<1> QED
  BY <1>1, Invariant, PTL

\* The limiter of a user lets no more than its limit of queries run in a minute,
\* whether they were typed or generated.
THEOREM RunsStayWithinLimit == Spec => []RunsWithinLimit
<1>1. IInv => RunsWithinLimit
  BY LetInType DEF IInv, TypeOK, RunsAreCounted, RunsWithinLimit, Limiters
<1> QED
  BY <1>1, Invariant, PTL

-----------------------------------------------------------------------------
(* The whitelist *)

LEMMA WhitelistStarts == WhitelistInit => WhitelistTypeOK /\ ApprovalsHaveACause
<1> SUFFICES ASSUME WhitelistInit PROVE WhitelistTypeOK /\ ApprovalsHaveACause
  OBVIOUS
<1>1. row \in BOOLEAN /\ late \in BOOLEAN
  BY Zenon DEF WhitelistInit
<1>2. copy \in 0..CopyTTL
  BY CopyTTLOK DEF WhitelistInit
<1>3. stage \in [Queries -> Stages] /\ op \in [Admins -> {"idle", "insert", "cache", "delete", "miss", "forget"}]
  BY DEF WhitelistInit, Stages
<1> QED
  BY <1>1, <1>2, <1>3 DEF WhitelistInit, WhitelistTypeOK, ApprovalsHaveACause

LEMMA WhitelistTypeStep ==
  ASSUME WhitelistTypeOK, [WhitelistNext]_whitelistVars PROVE WhitelistTypeOK'
<1>1. row' \in BOOLEAN
  BY DEF WhitelistTypeOK, WhitelistNext, whitelistVars, Submit, Validate, Permit, ReadCopy, ReadRow,
         Fill, FillFails, RunQuery, Approve, InsertApproval, CacheApproval, Withdraw, DeleteApproval,
         DeleteNothing, ForgetApproval, LoseCommand, Tick
<1>2. copy' \in 0..CopyTTL
  BY CopyTTLOK DEF WhitelistTypeOK, WhitelistNext, whitelistVars, Submit, Validate, Permit, ReadCopy, ReadRow,
         Fill, FillFails, RunQuery, Approve, InsertApproval, CacheApproval, Withdraw, DeleteApproval,
         DeleteNothing, ForgetApproval, LoseCommand, Tick, SetCopy
<1>3. stage' \in [Queries -> Stages]
  BY DEF WhitelistTypeOK, WhitelistNext, whitelistVars, Submit, Validate, Permit, ReadCopy, ReadRow,
         Fill, FillFails, RunQuery, Approve, InsertApproval, CacheApproval, Withdraw, DeleteApproval,
         DeleteNothing, ForgetApproval, LoseCommand, Tick, Advance, Refuse, Stages
<1>4. op' \in [Admins -> {"idle", "insert", "cache", "delete", "miss", "forget"}]
  BY DEF WhitelistTypeOK, WhitelistNext, whitelistVars, Submit, Validate, Permit, ReadCopy, ReadRow,
         Fill, FillFails, RunQuery, Approve, InsertApproval, CacheApproval, Withdraw, DeleteApproval,
         DeleteNothing, ForgetApproval, LoseCommand, Tick
<1>5. late' \in BOOLEAN
  BY DEF WhitelistTypeOK, WhitelistNext, whitelistVars, Submit, Validate, Permit, ReadCopy, ReadRow,
         Fill, FillFails, RunQuery, Approve, InsertApproval, CacheApproval, Withdraw, DeleteApproval,
         DeleteNothing, ForgetApproval, LoseCommand, Tick, SetCopy
<1> QED
  BY <1>1, <1>2, <1>3, <1>4, <1>5 DEF WhitelistTypeOK

\* A copy without its row has a DEL to come, or the step that keeps it is late.
LEMMA CauseStep ==
  ASSUME WhitelistTypeOK, ApprovalsHaveACause, [WhitelistNext]_whitelistVars PROVE ApprovalsHaveACause'
<1> USE DEF ApprovalsHaveACause, WhitelistTypeOK
<1>1. ASSUME NEW r \in Queries, Fill(r) PROVE ApprovalsHaveACause'
  BY <1>1 DEF Fill, SetCopy
<1>2. ASSUME NEW a \in Admins, InsertApproval(a) PROVE ApprovalsHaveACause'
  BY <1>2 DEF InsertApproval
<1>3. ASSUME NEW a \in Admins, CacheApproval(a) PROVE ApprovalsHaveACause'
  BY <1>3 DEF CacheApproval, SetCopy
<1>4. ASSUME NEW a \in Admins, DeleteApproval(a) PROVE ApprovalsHaveACause'
  BY <1>4 DEF DeleteApproval
<1>5. ASSUME NEW a \in Admins, ForgetApproval(a) PROVE ApprovalsHaveACause'
  BY <1>5 DEF ForgetApproval
<1>6. ASSUME NEW a \in Admins, LoseCommand(a) PROVE ApprovalsHaveACause'
  <2>1. CASE op[a] = "forget"
    BY <1>6, <2>1 DEF LoseCommand
  <2>2. CASE op[a] # "forget"
    <3>1. \A b \in Admins : op[b] = "forget" => op'[b] = "forget"
      BY <1>6, <2>2 DEF LoseCommand
    <3> QED
      BY <1>6, <2>2, <3>1 DEF LoseCommand
  <2> QED
    BY <2>1, <2>2
<1>7. CASE Tick
  BY <1>7 DEF Tick
<1>8. ASSUME NEW a \in Admins, Approve(a) \/ Withdraw(a) \/ DeleteNothing(a)
      PROVE  ApprovalsHaveACause'
  <2>1. UNCHANGED <<row, copy, late>> /\ op[a] # "forget"
    BY <1>8 DEF Approve, Withdraw, DeleteNothing
  <2>2. \A b \in Admins : op[b] = "forget" => op'[b] = "forget"
    BY <1>8, <2>1 DEF Approve, Withdraw, DeleteNothing
  <2> QED
    BY <2>1, <2>2
<1>9. ASSUME UNCHANGED <<row, copy, op, late>> PROVE ApprovalsHaveACause'
  BY <1>9
<1> QED
  BY <1>1, <1>2, <1>3, <1>4, <1>5, <1>6, <1>7, <1>8, <1>9
     DEF WhitelistNext, whitelistVars, Submit, Validate, Permit, ReadCopy, ReadRow,
         FillFails, RunQuery

\* The types of the whitelist, the lifetime of a copy included.
THEOREM WhitelistTypes == WhitelistSpec => []WhitelistTypeOK
<1>1. WhitelistTypeOK /\ [WhitelistNext]_whitelistVars => WhitelistTypeOK'
  BY WhitelistTypeStep
<1> QED
  BY <1>1, WhitelistStarts, PTL DEF WhitelistSpec

\* However queries and administrators interleave, a copy outlives its row for one
\* of the three causes only.
THEOREM CopiesHaveACause == WhitelistSpec => []ApprovalsHaveACause
<1>1. WhitelistTypeOK /\ ApprovalsHaveACause /\ [WhitelistNext]_whitelistVars => ApprovalsHaveACause'
  BY CauseStep
<1> QED
  BY <1>1, WhitelistStarts, WhitelistTypes, PTL DEF WhitelistSpec
=============================================================================
