------------------------ MODULE CircuitBreakerProofs ------------------------
(***************************************************************************)
(* What holds of CircuitBreaker for every number of requests, threshold    *)
(* and TTL: its type invariant, that no key that blocks traffic can live   *)
(* without a TTL, that the probe lock excludes, and how much one call can  *)
(* add to the failure count.                                               *)
(***************************************************************************)
EXTENDS CircuitBreaker, FiniteSetTheorems, TLAPS

\* Mutual exclusion is not inductive alone: a probe must be tied to the lock it
\* took, and a request past its database call must not count as a probe, because
\* it is the one that may delete the lock.
ProbeHoldsLock ==
    \A r \in Requests :
        probe[r] = "probing" => holder = r /\ pc[r] = "exec"

\* The loop sleeps only before an attempt it still has, so attempt keeps its type.
AttemptLeft ==
    \A r \in Requests : pc[r] = "backoff" => attempt[r] < MaxAttempts

IInv ==
    /\ TypeOK
    /\ BlockingKeysExpire
    /\ ProbeHoldsLock
    /\ AttemptLeft

LEMMA InitIInv == Init => IInv
  BY ConstantsOK DEF Init, IInv, TypeOK, BlockingKeysExpire, ProbeHoldsLock, AttemptLeft,
                     States, Labels

\* The part of the invariant that speaks of the calls alone.
CallsOK ==
    /\ pc \in [Requests -> Labels]
    /\ attempt \in [Requests -> 1..MaxAttempts]
    /\ again \in [Requests -> BOOLEAN]
    /\ probe \in [Requests -> {"none", "probing", "lapsed", "failed"}]
    /\ ProbeHoldsLock
    /\ AttemptLeft

\* A call that ends keeps every other call as it was.
LEMMA EndCallKeepsCalls ==
  ASSUME CallsOK, NEW r \in Requests, EndCall(r), holder' = holder
  PROVE  CallsOK'
<1> USE DEF CallsOK, EndCall, Goto
<1>1. pc' \in [Requests -> Labels]
  BY DEF Labels
<1>2. attempt' \in [Requests -> 1..MaxAttempts]
  BY ConstantsOK
<1>3. again' \in [Requests -> BOOLEAN]
  OBVIOUS
<1>4. probe' \in [Requests -> {"none", "probing", "lapsed", "failed"}]
  OBVIOUS
<1>5. ProbeHoldsLock'
  BY DEF ProbeHoldsLock
<1>6. AttemptLeft'
  BY DEF AttemptLeft
<1>7. QED
  BY <1>1, <1>2, <1>3, <1>4, <1>5, <1>6

\* So does one that has recorded a failure, whether or not it records another.
LEMMA AfterFailureKeepsCalls ==
  ASSUME CallsOK, NEW r \in Requests, AfterFailure(r), probe' = probe,
         pc[r] # "exec", holder' = holder
  PROVE  CallsOK'
<1> USE DEF CallsOK, AfterFailure, Goto
<1>1. pc' \in [Requests -> Labels]
  BY DEF Labels
<1>2. attempt' \in [Requests -> 1..MaxAttempts]
  BY ConstantsOK
<1>3. again' \in [Requests -> BOOLEAN]
  OBVIOUS
<1>4. ProbeHoldsLock'
  BY DEF ProbeHoldsLock
<1>5. AttemptLeft'
  BY DEF AttemptLeft
<1>6. QED
  BY <1>1, <1>2, <1>3, <1>4, <1>5

LEMMA StepIInv == IInv /\ [Next]_vars => IInv'
<1> SUFFICES ASSUME IInv, [Next]_vars PROVE IInv'
  OBVIOUS
<1> USE ConstantsOK DEF IInv, TypeOK, BlockingKeysExpire, ProbeHoldsLock, AttemptLeft,
                        States, Labels, Goto
<1>1. ASSUME NEW r \in Requests, StartCall(r) PROVE IInv'
  BY <1>1 DEF StartCall, redis, history
<1>2. ASSUME NEW r \in Requests, ReadState(r) PROVE IInv'
  BY <1>2 DEF ReadState, redis, history
<1>3. ASSUME NEW r \in Requests, ReadOpenedAt(r) PROVE IInv'
  <2>1. CASE CooldownElapsed
    BY <1>3, <2>1 DEF ReadOpenedAt, redis, history
  <2>2. CASE ~CooldownElapsed
    <3>1. CallsOK'
      BY <1>3, <2>2, EndCallKeepsCalls DEF CallsOK, ReadOpenedAt, redis
    <3>2. QED
      BY <1>3, <2>2, <3>1 DEF CallsOK, ReadOpenedAt, redis, history
  <2>3. QED
    BY <2>1, <2>2
<1>4. ASSUME NEW r \in Requests, Promote(r) PROVE IInv'
  BY <1>4 DEF Promote, SetState, history
<1>5. ASSUME NEW r \in Requests, TakeProbeLock(r) PROVE IInv'
  BY <1>5 DEF TakeProbeLock, history
<1>6. ASSUME NEW r \in Requests, LoseProbeLock(r) PROVE IInv'
  BY <1>6 DEF LoseProbeLock, EndCall, redis, history
<1>7. ASSUME NEW r \in Requests, QuerySucceeds(r) PROVE IInv'
  BY <1>7 DEF QuerySucceeds, redis, history
<1>8. ASSUME NEW r \in Requests, QueryFailsAndRetries(r) PROVE IInv'
  BY <1>8 DEF QueryFailsAndRetries, ProbeFailed, redis, history
<1>9. ASSUME NEW r \in Requests, QueryFailsForGood(r) PROVE IInv'
  BY <1>9 DEF QueryFailsForGood, ProbeFailed, redis, history
<1>10. ASSUME NEW r \in Requests, QueryExhaustsRetries(r) PROVE IInv'
  BY <1>10 DEF QueryExhaustsRetries, ProbeFailed, redis, history
<1>11. ASSUME NEW r \in Requests, Retry(r) PROVE IInv'
  BY <1>11 DEF Retry, redis, history
<1>12. ASSUME NEW r \in Requests, RecordSuccess(r) PROVE IInv'
  BY <1>12 DEF RecordSuccess, redis, history
<1>13. ASSUME NEW r \in Requests, CloseBreaker(r) PROVE IInv'
  BY <1>13 DEF CloseBreaker, history
<1>14. ASSUME NEW r \in Requests, ResetCount(r) PROVE IInv'
  <2>1. CASE pc[r] = "ok_count"
    BY <1>14, <2>1 DEF ResetCount, ClearCount
  <2>2. CASE pc[r] = "ok_reset"
    <3>1. CallsOK'
      BY <1>14, <2>2, EndCallKeepsCalls DEF CallsOK, ResetCount
    <3>2. QED
      BY <1>14, <2>2, <3>1 DEF CallsOK, ResetCount, ClearCount
  <2>3. QED
    BY <1>14, <2>1, <2>2 DEF ResetCount
<1>15. ASSUME NEW r \in Requests, ReleaseProbeLock(r) PROVE IInv'
  BY <1>15 DEF ReleaseProbeLock, DropLock, history
<1>16. ASSUME NEW r \in Requests, RecordFailure(r) PROVE IInv'
  BY <1>16 DEF RecordFailure, redis, history
<1>17. ASSUME NEW r \in Requests, CountFailure(r) PROVE IInv'
  BY <1>17 DEF CountFailure, AtMost
<1>18. ASSUME NEW r \in Requests, ExpireCount(r) PROVE IInv'
  <2>1. CASE pc[r] = "expire_trip"
    BY <1>18, <2>1 DEF ExpireCount, history
  <2>2. CASE pc[r] = "expire"
    <3>1. CallsOK'
      BY <1>18, <2>2, AfterFailureKeepsCalls DEF CallsOK, ExpireCount
    <3>2. QED
      BY <1>18, <2>2, <3>1 DEF CallsOK, ExpireCount, AfterFailure
  <2>3. QED
    BY <1>18, <2>1, <2>2 DEF ExpireCount
<1>19. ASSUME NEW r \in Requests, Trip(r) PROVE IInv'
  BY <1>19 DEF Trip, SetState, history
<1>20. ASSUME NEW r \in Requests, StampOpened(r) PROVE IInv'
  BY <1>20 DEF StampOpened, history
<1>21. ASSUME NEW r \in Requests, TripReleasesLock(r) PROVE IInv'
  BY <1>21 DEF TripReleasesLock, DropLock, AfterFailure
<1>22. ASSUME Tick PROVE IInv'
  BY <1>22 DEF Tick, Dec, AtMost, history
<1>23. ASSUME ChangeHealth PROVE IInv'
  BY <1>23 DEF ChangeHealth, redis, history
<1>24. ASSUME Crash PROVE IInv'
  BY <1>24 DEF Crash, redis
<1>25. ASSUME NEW r \in Requests, RecordingFails(r) PROVE IInv'
  <2>1. CallsOK'
    BY <1>25, EndCallKeepsCalls DEF CallsOK, RecordingFails, redis
  <2> QED
    BY <1>25, <2>1 DEF CallsOK, RecordingFails, redis
<1>26. CASE UNCHANGED vars
  BY <1>26 DEF vars, redis, history
<1>27. QED
  BY <1>1, <1>2, <1>3, <1>4, <1>5, <1>6, <1>7, <1>8, <1>9, <1>10, <1>11, <1>12,
     <1>13, <1>14, <1>15, <1>16, <1>17, <1>18, <1>19, <1>20, <1>21, <1>22, <1>23,
     <1>24, <1>25, <1>26 DEF Next, Step, Advance

LEMMA Invariance == Spec => []IInv
  BY InitIInv, StepIInv, PTL DEF Spec

\* Every reachable state has the declared types.
THEOREM TypeCorrect == Spec => []TypeOK
  BY Invariance, PTL DEF IInv

\* No blocking key without a TTL, for every threshold and every TTL.
THEOREM BlockingKeysAlwaysExpire == Spec => []BlockingKeysExpire
  BY Invariance, PTL DEF IInv

\* Mutual exclusion of the recovery probes whose lock was left alone.
THEOREM ProbeExclusion == Spec => []UndisturbedProbeIsAlone
<1>1. IInv => UndisturbedProbeIsAlone
  BY DEF IInv, ProbeHoldsLock, UndisturbedProbeIsAlone
<1>2. QED
  BY Invariance, <1>1, PTL

-----------------------------------------------------------------------------
(* The failure count *)

Recording == {"fail", "incr", "expire", "expire_trip", "trip", "stamp", "unlock"}

\* Calls that have counted once and will, or may, count a second time.
Half == {r \in counted : again[r] \/ pc[r] \in {"fail", "incr"}}

\* Each call that is blamed has counted twice, or once with one to come, or less;
\* and one that counts for the second time has no third to come.
CountInv ==
    /\ IsFiniteSet(counted)
    /\ \A r \in counted : pc[r] \in Recording /\ (pc[r] \in {"fail", "incr"} => ~again[r])
    /\ blamed = Threshold \/ count + Cardinality(Half) <= 2 * blamed

LEMMA HalfIsFinite ==
  ASSUME IsFiniteSet(counted) PROVE IsFiniteSet(Half) /\ Cardinality(Half) \in Nat
BY FS_Subset, FS_CardinalityType DEF Half

\* As long as no call comes to owe a second failure, nothing is lost.
LEMMA NoNewHalf ==
  ASSUME TypeOK, CountInv, counted' \subseteq counted, UNCHANGED <<count, blamed>>,
         \A r \in counted' : /\ pc'[r] \in Recording /\ (pc'[r] \in {"fail", "incr"} => ~again'[r])
                             /\ again'[r] \/ pc'[r] \in {"fail", "incr"} =>
                                   again[r] \/ pc[r] \in {"fail", "incr"}
  PROVE  CountInv'
<1>1. IsFiniteSet(counted')
  BY FS_Subset DEF CountInv
<1>2. Half' \subseteq Half
  BY DEF Half
<1>3. IsFiniteSet(Half) /\ Cardinality(Half) \in Nat
  BY HalfIsFinite DEF CountInv
<1>4. Cardinality(Half') <= Cardinality(Half) /\ Cardinality(Half') \in Nat
  BY <1>2, <1>3, FS_Subset, FS_CardinalityType
<1>5. blamed' = Threshold \/ count' + Cardinality(Half') <= 2 * blamed'
  BY <1>3, <1>4, ConstantsOK DEF CountInv, TypeOK
<1> QED
  BY <1>1, <1>5 DEF CountInv

\* A step of a call that has not counted, which changes no other call.
LEMMA NotCounted ==
  ASSUME TypeOK, CountInv, NEW r \in Requests, r \notin counted, UNCHANGED <<count, history>>,
         \A q \in Requests \ {r} : pc'[q] = pc[q] /\ again'[q] = again[q]
  PROVE  CountInv'
<1>1. \A q \in counted' : q \in counted /\ pc'[q] = pc[q] /\ again'[q] = again[q]
  BY DEF TypeOK, history
<1> QED
  BY <1>1, NoNewHalf DEF history, CountInv

\* DEL failure_count, and the end of its TTL
LEMMA Cleared ==
  ASSUME count' = 0, blamed' = 0, counted' = {} PROVE CountInv'
<1>1. Half' = {} /\ IsFiniteSet(counted') /\ Cardinality(Half') = 0
  BY FS_EmptySet DEF Half
<1> QED
  BY <1>1 DEF CountInv

\* INCR by a call that has counted before settles what it owed; by another one
\* it is one of the two that this call is blamed for.
LEMMA CountFailureStep ==
  ASSUME TypeOK, CountInv, NEW r \in Requests, CountFailure(r) PROVE CountInv'
<1>1. /\ pc[r] = "incr" /\ counted' = counted \union {r} /\ again' = again
      /\ count' = AtMost(count + 1, Threshold)
      /\ blamed' = IF r \in counted THEN blamed ELSE AtMost(blamed + 1, Threshold)
  BY DEF CountFailure
<1>2. pc'[r] \in {"expire", "expire_trip"} /\ \A q \in Requests \ {r} : pc'[q] = pc[q]
  BY DEF CountFailure, Goto, TypeOK
<1>3. IsFiniteSet(counted')
  BY <1>1, FS_AddElement DEF CountInv
<1>4. IsFiniteSet(Half) /\ Cardinality(Half) \in Nat
  BY HalfIsFinite DEF CountInv
<1>5. \A q \in counted' : pc'[q] \in Recording /\ (pc'[q] \in {"fail", "incr"} => ~again'[q])
  BY <1>1, <1>2 DEF CountInv, Recording, TypeOK
<1>6. count \in Nat /\ blamed \in 0..Threshold /\ count' <= count + 1 /\ count' <= Threshold
      /\ count' \in Nat
  BY <1>1, ConstantsOK DEF TypeOK, AtMost
<1>7. CASE r \in counted
  <2>1. Half' = Half \ {r} /\ r \in Half
    BY <1>1, <1>2, <1>7 DEF Half, CountInv, TypeOK
  <2>2. Cardinality(Half') = Cardinality(Half) - 1
    BY <1>4, <2>1, FS_RemoveElement
  <2>3. blamed' = Threshold \/ count' + Cardinality(Half') <= 2 * blamed'
    BY <1>1, <1>4, <1>6, <1>7, <2>2, ConstantsOK DEF CountInv
  <2> QED
    BY <1>3, <1>5, <2>3 DEF CountInv
<1>8. CASE r \notin counted
  <2>1. Half' \subseteq Half \union {r} /\ r \notin Half
    BY <1>1, <1>2 , <1>8 DEF Half, TypeOK
  <2>2. /\ IsFiniteSet(Half \union {r})
        /\ Cardinality(Half \union {r}) = Cardinality(Half) + 1
    BY <1>4, <2>1, FS_AddElement
  <2>3. Cardinality(Half') <= Cardinality(Half) + 1 /\ Cardinality(Half') \in Nat
    BY <2>1, <2>2, FS_Subset, FS_CardinalityType
  <2>4. blamed' = AtMost(blamed + 1, Threshold)
    BY <1>1, <1>8
  <2>5. blamed' = Threshold \/ (blamed # Threshold /\ blamed' = blamed + 1)
    BY <1>6, <2>4, ConstantsOK DEF AtMost
  <2>6. blamed' = Threshold \/ count' + Cardinality(Half') <= 2 * blamed'
    BY <1>4, <1>6, <2>3, <2>5, ConstantsOK DEF CountInv
  <2> QED
    BY <1>3, <1>5, <2>6 DEF CountInv
<1> QED
  BY <1>7, <1>8

\* The second record_failure of a call that has counted keeps its debt; a call
\* that ends takes it along.
LEMMA AfterFailureStep ==
  ASSUME TypeOK, CountInv, NEW r \in Requests, AfterFailure(r), count' = count,
         pc[r] \in {"expire", "unlock"}
  PROVE  CountInv'
<1>1. /\ blamed' = blamed /\ counted' \subseteq counted
      /\ \A q \in Requests \ {r} : pc'[q] = pc[q] /\ again'[q] = again[q]
  BY DEF AfterFailure, Goto, TypeOK
<1>2. r \in counted' => again[r] /\ pc'[r] = "fail" /\ ~again'[r]
  BY DEF AfterFailure, Goto, TypeOK
<1>3. \A q \in counted' : /\ pc'[q] \in Recording /\ (pc'[q] \in {"fail", "incr"} => ~again'[q])
                          /\ again'[q] \/ pc'[q] \in {"fail", "incr"} =>
                                again[q] \/ pc[q] \in {"fail", "incr"}
  BY <1>1, <1>2 DEF CountInv, Recording, TypeOK
<1> QED
  BY <1>1, <1>3, NoNewHalf

\* A step of record_failure other than INCR that leads on within it.
LEMMA GoesOn ==
  ASSUME TypeOK, CountInv, NEW r \in Requests, NEW label \in Recording \ {"fail"},
         Goto(r, label), label = "incr" => pc[r] = "fail",
         UNCHANGED <<count, history, again>>
  PROVE  CountInv'
<1>1. \A q \in Requests : pc'[q] = IF q = r THEN label ELSE pc[q]
  BY DEF Goto, TypeOK
<1> QED
  BY <1>1, NoNewHalf DEF CountInv, history, TypeOK

LEMMA CountStep == IInv /\ CountInv /\ [Next]_vars => CountInv'
<1> SUFFICES ASSUME TypeOK, CountInv, [Next]_vars PROVE CountInv'
  BY DEF IInv
<1>1. \A r \in Requests : pc[r] \notin Recording => r \notin counted
  BY DEF CountInv
<1>2. ASSUME NEW r \in Requests, StartCall(r) \/ Advance(r), pc[r] \notin Recording,
             ~ResetCount(r)
      PROVE  CountInv'
  <2>1. UNCHANGED <<count, history>>
    BY <1>2 DEF StartCall, Advance, ReadState, ReadOpenedAt, Promote, TakeProbeLock, LoseProbeLock,
        QuerySucceeds, QueryFailsAndRetries, QueryFailsForGood, QueryExhaustsRetries, Retry,
        RecordSuccess, CloseBreaker, ReleaseProbeLock, RecordFailure, CountFailure, ExpireCount,
        Trip, StampOpened, TripReleasesLock, Recording, redis
  <2>2. \A q \in Requests \ {r} : pc'[q] = pc[q] /\ again'[q] = again[q]
    BY <1>2 DEF StartCall, Advance, ReadState, ReadOpenedAt, Promote, TakeProbeLock, LoseProbeLock,
        QuerySucceeds, QueryFailsAndRetries, QueryFailsForGood, QueryExhaustsRetries, Retry,
        RecordSuccess, CloseBreaker, ReleaseProbeLock, RecordFailure, CountFailure, ExpireCount,
        Trip, StampOpened, TripReleasesLock, Recording, EndCall, Goto, TypeOK
  <2> QED
    BY <1>1, <1>2, <2>1, <2>2, NotCounted
<1>3. ASSUME NEW r \in Requests, ResetCount(r) PROVE CountInv'
  BY <1>3, Cleared DEF ResetCount, ClearCount
<1>4. ASSUME NEW r \in Requests, RecordFailure(r) PROVE CountInv'
  BY <1>4, GoesOn DEF RecordFailure, redis, Recording
<1>5. ASSUME NEW r \in Requests, CountFailure(r) PROVE CountInv'
  BY <1>5, CountFailureStep
<1>6. ASSUME NEW r \in Requests, ExpireCount(r) PROVE CountInv'
  <2>1. CASE pc[r] = "expire_trip"
    BY <1>6, <2>1, GoesOn DEF ExpireCount, Recording
  <2>2. CASE pc[r] = "expire"
    BY <1>6, <2>2, AfterFailureStep DEF ExpireCount
  <2> QED
    BY <1>6, <2>1, <2>2 DEF ExpireCount
<1>7. ASSUME NEW r \in Requests, Trip(r) \/ StampOpened(r) PROVE CountInv'
  BY <1>7, GoesOn DEF Trip, StampOpened, Recording
<1>8. ASSUME NEW r \in Requests, TripReleasesLock(r) PROVE CountInv'
  BY <1>8, AfterFailureStep DEF TripReleasesLock
<1>9. CASE Tick
  <2>1. CASE countTTL = 1
    BY <1>9, <2>1, Cleared DEF Tick
  <2>2. CASE countTTL # 1
    BY <1>9, <2>2, NoNewHalf DEF Tick, history, CountInv
  <2> QED
    BY <2>1, <2>2
<1>10. CASE ChangeHealth
  BY <1>10, NoNewHalf DEF ChangeHealth, redis, history, CountInv
<1>11. CASE Crash
  BY <1>11, NoNewHalf DEF Crash, redis
<1>12. CASE UNCHANGED vars
  BY <1>12, NoNewHalf DEF vars, redis, history, CountInv
<1>13. ASSUME NEW r \in Requests, StartCall(r) \/ Advance(r), pc[r] \in Recording PROVE CountInv'
  <2>1. RecordFailure(r) \/ CountFailure(r) \/ ExpireCount(r) \/ Trip(r) \/ StampOpened(r)
          \/ TripReleasesLock(r)
    BY <1>13 DEF StartCall, Advance, ReadState, ReadOpenedAt, Promote, TakeProbeLock, LoseProbeLock,
        QuerySucceeds, QueryFailsAndRetries, QueryFailsForGood, QueryExhaustsRetries, Retry,
        RecordSuccess, CloseBreaker, ResetCount, ReleaseProbeLock, Recording
  <2> QED
    BY <2>1, <1>4, <1>5, <1>6, <1>7, <1>8
<1>14. ASSUME NEW r \in Requests, RecordingFails(r) PROVE CountInv'
  <2>1. counted' \subseteq counted /\ r \notin counted' /\ UNCHANGED <<count, blamed>>
    BY <1>14 DEF RecordingFails, redis
  <2>2. \A q \in Requests \ {r} : pc'[q] = pc[q] /\ again'[q] = again[q]
    BY <1>14 DEF RecordingFails, EndCall, Goto, TypeOK
  <2> QED
    BY <2>1, <2>2, NoNewHalf DEF CountInv, TypeOK
<1> QED
  BY <1>2, <1>3, <1>9, <1>10, <1>11, <1>12, <1>13, <1>14 DEF Next, Step

\* One failed call adds at most two to the failure count, however calls, resets,
\* expiry and crashes interleave.
THEOREM TwoPerCallAtMost == Spec => []AtMostTwoPerCall
<1>1. Init => CountInv
  BY Cleared, FS_EmptySet DEF Init, CountInv, Half
<1>2. TypeOK /\ CountInv => AtMostTwoPerCall
  <2> SUFFICES ASSUME TypeOK, CountInv PROVE AtMostTwoPerCall
    OBVIOUS
  <2>1. Cardinality(Half) \in Nat
    BY HalfIsFinite DEF CountInv
  <2> QED
    BY <2>1, ConstantsOK DEF CountInv, TypeOK, AtMostTwoPerCall
<1> QED
  BY <1>1, <1>2, CountStep, Invariance, PTL DEF Spec, IInv

\* A call at the EXPIRE of record_failure.
Expiring == {"expire", "expire_trip"}

\* The step that neither touches the count nor takes a call away from its EXPIRE
\* forgets nothing.
LEMMA CountUntouched ==
  ASSUME UNCHANGED <<count, countTTL>>, ~CountIsForgotten,
         \A r \in Requests : pc[r] \in Expiring => pc'[r] \in Expiring
  PROVE  ~CountIsForgotten'
BY DEF CountIsForgotten, Expiring

\* The count is left without its 60 s by a process or a Redis that fails between
\* INCR and EXPIRE, and by no interleaving of calls, resets and expiry.
THEOREM CountKeepsItsTTL == Spec => OnlyBrokenCallsForgetCount
<1>1. ASSUME TypeOK, [Next]_vars, ~CountIsForgotten, ~Crash,
             \A r \in Requests : ~RecordingFails(r)
      PROVE  ~CountIsForgotten'
  <2>1. ASSUME NEW r \in Requests, CountFailure(r) PROVE ~CountIsForgotten'
    <3>1. pc'[r] \in {"expire", "expire_trip"}
      BY <1>1, <2>1 DEF CountFailure, Goto, TypeOK
    <3> QED
      BY <3>1 DEF CountIsForgotten, Expiring
  <2>2. ASSUME NEW r \in Requests, ExpireCount(r) PROVE ~CountIsForgotten'
    BY <1>1, <2>2, ConstantsOK DEF ExpireCount, CountIsForgotten, TypeOK
  <2>3. ASSUME NEW r \in Requests, ResetCount(r) PROVE ~CountIsForgotten'
    BY <2>3 DEF ResetCount, ClearCount, CountIsForgotten
  <2>4. ASSUME NEW r \in Requests, StartCall(r) \/ Advance(r),
               ~CountFailure(r), ~ExpireCount(r), ~ResetCount(r)
        PROVE  ~CountIsForgotten'
    <3>1. pc[r] \notin Expiring /\ UNCHANGED <<count, countTTL>>
      BY <2>4 DEF StartCall, Advance, ReadState, ReadOpenedAt, Promote, TakeProbeLock,
          LoseProbeLock, QuerySucceeds, QueryFailsAndRetries, QueryFailsForGood,
          QueryExhaustsRetries, Retry, RecordSuccess, CloseBreaker, ReleaseProbeLock,
          RecordFailure, Trip, StampOpened, TripReleasesLock, Expiring, redis
    <3>2. \A q \in Requests \ {r} : pc'[q] = pc[q]
      BY <1>1, <2>4 DEF StartCall, Advance, ReadState, ReadOpenedAt, Promote, TakeProbeLock,
          LoseProbeLock, QuerySucceeds, QueryFailsAndRetries, QueryFailsForGood,
          QueryExhaustsRetries, Retry, RecordSuccess, CloseBreaker, ReleaseProbeLock,
          RecordFailure, Trip, StampOpened, TripReleasesLock, AfterFailure, EndCall, Goto,
          TypeOK
    <3> QED
      BY <1>1, <3>1, <3>2, CountUntouched
  <2>5. CASE Tick
    <3>1. CASE countTTL = 1
      BY <2>5, <3>1 DEF Tick, CountIsForgotten
    <3>2. CASE countTTL # 1
      <4>1. (countTTL = 0 <=> countTTL' = 0) /\ count' = count /\ pc' = pc
        BY <2>5, <3>2 DEF Tick, Dec, TypeOK, history
      <4> QED
        BY <1>1, <4>1 DEF CountIsForgotten
    <3> QED
      BY <3>1, <3>2
  <2>6. CASE ChangeHealth
    BY <1>1, <2>6, CountUntouched DEF ChangeHealth, redis
  <2>7. CASE UNCHANGED vars
    BY <1>1, <2>7, CountUntouched DEF vars, redis
  <2> QED
    BY <1>1, <2>1, <2>2, <2>3, <2>4, <2>5, <2>6, <2>7 DEF Next, Step
<1>2. TypeOK /\ [Next]_vars =>
        [~CountIsForgotten /\ CountIsForgotten' =>
            Crash \/ \E r \in Requests : RecordingFails(r)]_vars
  BY <1>1
<1> QED
  BY <1>2, TypeCorrect, PTL DEF Spec, OnlyBrokenCallsForgetCount
=============================================================================
