---------------------------- MODULE LockoutProofs ----------------------------
(***************************************************************************)
(* The theorems about Lockout, for any number of logins and addresses, any *)
(* limit and any lifetime.                                                 *)
(***************************************************************************)
EXTENDS Lockout, FiniteSetTheorems, TLAPS

-----------------------------------------------------------------------------
(* Types *)

LEMMA KeyTypes ==
  /\ Account \in Keys /\ Addresses \subseteq Keys /\ None \notin Addresses /\ Account \notin Addresses
  /\ LockTTL \in Nat \ {0} /\ MaxAttempts \in Nat \ {0}
BY LockoutConstantsOK DEF Keys

\* The variables that say where the logins are.
ControlOK ==
    /\ pc \in [Logins -> Labels]
    /\ from \in [Logins -> Addresses \cup {None}]
    /\ held \in [Logins -> BOOLEAN]

LEMMA ControlTypes ==
  ASSUME ControlOK, NEW l \in Logins
  PROVE  /\ Answer(l) => ControlOK'
         /\ \A label \in Labels : Goto(l, label) /\ UNCHANGED <<from, held>> => ControlOK'
         /\ \A k : Counted(l, k) => ControlOK'
         /\ \A k : \A owing \in Labels : Count(l, k, owing) => ControlOK'
<1>1. Answer(l) => ControlOK'
  BY DEF Answer, Goto, ControlOK, Labels
<1>2. \A label \in Labels : Goto(l, label) /\ UNCHANGED <<from, held>> => ControlOK'
  BY DEF Goto, ControlOK
<1>3. \A k : Counted(l, k) => ControlOK'
  <2>1. "count_acct" \in Labels
    BY DEF Labels
  <2> QED
    BY <1>1, <1>2, <2>1 DEF Counted
<1> QED
  BY <1>1, <1>2, <1>3 DEF Count

\* The Redis commands, on whatever key.
LEMMA CommandTypes ==
  ASSUME TypeOK, NEW k
  PROVE  /\ \A l, owing : Count(l, k, owing) =>
               n' \in [Keys -> Nat] /\ ttl' = ttl /\ orphans' = orphans
         /\ SetExpiry(k) =>
               n' = n /\ ttl' \in [Keys -> 0..LockTTL] /\ orphans' \subseteq Keys
         /\ Clear(k) =>
               n' \in [Keys -> Nat] /\ ttl' \in [Keys -> 0..LockTTL] /\ orphans' \subseteq Keys
<1>1. ASSUME NEW l, NEW owing, Count(l, k, owing)
      PROVE  n' \in [Keys -> Nat] /\ ttl' = ttl /\ orphans' = orphans
  <2>1. n' = [x \in Keys |-> IF x = k THEN n[x] + 1 ELSE n[x]] /\ ttl' = ttl /\ orphans' = orphans
    BY <1>1 DEF Count, TypeOK
  <2>2. \A x \in Keys : n[x] \in Nat /\ n[x] + 1 \in Nat
    BY DEF TypeOK
  <2> QED
    BY <2>1, <2>2
<1>2. ASSUME SetExpiry(k)
      PROVE  n' = n /\ ttl' \in [Keys -> 0..LockTTL] /\ orphans' \subseteq Keys
  <2>1. ttl' = [x \in Keys |-> IF x = k THEN (IF n[k] > 0 THEN LockTTL ELSE 0) ELSE ttl[x]]
    BY <1>2 DEF SetExpiry, TypeOK
  <2>2. LockTTL \in 0..LockTTL /\ 0 \in 0..LockTTL /\ \A x \in Keys : ttl[x] \in 0..LockTTL
    BY KeyTypes DEF TypeOK
  <2>3. ttl' \in [Keys -> 0..LockTTL]
    BY <2>1, <2>2, Zenon
  <2> QED
    BY <1>2, <2>3 DEF SetExpiry, TypeOK
<1>3. ASSUME Clear(k)
      PROVE  n' \in [Keys -> Nat] /\ ttl' \in [Keys -> 0..LockTTL] /\ orphans' \subseteq Keys
  <2>1. /\ n' = [x \in Keys |-> IF x = k THEN 0 ELSE n[x]]
        /\ ttl' = [x \in Keys |-> IF x = k THEN 0 ELSE ttl[x]]
    BY <1>3 DEF Clear, TypeOK
  <2>2. 0 \in Nat /\ 0 \in 0..LockTTL /\ \A x \in Keys : n[x] \in Nat /\ ttl[x] \in 0..LockTTL
    BY KeyTypes DEF TypeOK
  <2>3. n' \in [Keys -> Nat] /\ ttl' \in [Keys -> 0..LockTTL]
    BY <2>1, <2>2, Zenon
  <2> QED
    BY <1>3, <2>3 DEF Clear, TypeOK
<1> QED
  BY <1>1, <1>2, <1>3

\* Every variable keeps its type, whatever the interleaving of logins, expiry,
\* failures and crashes.
LEMMA TypeStep == TypeOK /\ [Next]_vars => TypeOK'
<1> SUFFICES ASSUME TypeOK, [Next]_vars PROVE TypeOK'
  OBVIOUS
<1>a. ControlOK
  BY DEF TypeOK, ControlOK
<1>b. SUFFICES /\ n' \in [Keys -> Nat] /\ ttl' \in [Keys -> 0..LockTTL] /\ orphans' \subseteq Keys
               /\ user' \in UserStates
               /\ ControlOK'
  BY DEF TypeOK, ControlOK
<1> DEFINE Goal == /\ n' \in [Keys -> Nat] /\ ttl' \in [Keys -> 0..LockTTL] /\ orphans' \subseteq Keys
                   /\ user' \in UserStates
                   /\ ControlOK'
<1>c. {"account", "lookup", "count_addr", "clear_addr", "clear_acct", "expire_addr", "expire_acct"}
        \subseteq Labels
  BY DEF Labels
<1> USE DEF counters
<1>1. ASSUME NEW l \in Logins, NEW a \in Addresses, ReadAddressCount(l, a) PROVE Goal
  BY <1>1, <1>a, <1>c DEF ReadAddressCount, Goto, Full, TypeOK, ControlOK
<1>2. ASSUME NEW l \in Logins, ReadAccountCount(l) PROVE Goal
  BY <1>2, <1>a, <1>c, ControlTypes DEF ReadAccountCount, TypeOK
<1>3. ASSUME NEW l \in Logins, NEW right \in BOOLEAN, Verify(l, right) PROVE Goal
  BY <1>3, <1>a, <1>c, ControlTypes DEF Verify, TypeOK
<1>4. ASSUME NEW l \in Logins, CountAddress(l) PROVE Goal
  BY <1>4, <1>a, <1>c, ControlTypes, CommandTypes DEF CountAddress, TypeOK
<1>5. ASSUME NEW l \in Logins, ExpireAddress(l) PROVE Goal
  BY <1>5, <1>a, <1>c, ControlTypes, CommandTypes DEF ExpireAddress, TypeOK
<1>6. ASSUME NEW l \in Logins, CountAccount(l) PROVE Goal
  BY <1>6, <1>a, <1>c, ControlTypes, CommandTypes DEF CountAccount, TypeOK
<1>7. ASSUME NEW l \in Logins, ExpireAccount(l) PROVE Goal
  BY <1>7, <1>a, <1>c, ControlTypes, CommandTypes DEF ExpireAccount, TypeOK
<1>8. ASSUME NEW l \in Logins, ClearAddress(l) PROVE Goal
  BY <1>8, <1>a, <1>c, ControlTypes, CommandTypes DEF ClearAddress, TypeOK
<1>9. ASSUME NEW l \in Logins, ClearAccount(l) PROVE Goal
  BY <1>9, <1>a, <1>c, ControlTypes, CommandTypes DEF ClearAccount, TypeOK
<1>10. ASSUME NEW l \in Logins, Break(l) PROVE Goal
  BY <1>10, <1>a, ControlTypes DEF Break, Stranded, TypeOK
<1>11. CASE Crash
  BY <1>11 DEF Crash, Stranded, TypeOK, ControlOK, Labels
<1>12. ASSUME NEW state \in UserStates, ChangeUser(state) PROVE Goal
  BY <1>12, <1>a DEF ChangeUser, TypeOK, ControlOK
<1>13. CASE Tick
  BY <1>13, <1>a, KeyTypes DEF Tick, TypeOK, ControlOK
<1>14. CASE UNCHANGED vars
  BY <1>14, <1>a DEF vars, TypeOK, ControlOK
<1> QED
  BY <1>1, <1>2, <1>3, <1>4, <1>5, <1>6, <1>7, <1>8, <1>9, <1>10, <1>11, <1>12,
     <1>13, <1>14 DEF Next, LoginStep

THEOREM TypeCorrect == Spec => []TypeOK
<1>1. Init => TypeOK
  BY LockoutConstantsOK DEF Init, TypeOK, Keys, Labels
<1> QED
  BY <1>1, TypeStep, PTL DEF Spec

-----------------------------------------------------------------------------
(* Lifetimes of the counters *)

\* The cause LockoutsExpire gives for one counter.
Excused(k) == k \in orphans \/ \E l \in Logins : Owes(l, k)

\* A step of a login that does not owe the lifetime of k leaves its cause.
LEMMA OthersStillOwe ==
  ASSUME TypeOK, NEW l \in Logins, NEW k \in Keys, ~Owes(l, k), Excused(k),
         k \in orphans => k \in orphans',
         \A m \in Logins \ {l} : pc'[m] = pc[m] /\ from'[m] = from[m]
  PROVE  Excused(k)'
BY DEF Excused, Owes, TypeOK

LEMMA LockoutsStep == TypeOK /\ LockoutsExpire /\ [Next]_vars => LockoutsExpire'
<1> SUFFICES ASSUME TypeOK, LockoutsExpire, [Next]_vars, NEW k \in Keys,
                    n'[k] > 0, ttl'[k] = 0
             PROVE  Excused(k)'
  BY DEF LockoutsExpire, Excused, Keys
<1>a. n[k] > 0 /\ ttl[k] = 0 => Excused(k)
  BY DEF LockoutsExpire, Excused
<1> USE KeyTypes DEF TypeOK, counters
<1>1. ASSUME NEW l \in Logins, NEW a \in Addresses, ReadAddressCount(l, a) PROVE Excused(k)'
  BY <1>1, <1>a, OthersStillOwe DEF ReadAddressCount, Goto, Owes
<1>2. ASSUME NEW l \in Logins, ReadAccountCount(l) PROVE Excused(k)'
  BY <1>2, <1>a, OthersStillOwe DEF ReadAccountCount, Goto, Answer, Owes
<1>3. ASSUME NEW l \in Logins, NEW right \in BOOLEAN, Verify(l, right) PROVE Excused(k)'
  BY <1>3, <1>a, OthersStillOwe DEF Verify, Goto, Answer, Owes
<1>4. ASSUME NEW l \in Logins, CountAddress(l) PROVE Excused(k)'
  <2>1. CASE n[k] > 0
    BY <1>4, <2>1, <1>a, OthersStillOwe DEF CountAddress, Count, Counted, Goto, Answer, Owes
  <2>2. CASE ~(n[k] > 0)
    BY <1>4, <2>2 DEF CountAddress, Count, Counted, Goto, Answer, Owes, Excused, Keys
  <2> QED
    BY <2>1, <2>2
<1>5. ASSUME NEW l \in Logins, ExpireAddress(l) PROVE Excused(k)'
  <2>1. k # from[l] /\ n[k] > 0 /\ ttl[k] = 0
    BY <1>5 DEF ExpireAddress, SetExpiry
  <2> QED
    BY <1>5, <2>1, <1>a, OthersStillOwe DEF ExpireAddress, SetExpiry, Counted, Goto, Answer, Owes
<1>6. ASSUME NEW l \in Logins, CountAccount(l) PROVE Excused(k)'
  <2>1. CASE n[k] > 0
    BY <1>6, <2>1, <1>a, OthersStillOwe DEF CountAccount, Count, Counted, Goto, Answer, Owes
  <2>2. CASE ~(n[k] > 0)
    BY <1>6, <2>2 DEF CountAccount, Count, Counted, Goto, Answer, Owes, Excused, Keys
  <2> QED
    BY <2>1, <2>2
<1>7. ASSUME NEW l \in Logins, ExpireAccount(l) PROVE Excused(k)'
  <2>1. k # Account /\ n[k] > 0 /\ ttl[k] = 0
    BY <1>7 DEF ExpireAccount, SetExpiry
  <2> QED
    BY <1>7, <2>1, <1>a, OthersStillOwe DEF ExpireAccount, SetExpiry, Counted, Goto, Answer, Owes
<1>8. ASSUME NEW l \in Logins, ClearAddress(l) PROVE Excused(k)'
  <2>1. k # from[l] /\ n[k] > 0 /\ ttl[k] = 0
    BY <1>8 DEF ClearAddress, Clear
  <2> QED
    BY <1>8, <2>1, <1>a, OthersStillOwe DEF ClearAddress, Clear, Goto, Owes
<1>9. ASSUME NEW l \in Logins, ClearAccount(l) PROVE Excused(k)'
  <2>1. k # Account /\ n[k] > 0 /\ ttl[k] = 0
    BY <1>9 DEF ClearAccount, Clear
  <2> QED
    BY <1>9, <2>1, <1>a, OthersStillOwe DEF ClearAccount, Clear, Goto, Answer, Owes
<1>10. ASSUME NEW l \in Logins, Break(l) PROVE Excused(k)'
  <2>1. CASE Owes(l, k)
    BY <1>10, <2>1 DEF Break, Stranded, Excused
  <2>2. CASE ~Owes(l, k)
    BY <1>10, <2>2, <1>a, OthersStillOwe DEF Break, Goto, Answer
  <2> QED
    BY <2>1, <2>2
<1>11. CASE Crash
  BY <1>11, <1>a DEF Crash, Stranded, Excused
<1>12. ASSUME NEW state \in UserStates, ChangeUser(state) PROVE Excused(k)'
  BY <1>12, <1>a DEF ChangeUser, Excused, Owes
<1>13. CASE Tick
  BY <1>13, <1>a DEF Tick, Excused, Owes
<1>14. CASE UNCHANGED vars
  BY <1>14, <1>a DEF vars, Excused, Owes
<1> QED
  BY <1>1, <1>2, <1>3, <1>4, <1>5, <1>6, <1>7, <1>8, <1>9, <1>10, <1>11, <1>12,
     <1>13, <1>14 DEF Next, LoginStep

\* No interleaving of INCR, EXPIRE and DEL leaves a counter without lifetime
\* behind: only a request that broke off between INCR and EXPIRE does.
THEOREM LockoutsAlwaysExpire == Spec => []LockoutsExpire
<1>1. Init => LockoutsExpire
  BY DEF Init, LockoutsExpire
<1> QED
  BY <1>1, TypeCorrect, LockoutsStep, PTL DEF Spec

-----------------------------------------------------------------------------
(* Attempts past the limit *)

\* Behind the check no counter was full, and every login comes from somewhere.
CheckedOK ==
    \A l \in Logins :
        /\ pc[l] # "idle" => from[l] \in Addresses
        /\ pc[l] \notin {"idle", "account"} => ~held[l]

\* Each login that has passed the check of a counter may still raise it by
\* one, so the two together are bounded.
RoomOK ==
    \A k \in Keys : n[k] + Cardinality(Passed(k)) <= MaxAttempts - 1 + Cardinality(Logins)

IInv == TypeOK /\ CheckedOK /\ RoomOK

LEMMA CheckedStep == TypeOK /\ CheckedOK /\ [Next]_vars => CheckedOK'
<1> SUFFICES ASSUME TypeOK, CheckedOK, [Next]_vars PROVE CheckedOK'
  OBVIOUS
<1> USE KeyTypes DEF TypeOK, CheckedOK, counters
<1>1. ASSUME NEW l \in Logins, NEW a \in Addresses, ReadAddressCount(l, a) PROVE CheckedOK'
  BY <1>1 DEF ReadAddressCount, Goto
<1>2. ASSUME NEW l \in Logins, ReadAccountCount(l) PROVE CheckedOK'
  BY <1>2 DEF ReadAccountCount, Goto, Answer
<1>3. ASSUME NEW l \in Logins, NEW right \in BOOLEAN, Verify(l, right) PROVE CheckedOK'
  BY <1>3 DEF Verify, Goto, Answer
<1>4. ASSUME NEW l \in Logins, CountAddress(l) PROVE CheckedOK'
  BY <1>4 DEF CountAddress, Count, Counted, Goto, Answer
<1>5. ASSUME NEW l \in Logins, ExpireAddress(l) PROVE CheckedOK'
  BY <1>5 DEF ExpireAddress, Counted, Goto, Answer
<1>6. ASSUME NEW l \in Logins, CountAccount(l) PROVE CheckedOK'
  BY <1>6 DEF CountAccount, Count, Counted, Goto, Answer
<1>7. ASSUME NEW l \in Logins, ExpireAccount(l) PROVE CheckedOK'
  BY <1>7 DEF ExpireAccount, Counted, Goto, Answer
<1>8. ASSUME NEW l \in Logins, ClearAddress(l) PROVE CheckedOK'
  BY <1>8 DEF ClearAddress, Goto
<1>9. ASSUME NEW l \in Logins, ClearAccount(l) PROVE CheckedOK'
  BY <1>9 DEF ClearAccount, Goto, Answer
<1>10. ASSUME NEW l \in Logins, Break(l) PROVE CheckedOK'
  BY <1>10 DEF Break, Goto, Answer
<1>11. CASE Crash
  BY <1>11 DEF Crash
<1>12. ASSUME NEW state \in UserStates, ChangeUser(state) PROVE CheckedOK'
  BY <1>12 DEF ChangeUser
<1>13. CASE Tick
  BY <1>13 DEF Tick
<1>14. CASE UNCHANGED vars
  BY <1>14 DEF vars
<1> QED
  BY <1>1, <1>2, <1>3, <1>4, <1>5, <1>6, <1>7, <1>8, <1>9, <1>10, <1>11, <1>12,
     <1>13, <1>14 DEF Next, LoginStep

\* The logins that have passed are some of the logins.
LEMMA PassedSize ==
  /\ \A k \in Keys : IsFiniteSet(Passed(k)) /\ Cardinality(Passed(k)) \in 0..Cardinality(Logins)
  /\ Cardinality(Logins) \in Nat
<1>1. IsFiniteSet(Logins) /\ Cardinality(Logins) \in Nat
  BY LockoutConstantsOK, FS_CardinalityType
<1>2. ASSUME NEW k \in Keys
      PROVE  IsFiniteSet(Passed(k)) /\ Cardinality(Passed(k)) \in 0..Cardinality(Logins)
  <2>1. Passed(k) \subseteq Logins
    BY DEF Passed
  <2>2. IsFiniteSet(Passed(k)) /\ Cardinality(Passed(k)) <= Cardinality(Logins)
    BY <1>1, <2>1, FS_Subset
  <2> QED
    BY <1>1, <2>2, FS_CardinalityType
<1> QED
  BY <1>1, <1>2

\* A step that raises no counter and lets nobody pass leaves the room.
LEMMA RoomKept ==
  ASSUME TypeOK, TypeOK', RoomOK, NEW k \in Keys,
         n'[k] <= n[k], Passed(k)' \subseteq Passed(k)
  PROVE  n'[k] + Cardinality(Passed(k)') <= MaxAttempts - 1 + Cardinality(Logins)
<1> DEFINE p == Cardinality(Passed(k))
           q == Cardinality(Passed(k)')
           c == Cardinality(Logins)
<1>1. q <= p /\ p \in Nat /\ q \in Nat /\ c \in Nat
  <2>1. IsFiniteSet(Passed(k)) /\ p \in Nat /\ c \in Nat
    BY PassedSize
  <2>2. IsFiniteSet(Passed(k)') /\ q <= p
    BY <2>1, FS_Subset
  <2>3. q \in Nat
    BY <2>2, FS_CardinalityType
  <2> QED
    BY <2>1, <2>2, <2>3
<1>2. n[k] + p <= MaxAttempts - 1 + c
  BY DEF RoomOK
<1>3. n[k] \in Nat /\ n'[k] \in Nat /\ MaxAttempts \in Nat
  BY KeyTypes DEF TypeOK
<1> HIDE DEF p, q, c
<1> QED
  BY <1>1, <1>2, <1>3 DEF p, q, c

\* A counter below the limit has room for every login.
LEMMA RoomBelow ==
  ASSUME TypeOK', NEW k \in Keys, n'[k] < MaxAttempts
  PROVE  n'[k] + Cardinality(Passed(k)') <= MaxAttempts - 1 + Cardinality(Logins)
<1> DEFINE q == Cardinality(Passed(k)')
           c == Cardinality(Logins)
<1>1. q <= c /\ q \in Nat /\ c \in Nat
  <2>1. Passed(k)' \subseteq Logins
    BY DEF Passed
  <2>2. IsFiniteSet(Logins) /\ c \in Nat
    BY LockoutConstantsOK, FS_CardinalityType
  <2>3. IsFiniteSet(Passed(k)') /\ q <= c
    BY <2>1, <2>2, FS_Subset
  <2> QED
    BY <2>2, <2>3, FS_CardinalityType
<1>2. n'[k] \in Nat /\ MaxAttempts \in Nat
  BY KeyTypes DEF TypeOK
<1> HIDE DEF q, c
<1> QED
  BY <1>1, <1>2 DEF q, c

\* A login that raises a counter gives up its place among those who may.
LEMMA RoomSpent ==
  ASSUME TypeOK, RoomOK, NEW k \in Keys, NEW l \in Passed(k),
         n'[k] = n[k] + 1, Passed(k)' \subseteq Passed(k) \ {l}
  PROVE  n'[k] + Cardinality(Passed(k)') <= MaxAttempts - 1 + Cardinality(Logins)
<1> DEFINE p == Cardinality(Passed(k))
           q == Cardinality(Passed(k)')
           c == Cardinality(Logins)
<1>1. q <= p - 1 /\ p \in Nat /\ q \in Nat /\ c \in Nat
  <2>1. IsFiniteSet(Passed(k)) /\ p \in Nat /\ c \in Nat
    BY PassedSize
  <2>2. IsFiniteSet(Passed(k) \ {l}) /\ Cardinality(Passed(k) \ {l}) = p - 1
    BY <2>1, FS_RemoveElement
  <2>3. IsFiniteSet(Passed(k)') /\ q <= Cardinality(Passed(k) \ {l})
    BY <2>2, FS_Subset
  <2>4. q \in Nat
    BY <2>3, FS_CardinalityType
  <2> QED
    BY <2>1, <2>2, <2>3, <2>4
<1>2. n[k] + p <= MaxAttempts - 1 + c
  BY DEF RoomOK
<1>3. n[k] \in Nat /\ MaxAttempts \in Nat
  BY KeyTypes DEF TypeOK
<1> HIDE DEF p, q, c
<1> QED
  BY <1>1, <1>2, <1>3 DEF p, q, c

LEMMA RoomStep == IInv /\ [Next]_vars => RoomOK'
<1> SUFFICES ASSUME IInv, [Next]_vars, NEW k \in Keys
             PROVE  n'[k] + Cardinality(Passed(k)') <= MaxAttempts - 1 + Cardinality(Logins)
  BY DEF RoomOK, Keys
<1> DEFINE Fits == n'[k] + Cardinality(Passed(k)') <= MaxAttempts - 1 + Cardinality(Logins)
<1>a. TypeOK /\ TypeOK' /\ CheckedOK /\ RoomOK
  BY TypeStep DEF IInv
<1>b. ASSUME n'[k] <= n[k], Passed(k)' \subseteq Passed(k) PROVE Fits
  BY <1>a, <1>b, RoomKept
<1>c. n[k] \in Nat /\ n[k] <= n[k]
  BY <1>a DEF TypeOK
<1>1. ASSUME NEW l \in Logins, NEW a \in Addresses, ReadAddressCount(l, a) PROVE Fits
  <2>1. CASE n[k] < MaxAttempts
    BY <1>1, <2>1, <1>a, RoomBelow DEF ReadAddressCount, counters
  <2>2. CASE ~(n[k] < MaxAttempts)
    <3>1. Passed(k)' \subseteq Passed(k)
      <4>1. n[k] >= MaxAttempts
        BY <2>2, <1>a, KeyTypes DEF TypeOK
      <4>2. k = a => held'[l] = TRUE
        BY <1>1, <4>1, <1>a DEF ReadAddressCount, Full, TypeOK
      <4>3. pc'[l] = "account" /\ from'[l] = a
        BY <1>1, <1>a DEF ReadAddressCount, Goto, TypeOK
      <4>4. \A m \in Logins \ {l} : pc'[m] = pc[m] /\ from'[m] = from[m] /\ held'[m] = held[m]
        BY <1>1, <1>a DEF ReadAddressCount, Goto, TypeOK
      <4> QED
        BY <4>2, <4>3, <4>4 DEF Passed
    <3> QED
      BY <1>1, <3>1, <1>b, <1>c DEF ReadAddressCount, counters
  <2> QED
    BY <2>1, <2>2
<1>2. ASSUME NEW l \in Logins, ReadAccountCount(l) PROVE Fits
  <2>1. CASE n[k] < MaxAttempts
    BY <1>2, <2>1, <1>a, RoomBelow DEF ReadAccountCount, counters
  <2>2. CASE ~(n[k] < MaxAttempts)
    <3>1. Passed(k)' \subseteq Passed(k)
      BY <1>2, <2>2, <1>a, KeyTypes DEF ReadAccountCount, Goto, Answer, Full, Passed, TypeOK
    <3> QED
      BY <1>2, <3>1, <1>b, <1>c DEF ReadAccountCount, counters
  <2> QED
    BY <2>1, <2>2
<1>3. ASSUME NEW l \in Logins, NEW right \in BOOLEAN, Verify(l, right) PROVE Fits
  <2>1. Passed(k)' \subseteq Passed(k)
    BY <1>3, <1>a DEF Verify, Goto, Answer, Passed, TypeOK
  <2> QED
    BY <1>3, <2>1, <1>b, <1>c DEF Verify, counters
<1>4. ASSUME NEW l \in Logins, CountAddress(l) PROVE Fits
  <2>1. CASE k = from[l]
    <3>1. l \in Passed(k) /\ k # Account
      BY <1>4, <2>1, <1>a, KeyTypes DEF CountAddress, CheckedOK, Passed
    <3>2. n'[k] = n[k] + 1
      BY <1>4, <2>1, <1>a DEF CountAddress, Count, TypeOK
    <3>3. Passed(k)' \subseteq Passed(k) \ {l}
      BY <1>4, <3>1, <1>a DEF CountAddress, Count, Counted, Goto, Answer, Passed, TypeOK
    <3> QED
      BY <3>1, <3>2, <3>3, <1>a, RoomSpent
  <2>2. CASE k # from[l]
    <3>1. Passed(k)' \subseteq Passed(k)
      BY <1>4, <1>a DEF CountAddress, Count, Counted, Goto, Answer, Passed, TypeOK
    <3>2. n'[k] = n[k]
      BY <1>4, <2>2, <1>a DEF CountAddress, Count, TypeOK
    <3> QED
      BY <3>1, <3>2, <1>b, <1>c
  <2> QED
    BY <2>1, <2>2
<1>5. ASSUME NEW l \in Logins, ExpireAddress(l) PROVE Fits
  <2>1. Passed(k)' \subseteq Passed(k)
    BY <1>5, <1>a DEF ExpireAddress, Counted, Goto, Answer, Passed, TypeOK
  <2> QED
    BY <1>5, <2>1, <1>b, <1>c DEF ExpireAddress, SetExpiry
<1>6. ASSUME NEW l \in Logins, CountAccount(l) PROVE Fits
  <2>1. CASE k = Account
    <3>1. l \in Passed(k)
      BY <1>6, <2>1 DEF CountAccount, Passed
    <3>2. n'[k] = n[k] + 1
      BY <1>6, <2>1, <1>a DEF CountAccount, Count, TypeOK
    <3>3. Passed(k)' \subseteq Passed(k) \ {l}
      BY <1>6, <2>1, <1>a DEF CountAccount, Count, Counted, Goto, Answer, Passed, TypeOK
    <3> QED
      BY <3>1, <3>2, <3>3, <1>a, RoomSpent
  <2>2. CASE k # Account
    <3>1. Passed(k)' \subseteq Passed(k)
      BY <1>6, <1>a DEF CountAccount, Count, Counted, Goto, Answer, Passed, TypeOK
    <3>2. n'[k] = n[k]
      BY <1>6, <2>2, <1>a DEF CountAccount, Count, TypeOK
    <3> QED
      BY <3>1, <3>2, <1>b, <1>c
  <2> QED
    BY <2>1, <2>2
<1>7. ASSUME NEW l \in Logins, ExpireAccount(l) PROVE Fits
  <2>1. Passed(k)' \subseteq Passed(k)
    BY <1>7, <1>a DEF ExpireAccount, Counted, Goto, Answer, Passed, TypeOK
  <2> QED
    BY <1>7, <2>1, <1>b, <1>c DEF ExpireAccount, SetExpiry
<1>8. ASSUME NEW l \in Logins, ClearAddress(l) PROVE Fits
  <2>1. Passed(k)' \subseteq Passed(k)
    BY <1>8, <1>a DEF ClearAddress, Goto, Passed, TypeOK
  <2>2. n'[k] <= n[k]
    BY <1>8, <1>a DEF ClearAddress, Clear, TypeOK
  <2> QED
    BY <2>1, <2>2, <1>b
<1>9. ASSUME NEW l \in Logins, ClearAccount(l) PROVE Fits
  <2>1. Passed(k)' \subseteq Passed(k)
    BY <1>9, <1>a DEF ClearAccount, Goto, Answer, Passed, TypeOK
  <2>2. n'[k] <= n[k]
    BY <1>9, <1>a DEF ClearAccount, Clear, TypeOK
  <2> QED
    BY <2>1, <2>2, <1>b
<1>10. ASSUME NEW l \in Logins, Break(l) PROVE Fits
  <2>1. Passed(k)' \subseteq Passed(k)
    BY <1>10, <1>a DEF Break, Goto, Answer, Passed, TypeOK
  <2> QED
    BY <1>10, <2>1, <1>b, <1>c DEF Break
<1>11. CASE Crash
  <2>1. Passed(k)' \subseteq Passed(k)
    BY <1>11 DEF Crash, Passed
  <2> QED
    BY <1>11, <2>1, <1>b, <1>c DEF Crash
<1>12. ASSUME NEW state \in UserStates, ChangeUser(state) PROVE Fits
  BY <1>12, <1>b, <1>c DEF ChangeUser, Passed, counters
<1>13. CASE Tick
  <2>1. n'[k] <= n[k]
    BY <1>13, <1>a DEF Tick, TypeOK
  <2> QED
    BY <1>13, <2>1, <1>b DEF Tick, Passed
<1>14. CASE UNCHANGED vars
  BY <1>14, <1>b, <1>c DEF vars, Passed
<1> QED
  BY <1>1, <1>2, <1>3, <1>4, <1>5, <1>6, <1>7, <1>8, <1>9, <1>10, <1>11, <1>12,
     <1>13, <1>14 DEF Next, LoginStep

\* However many logins check before any of them counts, each overshoots the
\* limit at most once.
THEOREM GuessesStayBounded == Spec => []GuessesBounded
<1>1. Init => IInv
  <2> SUFFICES ASSUME Init PROVE IInv
    OBVIOUS
  <2>1. TypeOK /\ CheckedOK
    BY LockoutConstantsOK DEF Init, TypeOK, Keys, Labels, CheckedOK
  <2>2. \A k \in Keys : Passed(k) = {} /\ n[k] = 0
    BY KeyTypes DEF Init, Passed
  <2>3. RoomOK
    BY <2>2, KeyTypes, PassedSize, FS_EmptySet DEF RoomOK
  <2> QED
    BY <2>1, <2>3 DEF IInv
<1>2. IInv /\ [Next]_vars => IInv'
  BY TypeStep, CheckedStep, RoomStep DEF IInv
<1>3. IInv => GuessesBounded
  <2> SUFFICES ASSUME IInv, NEW k \in Keys PROVE n[k] < MaxAttempts + Cardinality(Logins)
    BY DEF GuessesBounded
  <2> DEFINE p == Cardinality(Passed(k))
             c == Cardinality(Logins)
  <2>1. p \in Nat /\ c \in Nat /\ n[k] \in Nat /\ MaxAttempts \in Nat
    BY PassedSize, KeyTypes DEF IInv, TypeOK
  <2>2. n[k] + p <= MaxAttempts - 1 + c
    BY DEF IInv, RoomOK
  <2> HIDE DEF p, c
  <2> QED
    BY <2>1, <2>2 DEF c
<1> QED
  BY <1>1, <1>2, <1>3, PTL DEF Spec

=============================================================================
