------------------------------ MODULE KeyProofs ------------------------------
(***************************************************************************)
(* What KeyRotation and Migration promise for any number of handlers,      *)
(* queries, values, versions and DEKs as long as the rotations of a        *)
(* connection do not overlap (see the run key_concurrent_rotation for what *)
(* happens otherwise): first the keys alone, then with the workers, whose  *)
(* steps keep the invariant of the keys, and last that the whole           *)
(* implements KeyStore.                                                    *)
(***************************************************************************)
EXTENDS Migration, TLAPS

-----------------------------------------------------------------------------
(* The inductive invariant of the keys *)

\* A version names one DEK: the history holds the past, without contradiction.
HistoryIsPast ==
    /\ \A h \in history : h.version < conn.version
    /\ \A g, h \in history : g.version = h.version => g.dek = h.dek

\* The process holds true keys, or keys of versions that nobody has loaded.
CacheIsTrue ==
    \A v \in Versions : dekCache[v] # None => v > conn.version \/ Known(v, dekCache[v])

\* A rotation works on the connection as it is, and its new DEK is the one cached.
RotationIsCurrent ==
    \A a \in Rotators :
        /\ rotator[a].pc # "idle" =>
              rotator[a].version = conn.version /\ rotator[a].dek = conn.dek
        /\ rotator[a].pc = "loaded" => rotator[a].str = conn.str
        /\ rotator[a].pc = "rewrapped" =>
              /\ rotator[a].str = rotator[a].new
              /\ dekCache[rotator[a].version + 1] \in {None, rotator[a].new}

\* A query holds a version the database knows, and once it has loaded the history,
\* every version before its own.
QueryIsSound(c) ==
    /\ client[c].pc # "idle" =>
          Known(client[c].version, client[c].dek) /\ client[c].str = client[c].dek
    /\ \A h \in client[c].past : Known(h.version, h.dek)
    /\ client[c].pc = "ready" =>
          \A h \in history : h.version < client[c].version => h \in client[c].past

IInv ==
    /\ TypeOK
    /\ HistoryIsPast
    /\ conn.str = conn.dek
    /\ CacheIsTrue
    /\ RotationIsCurrent
    /\ \A c \in Clients : QueryIsSound(c)
    /\ RowsRecoverable

-----------------------------------------------------------------------------

LEMMA KnownIsUnique ==
  ASSUME TypeOK, HistoryIsPast, NEW v, NEW d, NEW e, Known(v, d), Known(v, e)
  PROVE  d = e /\ v \in Versions /\ d \in Deks /\ v <= conn.version
<1>1. CASE v = conn.version /\ d = conn.dek
  <2>1. v \in Versions /\ d \in Deks
    BY <1>1 DEF TypeOK
  <2>2. [version |-> v, dek |-> e] \notin history
    BY <1>1, <2>1 DEF HistoryIsPast, Versions
  <2> QED
    BY <1>1, <2>1, <2>2 DEF Known, Versions
<1>2. CASE [version |-> v, dek |-> d] \in history
  <2>1. v \in Versions /\ d \in Deks /\ v < conn.version
    BY <1>2 DEF TypeOK, Keys, HistoryIsPast
  <2>2. [version |-> v, dek |-> e] \in history
    BY <2>1 DEF Known, TypeOK, Versions
  <2> QED
    BY <1>2, <2>1, <2>2 DEF HistoryIsPast, TypeOK, Versions
<1> QED
  BY <1>1, <1>2 DEF Known

\* get_dek is right about every version the database knows, whatever is cached.
LEMMA GetDekIsTrue ==
  ASSUME TypeOK, HistoryIsPast, CacheIsTrue, NEW v, NEW d, Known(v, d)
  PROVE  GetDek(v, d) = d
<1>1. v \in Versions /\ v <= conn.version
  BY KnownIsUnique
<1>2. CASE dekCache[v] # None
  <2>1. Known(v, dekCache[v])
    BY <1>1, <1>2 DEF CacheIsTrue, TypeOK, Versions
  <2> QED
    BY <1>2, <2>1, KnownIsUnique DEF GetDek
<1> QED
  BY <1>2 DEF GetDek

-----------------------------------------------------------------------------

\* The types are invariant by themselves, however many rotations overlap.
LEMMA TypeStep == TypeOK /\ [Next]_vars => TypeOK'
<1> SUFFICES ASSUME TypeOK, [Next]_vars PROVE TypeOK'
  OBVIOUS
<1> USE KeyConstants DEF TypeOK, Versions, Deks, Garbled, None, Keys, Rotations, Queries, IdleRotator, IdleClient
<1>1. ASSUME NEW a \in Rotators, RotateLoad(a) PROVE TypeOK'
  BY <1>1 DEF RotateLoad
<1>2. ASSUME NEW a \in Rotators, RotateKeys(a) PROVE TypeOK'
  <2> DEFINE v == rotator[a].version
             old == GetDek(v, rotator[a].dek)
             new == drawn + 1
  <2>1. /\ rotator[a].pc = "loaded" /\ v \in 1..(MaxVersion - 1)
        /\ rotator[a].dek \in Deks /\ rotator[a].str \in Deks \union {Garbled}
    BY <1>2 DEF RotateKeys
  <2>2. new \in Deks /\ old \in Deks
    BY <1>2, <2>1 DEF RotateKeys, GetDek
  <2>3. drawn' \in Deks /\ dekCache' \in [Versions -> Deks \union {None}]
    BY <1>2, <2>1, <2>2 DEF RotateKeys
  <2>4. rotator' \in [Rotators -> Rotations]
    <3>1. rotator' = [rotator EXCEPT ![a] =
             [pc |-> "rewrapped", version |-> v, dek |-> rotator[a].dek,
              str |-> IF rotator[a].str = old THEN new ELSE Garbled, new |-> new]]
      BY <1>2 DEF RotateKeys
    <3> HIDE DEF v, old, new
    <3> QED
      BY <2>1, <2>2, <3>1
  <2> QED
    BY <1>2, <2>3, <2>4 DEF RotateKeys
<1>3. ASSUME NEW a \in Rotators, RotateCommit(a) PROVE TypeOK'
  <2>1. /\ rotator[a].version \in 1..(MaxVersion - 1)
        /\ rotator[a].dek \in Deks /\ rotator[a].new \in Deks
        /\ rotator[a].str \in Deks \union {Garbled}
    BY <1>3 DEF RotateCommit
  <2> QED
    BY <1>3, <2>1 DEF RotateCommit
<1>4. ASSUME NEW a \in Rotators, RotateFails(a) PROVE TypeOK'
  BY <1>4 DEF RotateFails
<1>5. ASSUME NEW c \in Clients, Load(c) PROVE TypeOK'
  BY <1>5 DEF Load
<1>6. ASSUME NEW c \in Clients, Unlock(c) PROVE TypeOK'
  <2>1. client[c].version \in Versions /\ client[c].dek \in Deks
    BY <1>6 DEF Unlock
  <2>2. GetDek(client[c].version, client[c].dek) \in Deks
    BY <2>1 DEF GetDek
  <2> QED
    BY <1>6, <2>1, <2>2 DEF Unlock
<1>7. ASSUME NEW c \in Clients, LoadHistory(c) PROVE TypeOK'
  <2>1. PICK pick \in [{h.version : h \in history} -> {h.dek : h \in history}] :
          /\ dekCache' = [v \in Versions |-> IF v \in DOMAIN pick THEN GetDek(v, pick[v]) ELSE dekCache[v]]
          /\ client' = [client EXCEPT ![c] =
                [pc |-> "ready", version |-> client[c].version, dek |-> client[c].dek,
                 str |-> client[c].str,
                 past |-> {[version |-> v, dek |-> GetDek(v, pick[v])] : v \in DOMAIN pick}]]
    BY <1>7 DEF LoadHistory
  <2>2. \A v \in DOMAIN pick : v \in Versions /\ pick[v] \in Deks /\ GetDek(v, pick[v]) \in Deks
    <3>1. \A h \in history : h.version \in Versions /\ h.dek \in Deks
      OBVIOUS
    <3>2. DOMAIN pick = {h.version : h \in history}
      OBVIOUS
    <3>3. \A v \in DOMAIN pick : v \in Versions /\ pick[v] \in Deks
      <4> HIDE DEF TypeOK
      <4> QED
        BY <3>1, <3>2
    <3>4. \A v \in Versions, d \in Deks : GetDek(v, d) \in Deks
      BY DEF GetDek
    <3> HIDE DEF TypeOK
    <3> QED
      BY <3>3, <3>4
  <2>3. {[version |-> v, dek |-> GetDek(v, pick[v])] : v \in DOMAIN pick} \subseteq Keys
    BY <2>2
  <2>4. client[c].version \in Versions /\ client[c].dek \in Deks /\ client[c].str \in Deks \union {Garbled}
    BY <1>7 DEF LoadHistory
  <2>5. dekCache' \in [Versions -> Deks \union {None}]
    BY <2>1, <2>2
  <2>6. client' \in [Clients -> Queries]
    BY <2>1, <2>3, <2>4
  <2> QED
    BY <1>7, <2>5, <2>6 DEF LoadHistory
<1>8. ASSUME NEW c \in Clients, NEW x \in Rows, WriteRow(c, x) PROVE TypeOK'
  BY <1>8 DEF WriteRow, Plain
<1>9. ASSUME NEW c \in Clients, NEW x \in Rows, ReadRow(c, x) PROVE TypeOK'
  BY <1>9 DEF ReadRow
<1>10. ASSUME NEW c \in Clients, Abandon(c) PROVE TypeOK'
  BY <1>10 DEF Abandon
<1>11. ASSUME NEW v \in Versions, DekExpires(v) PROVE TypeOK'
  BY <1>11 DEF DekExpires
<1>12. ASSUME NEW x \in Rows, ResultExpires(x) PROVE TypeOK'
  BY <1>12 DEF ResultExpires
<1>13. ASSUME Crash PROVE TypeOK'
  BY <1>13 DEF Crash
<1>14. CASE UNCHANGED vars
  BY <1>14 DEF vars
<1> QED
  BY <1>1, <1>2, <1>3, <1>4, <1>5, <1>6, <1>7, <1>8, <1>9, <1>10, <1>11, <1>12, <1>13, <1>14
     DEF Next, Rotate, Query

-----------------------------------------------------------------------------

LEMMA InitIInv == Init => IInv
<1> SUFFICES ASSUME Init PROVE IInv
  OBVIOUS
<1>1. TypeOK
  BY KeyConstants DEF Init, TypeOK, Versions, Deks, None, Keys, Rotations, Queries, Plain
<1> QED
  BY <1>1 DEF Init, IInv, HistoryIsPast, CacheIsTrue, RotationIsCurrent, QueryIsSound,
              RowsRecoverable, Recoverable, IdleRotator, IdleClient, None

\* What the database holds does not change as long as no rotation commits.
LEMMA SameDatabase ==
  ASSUME IInv, UNCHANGED <<conn, history>>
  PROVE  /\ HistoryIsPast'
         /\ conn'.str = conn'.dek
         /\ \A v, d : Known(v, d)' <=> Known(v, d)
  BY DEF IInv, HistoryIsPast, Known

\* Cached keys may go, and keys the database knows may come.
LEMMA CacheStaysTrue ==
  ASSUME IInv, UNCHANGED <<conn, history>>,
         \A v \in Versions : dekCache'[v] \in {None, dekCache[v]} \/ Known(v, dekCache'[v])
  PROVE  CacheIsTrue'
  BY SameDatabase DEF IInv, CacheIsTrue

\* The same for the rotation in flight, if it does not take part in the step.
LEMMA RotationStaysCurrent ==
  ASSUME IInv, UNCHANGED <<conn, history, rotator>>,
         \A v \in Versions : dekCache'[v] \in {None, dekCache[v]} \/ Known(v, dekCache'[v])
  PROVE  RotationIsCurrent'
<1> SUFFICES ASSUME NEW a \in Rotators, rotator[a].pc = "rewrapped"
             PROVE  dekCache'[rotator[a].version + 1] \in {None, rotator[a].new}
  BY DEF IInv, RotationIsCurrent
<1> DEFINE v == rotator[a].version + 1
<1>1. v \in Versions /\ v > conn.version
  BY KeyConstants DEF IInv, TypeOK, RotationIsCurrent, Rotations, IdleRotator, Versions
<1>2. ~Known(v, dekCache'[v])
  BY <1>1 DEF Known, IInv, HistoryIsPast, TypeOK, Keys, Versions
<1> QED
  BY <1>1, <1>2 DEF IInv, RotationIsCurrent

\* Steps of a query keep the invariant if they keep that query sound.
LEMMA QueryStep ==
  ASSUME IInv, TypeOK', UNCHANGED <<conn, history, rotator>>, NEW c \in Clients,
         \A v \in Versions : dekCache'[v] \in {None, dekCache[v]} \/ Known(v, dekCache'[v]),
         \A d \in Clients \ {c} : client'[d] = client[d],
         QueryIsSound(c)', RowsRecoverable'
  PROVE  IInv'
<1>1. HistoryIsPast' /\ conn'.str = conn'.dek /\ CacheIsTrue' /\ RotationIsCurrent'
  BY SameDatabase, CacheStaysTrue, RotationStaysCurrent
<1>2. \A d \in Clients : QueryIsSound(d)'
  BY SameDatabase DEF IInv, QueryIsSound
<1> QED
  BY <1>1, <1>2 DEF IInv

LEMMA SameRows ==
  ASSUME IInv, UNCHANGED <<conn, history, rows>> PROVE RowsRecoverable'
  BY SameDatabase DEF IInv, RowsRecoverable, Recoverable

-----------------------------------------------------------------------------

LEMMA RotateKeysStep ==
  ASSUME NoOverlap, IInv, TypeOK', NEW a \in Rotators, RotateKeys(a)
  PROVE  IInv'
<1> DEFINE v == rotator[a].version
<1>1. /\ rotator[a].pc = "loaded" /\ v = conn.version /\ rotator[a].dek = conn.dek
      /\ rotator[a].str = conn.dek
  BY DEF RotateKeys, IInv, RotationIsCurrent
<1>2. GetDek(v, rotator[a].dek) = conn.dek
  BY <1>1, GetDekIsTrue DEF IInv, Known
<1>3. dekCache' = [dekCache EXCEPT ![v] = conn.dek, ![v + 1] = drawn + 1]
  BY <1>2 DEF RotateKeys
<1>4. rotator' = [rotator EXCEPT ![a] =
         [pc |-> "rewrapped", version |-> v, dek |-> conn.dek, str |-> drawn + 1, new |-> drawn + 1]]
  BY <1>1, <1>2 DEF RotateKeys
<1>5. UNCHANGED <<conn, history, rows, client>>
  BY DEF RotateKeys
<1>6. v \in Versions /\ v + 1 \in Versions
  BY <1>1 DEF RotateKeys, IInv, TypeOK, Versions
<1>7. CacheIsTrue'
  <2> SUFFICES ASSUME NEW w \in Versions, dekCache'[w] # None
               PROVE  w > conn.version \/ Known(w, dekCache'[w])
    BY <1>5, SameDatabase DEF CacheIsTrue
  <2>1. CASE w = v + 1
    BY <2>1, <1>1, <1>6 DEF Versions
  <2>2. CASE w = v
    BY <2>2, <1>1, <1>3, <1>6 DEF Known, IInv, TypeOK, Versions
  <2>3. CASE w \notin {v, v + 1}
    BY <2>3, <1>3, <1>6 DEF IInv, CacheIsTrue, TypeOK
  <2> QED
    BY <2>1, <2>2, <2>3
<1>8. RotationIsCurrent'
  <2>1. \A b \in Rotators \ {a} : rotator'[b].pc = "idle"
    BY <1>1, <1>4 DEF NoOverlap, IInv, TypeOK
  <2>2. dekCache'[v + 1] = drawn + 1
    BY <1>3, <1>6 DEF IInv, TypeOK
  <2> QED
    BY <1>1, <1>4, <1>5, <2>1, <2>2 DEF RotationIsCurrent, IInv, TypeOK
<1>9. \A c \in Clients : QueryIsSound(c)'
  BY <1>5, SameDatabase DEF QueryIsSound, IInv
<1> QED
  BY <1>5, <1>7, <1>8, <1>9, SameDatabase, SameRows DEF IInv

LEMMA RotateCommitStep ==
  ASSUME NoOverlap, IInv, TypeOK', NEW a \in Rotators, RotateCommit(a)
  PROVE  IInv'
<1> DEFINE new == rotator[a].new
<1>1. /\ rotator[a].pc = "rewrapped" /\ rotator[a].version = conn.version
      /\ rotator[a].dek = conn.dek /\ rotator[a].str = new
      /\ dekCache[conn.version + 1] \in {None, new}
  BY DEF RotateCommit, IInv, RotationIsCurrent
<1>2. /\ conn' = [version |-> conn.version + 1, dek |-> new, str |-> new]
      /\ history' = history \union {[version |-> conn.version, dek |-> conn.dek]}
      /\ rotator' = [rotator EXCEPT ![a] = IdleRotator]
      /\ UNCHANGED <<dekCache, rows, client>>
  BY <1>1 DEF RotateCommit
<1>3. conn.version \in Nat
  BY DEF IInv, TypeOK, Versions
<1>4. \A v, d : Known(v, d) => Known(v, d)'
  BY <1>2 DEF Known
<1>5. HistoryIsPast'
  <2>1. \A h \in history' : h.version < conn'.version
    BY <1>2, <1>3 DEF IInv, HistoryIsPast, TypeOK, Keys, Versions
  <2>2. \A g, h \in history' : g.version = h.version => g.dek = h.dek
    BY <1>2, <1>3 DEF IInv, HistoryIsPast, TypeOK, Keys, Versions
  <2> QED
    BY <2>1, <2>2 DEF HistoryIsPast
<1>6. CacheIsTrue'
  <2> SUFFICES ASSUME NEW v \in Versions, dekCache[v] # None
               PROVE  v > conn.version + 1 \/ Known(v, dekCache[v])'
    BY <1>2 DEF CacheIsTrue
  <2>1. CASE v = conn.version + 1
    BY <2>1, <1>1, <1>2 DEF Known
  <2>2. CASE v > conn.version + 1
    BY <2>2
  <2>3. CASE v <= conn.version
    <3>1. Known(v, dekCache[v])
      BY <1>3, <2>3 DEF IInv, CacheIsTrue, Versions
    <3> QED
      BY <1>2, <1>4, <3>1
  <2> QED
    BY <1>3, <2>1, <2>2, <2>3 DEF Versions
<1>7. RotationIsCurrent'
  <2>1. \A b \in Rotators : rotator'[b].pc = "idle"
    BY <1>1, <1>2 DEF NoOverlap, IdleRotator, IInv, TypeOK
  <2> QED
    BY <2>1 DEF RotationIsCurrent
<1>8. ASSUME NEW c \in Clients PROVE QueryIsSound(c)'
  <2>1. QueryIsSound(c)
    BY DEF IInv
  <2>2. client[c].pc = "ready" => client[c].version <= conn.version
    BY <2>1, KnownIsUnique DEF QueryIsSound, IInv
  <2>3. client[c].pc # "idle" =>
          Known(client[c].version, client[c].dek)' /\ client[c].str = client[c].dek
    BY <1>2, <1>4, <2>1 DEF QueryIsSound
  <2>4. \A h \in client[c].past : Known(h.version, h.dek)'
    BY <1>2, <1>4, <2>1 DEF QueryIsSound
  <2>5. ASSUME client[c].pc = "ready", NEW h \in history', h.version < client[c].version
        PROVE  h \in client[c].past
    <3>1. client[c].version \in Nat
      BY <2>5 DEF IInv, TypeOK, Queries, IdleClient, Versions
    <3>2. h \in history
      BY <1>2, <1>3, <2>2, <2>5, <3>1
    <3> QED
      BY <2>1, <2>5, <3>2 DEF QueryIsSound
  <2> QED
    BY <1>2, <2>3, <2>4, <2>5 DEF QueryIsSound
<1>9. RowsRecoverable'
  BY <1>2, <1>4 DEF IInv, RowsRecoverable, Recoverable
<1> QED
  BY <1>2, <1>5, <1>6, <1>7, <1>8, <1>9 DEF IInv

LEMMA LoadHistoryStep ==
  ASSUME IInv, TypeOK', NEW c \in Clients, LoadHistory(c)
  PROVE  IInv'
<1>1. PICK pick \in [{h.version : h \in history} -> {h.dek : h \in history}] :
        /\ \A v \in DOMAIN pick : [version |-> v, dek |-> pick[v]] \in history
        /\ dekCache' = [v \in Versions |->
              IF v \in DOMAIN pick THEN GetDek(v, pick[v]) ELSE dekCache[v]]
        /\ client' = [client EXCEPT ![c] =
              [pc |-> "ready", version |-> client[c].version, dek |-> client[c].dek,
               str |-> client[c].str,
               past |-> {[version |-> v, dek |-> GetDek(v, pick[v])] : v \in DOMAIN pick}]]
  BY DEF LoadHistory
<1>2. client[c].pc = "open" /\ UNCHANGED <<conn, history, rotator, rows>>
  BY DEF LoadHistory
<1>3. \A v \in DOMAIN pick : Known(v, pick[v]) /\ GetDek(v, pick[v]) = pick[v]
  <2> TAKE v \in DOMAIN pick
  <2>1. Known(v, pick[v])
    BY <1>1 DEF Known
  <2> QED
    BY <2>1, GetDekIsTrue DEF IInv
<1>4. \A h \in history : h.version \in DOMAIN pick /\ pick[h.version] = h.dek
  <2> TAKE h \in history
  <2>1. h.version \in DOMAIN pick
    BY <1>1
  <2>2. [version |-> h.version, dek |-> pick[h.version]] \in history
    BY <1>1, <2>1
  <2>3. \A g \in history : g.version = h.version => g.dek = h.dek
    BY DEF IInv, HistoryIsPast
  <2> QED
    BY <2>1, <2>2, <2>3
<1>5. client'[c].past = {[version |-> v, dek |-> pick[v]] : v \in DOMAIN pick}
  BY <1>1, <1>3 DEF IInv, TypeOK
<1>6. \A h \in history : h \in client'[c].past
  <2> TAKE h \in history
  <2>1. h = [version |-> h.version, dek |-> h.dek]
    BY DEF IInv, TypeOK, Keys
  <2> QED
    BY <1>4, <1>5, <2>1
<1>7. QueryIsSound(c)'
  <2>1. \A h \in client'[c].past : Known(h.version, h.dek)
    BY <1>3, <1>5
  <2>2. client'[c].pc = "ready" /\ client'[c].version = client[c].version
        /\ client'[c].dek = client[c].dek /\ client'[c].str = client[c].str
    BY <1>1 DEF IInv, TypeOK
  <2> QED
    BY <1>2, <1>6, <2>1, <2>2, SameDatabase DEF QueryIsSound, IInv
<1>8. \A v \in Versions : dekCache'[v] \in {None, dekCache[v]} \/ Known(v, dekCache'[v])
  BY <1>1, <1>3
<1>9. \A d \in Clients \ {c} : client'[d] = client[d]
  BY <1>1 DEF IInv, TypeOK
<1> QED
  BY <1>2, <1>7, <1>8, <1>9, QueryStep, SameRows

LEMMA UnlockStep ==
  ASSUME IInv, TypeOK', NEW c \in Clients, Unlock(c)
  PROVE  IInv'
<1> DEFINE v == client[c].version
<1>1. client[c].pc = "loaded" /\ Known(v, client[c].dek) /\ client[c].str = client[c].dek
  BY DEF Unlock, IInv, QueryIsSound
<1>2. GetDek(v, client[c].dek) = client[c].dek
  BY <1>1, GetDekIsTrue DEF IInv
<1>3. /\ dekCache' = [dekCache EXCEPT ![v] = client[c].dek]
      /\ client' = [client EXCEPT ![c] =
            [pc |-> "open", version |-> v, dek |-> client[c].dek, str |-> client[c].dek, past |-> {}]]
      /\ UNCHANGED <<conn, history, rotator, rows>>
  BY <1>1, <1>2 DEF Unlock
<1>4. \A w \in Versions : dekCache'[w] \in {None, dekCache[w]} \/ Known(w, dekCache'[w])
  BY <1>1, <1>3 DEF IInv, TypeOK
<1>5. QueryIsSound(c)'
  BY <1>1, <1>3, SameDatabase DEF QueryIsSound, IInv, TypeOK
<1>6. \A d \in Clients \ {c} : client'[d] = client[d]
  BY <1>3 DEF IInv, TypeOK
<1> QED
  BY <1>3, <1>4, <1>5, <1>6, QueryStep, SameRows

LEMMA IInvStep == NoOverlap /\ IInv /\ [Next]_vars => IInv'
<1> SUFFICES ASSUME NoOverlap, IInv, [Next]_vars PROVE IInv'
  OBVIOUS
<1>0. TypeOK /\ TypeOK'
  BY TypeStep DEF IInv
\* A query that ends, or that has just loaded the connection, is sound.
<1>a. ASSUME NEW c \in Clients, UNCHANGED <<conn, history, rotator, dekCache>>, RowsRecoverable',
             client' = [client EXCEPT ![c] = IdleClient]
      PROVE  IInv'
  <2>1. client'[c] = IdleClient /\ \A d \in Clients \ {c} : client'[d] = client[d]
    BY <1>0, <1>a DEF TypeOK
  <2>2. QueryIsSound(c)'
    BY <2>1 DEF QueryIsSound, IdleClient
  <2> QED
    BY <1>0, <1>a, <2>1, <2>2, QueryStep
<1>1. ASSUME NEW a \in Rotators, RotateLoad(a) PROVE IInv'
  <2>1. RotationIsCurrent'
    BY <1>0, <1>1 DEF RotateLoad, IInv, RotationIsCurrent, TypeOK
  <2>2. CacheIsTrue' /\ \A c \in Clients : QueryIsSound(c)'
    BY <1>1, SameDatabase DEF RotateLoad, IInv, CacheIsTrue, QueryIsSound
  <2> QED
    BY <1>0, <1>1, <2>1, <2>2, SameDatabase, SameRows DEF RotateLoad, IInv
<1>2. ASSUME NEW a \in Rotators, RotateKeys(a) PROVE IInv'
  BY <1>0, <1>2, RotateKeysStep
<1>3. ASSUME NEW a \in Rotators, RotateCommit(a) PROVE IInv'
  BY <1>0, <1>3, RotateCommitStep
<1>4. ASSUME NEW a \in Rotators, RotateFails(a) PROVE IInv'
  <2>1. RotationIsCurrent'
    BY <1>0, <1>4 DEF RotateFails, IInv, RotationIsCurrent, TypeOK, IdleRotator
  <2>2. CacheIsTrue' /\ \A c \in Clients : QueryIsSound(c)'
    BY <1>4, SameDatabase DEF RotateFails, IInv, CacheIsTrue, QueryIsSound
  <2> QED
    BY <1>0, <1>4, <2>1, <2>2, SameDatabase, SameRows DEF RotateFails, IInv
<1>5. ASSUME NEW c \in Clients, Load(c) PROVE IInv'
  <2>1. client' = [client EXCEPT ![c] =
           [pc |-> "loaded", version |-> conn.version, dek |-> conn.dek,
            str |-> conn.str, past |-> {}]]
        /\ UNCHANGED <<conn, history, dekCache, rotator, rows>>
    BY <1>5 DEF Load
  <2>2. QueryIsSound(c)'
    BY <1>0, <2>1 DEF IInv, QueryIsSound, Known, TypeOK
  <2>3. \A d \in Clients \ {c} : client'[d] = client[d]
    BY <1>0, <2>1 DEF TypeOK
  <2> QED
    BY <1>0, <2>1, <2>2, <2>3, QueryStep, SameRows
<1>6. ASSUME NEW c \in Clients, Unlock(c) PROVE IInv'
  BY <1>0, <1>6, UnlockStep
<1>7. ASSUME NEW c \in Clients, LoadHistory(c) PROVE IInv'
  BY <1>0, <1>7, LoadHistoryStep
<1>8. ASSUME NEW c \in Clients, NEW x \in Rows, WriteRow(c, x) PROVE IInv'
  <2>1. Known(client[c].version, client[c].dek)
    BY <1>8 DEF WriteRow, IInv, QueryIsSound
  <2>2. RowsRecoverable'
    BY <1>0, <1>8, <2>1, SameDatabase DEF WriteRow, IInv, RowsRecoverable, Recoverable, TypeOK
  <2> QED
    BY <1>8, <1>a, <2>2 DEF WriteRow
<1>9. ASSUME NEW c \in Clients, NEW x \in Rows, ReadRow(c, x) PROVE IInv'
  BY <1>9, <1>a, SameRows DEF ReadRow
<1>10. ASSUME NEW c \in Clients, Abandon(c) PROVE IInv'
  BY <1>10, <1>a, SameRows DEF Abandon
<1>11. ASSUME NEW v \in Versions, DekExpires(v) PROVE IInv'
  <2>1. \A w \in Versions : dekCache'[w] \in {None, dekCache[w]}
    BY <1>0, <1>11 DEF DekExpires, TypeOK
  <2>2. CacheIsTrue' /\ RotationIsCurrent'
    BY <1>11, <2>1, CacheStaysTrue, RotationStaysCurrent DEF DekExpires
  <2> QED
    BY <1>0, <1>11, <2>2, SameDatabase, SameRows DEF DekExpires, IInv, QueryIsSound
<1>12. ASSUME NEW x \in Rows, ResultExpires(x) PROVE IInv'
  <2>1. CacheIsTrue' /\ RotationIsCurrent'
    BY <1>12, CacheStaysTrue, RotationStaysCurrent DEF ResultExpires
  <2> QED
    BY <1>0, <1>12, <2>1, SameDatabase, SameRows DEF ResultExpires, IInv, QueryIsSound
<1>13. ASSUME Crash PROVE IInv'
  <2>1. CacheIsTrue' /\ RotationIsCurrent' /\ \A c \in Clients : QueryIsSound(c)'
    BY <1>13 DEF Crash, CacheIsTrue, RotationIsCurrent, QueryIsSound, IdleRotator, IdleClient
  <2> QED
    BY <1>0, <1>13, <2>1, SameDatabase, SameRows DEF Crash, IInv
<1>14. CASE UNCHANGED vars
  <2>1. CacheIsTrue' /\ RotationIsCurrent'
    BY <1>14, CacheStaysTrue, RotationStaysCurrent DEF vars
  <2> QED
    BY <1>0, <1>14, <2>1, SameDatabase, SameRows DEF vars, IInv, QueryIsSound
<1> QED
  BY <1>1, <1>2, <1>3, <1>4, <1>5, <1>6, <1>7, <1>8, <1>9, <1>10, <1>11, <1>12, <1>13, <1>14
     DEF Next, Rotate, Query

-----------------------------------------------------------------------------
(* The theorems *)

\* The types hold whether or not rotations overlap.
THEOREM TypeCorrect == Spec => []TypeOK
<1>1. Init => TypeOK
  BY InitIInv DEF IInv
<1> QED
  BY <1>1, TypeStep, PTL DEF Spec

THEOREM Invariant == Spec /\ []NoOverlap => []IInv
<1>1. NoOverlap /\ IInv /\ [Next]_vars => IInv'
  BY IInvStep
<1> QED
  BY <1>1, InitIInv, PTL DEF Spec

\* No value written through the gateway is lost to a rotation, a rotation that fails,
\* a crash or an expired DEK, if rotations do not overlap.
THEOREM NothingIsLost == Spec /\ []NoOverlap => []RowsRecoverable
<1>1. IInv => RowsRecoverable
  BY DEF IInv
<1> QED
  BY <1>1, Invariant, PTL

\* No query is turned away because a rotation cached a DEK too early.
THEOREM NoDowntime == Spec /\ []NoOverlap => []ConnectionsOpen
<1>1. IInv => ConnectionsOpen
  BY GetDekIsTrue DEF IInv, QueryIsSound, ConnectionsOpen
<1> QED
  BY <1>1, Invariant, PTL

\* A SELECT that cannot open a value holds keys older than the value.
LEMMA SealedReadIsOvertaken ==
  ASSUME IInv, NEW c \in Clients, NEW x \in Rows, ReadRow(c, x), ~Opens(c, x)
  PROVE  rows[x].version > client[c].version
<1>1. client[c].pc = "ready" /\ QueryIsSound(c)
  BY DEF ReadRow, IInv
<1>2. rows[x] # Plain /\ Known(rows[x].version, rows[x].key)
  BY DEF Opens, IInv, RowsRecoverable, Recoverable
<1>3. /\ rows[x].version \in Versions /\ client[c].version \in Versions
      /\ client[c].version <= conn.version /\ rows[x].version <= conn.version
  BY <1>1, <1>2, KnownIsUnique DEF QueryIsSound, IInv
<1>4. CASE rows[x].version = client[c].version
  <2>1. rows[x].key = client[c].dek
    BY <1>1, <1>2, <1>4, KnownIsUnique DEF QueryIsSound, IInv
  <2>2. \A h \in client[c].past : h.version = rows[x].version => h.dek = rows[x].key
    BY <1>1, <1>2, KnownIsUnique DEF QueryIsSound, IInv
  <2>3. \A h \in client[c].past : h = [version |-> h.version, dek |-> h.dek]
    BY <1>1 DEF IInv, TypeOK, Queries, IdleClient, Keys
  <2> QED
    BY <2>1, <2>2, <2>3 DEF Opens
<1>5. CASE rows[x].version < client[c].version
  <2>1. [version |-> rows[x].version, dek |-> rows[x].key] \in history
    BY <1>2, <1>3, <1>5 DEF Known, IInv, TypeOK, Versions
  <2>2. [version |-> rows[x].version, dek |-> rows[x].key] \in client[c].past
    BY <1>1, <1>5, <2>1 DEF QueryIsSound
  <2> QED
    BY <2>2 DEF Opens
<1> QED
  BY <1>3, <1>4, <1>5 DEF Versions

\* A SELECT meets a value it cannot open only if the value is newer than its keys.
THEOREM OvertakenOnly == Spec /\ []NoOverlap => OnlyOvertakenReadsStaySealed
<1>1. IInv /\ [Next]_vars =>
        [\A c \in Clients, x \in Rows :
            ReadRow(c, x) /\ ~Opens(c, x) => rows[x].version > client[c].version]_vars
  BY SealedReadIsOvertaken
<1> QED
  BY <1>1, Invariant, PTL DEF Spec, OnlyOvertakenReadsStaySealed

-----------------------------------------------------------------------------
(* The inductive invariant with jobs and workers *)

\* A rotation that has yet to schedule its job is over, its key is history, and
\* nobody else works on that job or is to schedule it.
DueOK ==
    \A a \in Rotators : due[a] # None =>
        /\ rotator[a].pc = "idle"
        /\ due[a] < conn.version
        /\ \E h \in history : h.version = due[a]
        /\ job[due[a]] \in {"none", "pending"}
        /\ ~Running(due[a])
        /\ \A b \in Rotators : due[b] = due[a] => b = a

\* There are jobs of past versions only.
JobsArePast == \A v \in Versions : v >= conn.version => job[v] = "none" /\ ~Running(v)

\* A worker holds a DEK that the database knows, and the string it opens.
WorkersAreSound ==
    \A v \in Versions :
        /\ Running(v) => \E h \in history : h.version = v
        /\ worker[v].pc \in {"loaded", "keyed", "fetched"} =>
              Known(worker[v].version, worker[v].dek) /\ worker[v].str = worker[v].dek

\* A DEK is drawn once: all that the database holds were drawn before the one
\* that a rotation is about to commit.
KeysAreFresh ==
    /\ conn.dek <= drawn
    /\ \A h \in history : h.dek <= drawn
    /\ \A a \in Rotators : rotator[a].pc = "rewrapped" =>
          /\ rotator[a].new <= drawn
          /\ conn.dek < rotator[a].new
          /\ \A h \in history : h.dek < rotator[a].new

MInv ==
    /\ IInv
    /\ KeysAreFresh
    /\ JobsTypeOK
    /\ DueOK
    /\ JobsArePast
    /\ WorkersAreSound
    /\ UnfinishedJobsHaveWorkers

-----------------------------------------------------------------------------
(* Keys and rows *)

\* A DEK that the database knows may be cached.
LEMMA CacheKnown ==
  ASSUME IInv, NEW v, NEW d, Known(v, d), dekCache' = [dekCache EXCEPT ![v] = d],
         UNCHANGED <<conn, history, drawn, rows, rotator, client, cached>>
  PROVE  IInv'
<1>1. v \in Versions /\ d \in Deks
  BY KnownIsUnique DEF IInv
<1>2. TypeOK'
  BY <1>1 DEF IInv, TypeOK
<1>3. \A w \in Versions : dekCache'[w] \in {None, dekCache[w]} \/ Known(w, dekCache'[w])
  BY <1>1 DEF IInv, TypeOK
<1>4. CacheIsTrue' /\ RotationIsCurrent'
  BY <1>3, CacheStaysTrue, RotationStaysCurrent
<1> QED
  BY <1>2, <1>4, SameDatabase, SameRows DEF IInv, QueryIsSound

\* A value may be sealed with a DEK that the database knows.
LEMMA SealKnown ==
  ASSUME IInv, NEW v, NEW d, Known(v, d), NEW x \in Rows,
         rows' = [rows EXCEPT ![x] = [key |-> d, version |-> v]],
         UNCHANGED <<conn, history, dekCache, drawn, rotator, client, cached>>
  PROVE  IInv'
<1>1. v \in Versions /\ d \in Deks
  BY KnownIsUnique DEF IInv
<1>2. TypeOK'
  BY <1>1 DEF IInv, TypeOK
<1>3. RowsRecoverable'
  BY SameDatabase DEF IInv, RowsRecoverable, Recoverable, TypeOK
<1>4. CacheIsTrue' /\ RotationIsCurrent'
  BY CacheStaysTrue, RotationStaysCurrent
<1> QED
  BY <1>2, <1>3, <1>4, SameDatabase DEF IInv, QueryIsSound

\* What KeyRotation allows, it still allows here; what the workers add keeps
\* the invariant.
LEMMA KeysStep ==
  NoOverlap /\ IInv /\ WorkersAreSound /\ [MigrationNext]_allVars => IInv'
<1> SUFFICES ASSUME NoOverlap, IInv, WorkersAreSound, [MigrationNext]_allVars PROVE IInv'
  OBVIOUS
<1>a. ASSUME [Next]_vars PROVE IInv'
  BY <1>a, IInvStep
<1>b. conn.version \in Versions /\ conn.dek \in Deks
  BY DEF IInv, TypeOK
<1>1. CASE KeyStep
  BY <1>1, <1>a DEF KeyStep, Next, Rotate
<1>2. ASSUME NEW a \in Rotators, CommitRotation(a) PROVE IInv'
  BY <1>2, <1>a DEF CommitRotation, Next, Rotate
<1>3. CASE UNCHANGED vars
  BY <1>3, <1>a
<1>4. ASSUME NEW v \in Versions, LoadConnection(v) PROVE IInv'
  <2>1. Known(conn.version, conn.dek)
    BY DEF Known
  <2>2. GetDek(conn.version, conn.dek) = conn.dek
    BY <2>1, GetDekIsTrue DEF IInv
  <2> QED
    BY <1>4, <2>1, <2>2, CacheKnown DEF LoadConnection
<1>5. ASSUME NEW v \in Versions, LoadOldKey(v) PROVE IInv'
  <2>1. PICK h \in history : h.version = v /\ dekCache' = [dekCache EXCEPT ![v] = GetDek(v, h.dek)]
    BY <1>5 DEF LoadOldKey
  <2>2. Known(v, h.dek)
    BY <2>1 DEF Known, IInv, TypeOK, Keys
  <2>3. GetDek(v, h.dek) = h.dek
    BY <2>2, GetDekIsTrue DEF IInv
  <2> QED
    BY <1>5, <2>1, <2>2, <2>3, CacheKnown DEF LoadOldKey
<1>6. ASSUME NEW v \in Versions, NEW x \in Rows, Reseal(v, x) PROVE IInv'
  <2>1. Known(worker[v].version, worker[v].dek)
    BY <1>6 DEF Reseal, WorkersAreSound
  <2> QED
    BY <1>6, <2>1, SealKnown DEF Reseal
<1>7. CASE Stop
  BY <1>7, <1>a DEF Stop, Next
<1> QED
  BY <1>1, <1>2, <1>3, <1>4, <1>5, <1>6, <1>7
     DEF MigrationNext, allVars, vars, Work, Trigger, Spawn, TriggerFails, Begin,
         FetchRows, Complete, Fail, FailUnrecorded

\* Only rotations draw DEKs, and none is drawn twice.
LEMMA FreshStep ==
  NoOverlap /\ IInv /\ KeysAreFresh /\ [MigrationNext]_allVars => KeysAreFresh'
<1> SUFFICES ASSUME NoOverlap, IInv, KeysAreFresh, [MigrationNext]_allVars PROVE KeysAreFresh'
  OBVIOUS
<1>a. /\ conn.dek \in Nat /\ drawn \in Nat
      /\ \A h \in history : h.dek \in Nat
      /\ rotator = [a \in Rotators |-> rotator[a]]
  BY DEF IInv, TypeOK, Keys, Deks
<1>1. ASSUME UNCHANGED <<conn, history, drawn, rotator>> PROVE KeysAreFresh'
  BY <1>1 DEF KeysAreFresh
<1>2. ASSUME NEW a \in Rotators, RotateLoad(a) PROVE KeysAreFresh'
  BY <1>2, <1>a DEF RotateLoad, KeysAreFresh
<1>3. ASSUME NEW a \in Rotators, RotateKeys(a) PROVE KeysAreFresh'
  <2>1. /\ UNCHANGED <<conn, history>> /\ drawn' = drawn + 1
        /\ rotator'[a].new = drawn + 1
        /\ \A b \in Rotators \ {a} : rotator'[b].pc = "idle"
    BY <1>3, <1>a DEF RotateKeys, NoOverlap
  <2> QED
    BY <1>a, <2>1 DEF KeysAreFresh
<1>4. ASSUME NEW a \in Rotators, RotateCommit(a) PROVE KeysAreFresh'
  <2>1. /\ rotator[a].new \in Nat /\ rotator[a].new <= drawn
        /\ conn.dek < rotator[a].new
        /\ rotator[a].dek = conn.dek
    BY <1>4 DEF RotateCommit, KeysAreFresh, IInv, RotationIsCurrent, TypeOK, Rotations, Deks, IdleRotator
  <2>2. /\ conn'.dek = rotator[a].new /\ UNCHANGED drawn
        /\ history' = history \union {[version |-> rotator[a].version, dek |-> conn.dek]}
        /\ \A b \in Rotators : rotator'[b].pc = "idle"
    BY <1>4, <1>a, <2>1 DEF RotateCommit, NoOverlap, IdleRotator
  <2> QED
    BY <1>a, <2>1, <2>2 DEF KeysAreFresh
<1>5. ASSUME NEW a \in Rotators, RotateFails(a) PROVE KeysAreFresh'
  BY <1>5, <1>a DEF RotateFails, KeysAreFresh, IdleRotator
<1>6. CASE KeyStep
  BY <1>6, <1>1, <1>2, <1>3, <1>5
     DEF KeyStep, Query, Load, Unlock, LoadHistory, Abandon, WriteRow, ReadRow,
         DekExpires, ResultExpires
<1>7. ASSUME NEW v \in Versions, Work(v) PROVE KeysAreFresh'
  BY <1>7, <1>1 DEF Work, Begin, LoadConnection, LoadOldKey, FetchRows, Reseal,
                    Complete, Fail, FailUnrecorded, vars
<1>8. CASE Stop
  BY <1>8 DEF Stop, Crash, KeysAreFresh, IdleRotator
<1> QED
  BY <1>1, <1>4, <1>6, <1>7, <1>8
     DEF MigrationNext, allVars, vars, CommitRotation, Trigger, Spawn, TriggerFails

-----------------------------------------------------------------------------
(* Jobs and workers *)

\* The database while no rotation commits.
LEMMA SameHistory ==
  ASSUME IInv, UNCHANGED <<conn, history>>
  PROVE  \A v, d : Known(v, d) => Known(v, d)'
BY SameDatabase

\* A commit keeps what the database knows, moves on by one version and leaves
\* the old one in the history.
LEMMA CommitFacts ==
  ASSUME IInv, NEW a \in Rotators, CommitRotation(a)
  PROVE  /\ \A v, d : Known(v, d) => Known(v, d)'
         /\ history \subseteq history'
         /\ \E h \in history' : h.version = conn.version
         /\ conn'.version = conn.version + 1
         /\ rotator' = [rotator EXCEPT ![a] = IdleRotator]
         /\ due' = [due EXCEPT ![a] = conn.version]
         /\ conn.version \in Versions
         /\ UNCHANGED <<job, worker, lost>>
<1>1. rotator[a].version = conn.version /\ rotator[a].dek = conn.dek
  BY DEF CommitRotation, RotateCommit, IInv, RotationIsCurrent
<1>2. /\ history' = history \union {[version |-> conn.version, dek |-> conn.dek]}
      /\ conn'.version = conn.version + 1
      /\ rotator' = [rotator EXCEPT ![a] = IdleRotator]
      /\ due' = [due EXCEPT ![a] = conn.version]
      /\ UNCHANGED <<job, worker, lost>>
  BY <1>1 DEF CommitRotation, RotateCommit
<1>3. \A v, d : Known(v, d) => Known(v, d)'
  BY <1>2 DEF Known
<1>4. \E h \in history' : h.version = conn.version
  <2> DEFINE g == [version |-> conn.version, dek |-> conn.dek]
  <2>1. g \in history' /\ g.version = conn.version
    BY <1>2
  <2> QED
    BY <2>1
<1>5. conn.version \in Versions /\ history \subseteq history'
  BY <1>2 DEF IInv, TypeOK
<1> QED
  BY <1>2, <1>3, <1>4, <1>5

\* No other step changes the connection or its history, and no step but those
\* of KeyStep and Stop a rotation.
LEMMA OnlyCommitsCommit ==
  ASSUME IInv, DueOK
  PROVE  /\ KeyStep => /\ UNCHANGED <<conn, history, jobs>>
                       /\ \A a \in Rotators : due[a] # None => rotator'[a].pc = "idle"
         /\ \A a \in Rotators : Trigger(a) \/ Spawn(a) \/ TriggerFails(a) => UNCHANGED <<conn, history, rotator>>
         /\ \A v \in Versions : Work(v) => UNCHANGED <<conn, history, rotator, due>>
<1>1. ASSUME KeyStep
      PROVE  /\ UNCHANGED <<conn, history, jobs>>
             /\ \A a \in Rotators : due[a] # None => rotator'[a].pc = "idle"
  <2>1. ASSUME NEW a \in Rotators, (due[a] = None /\ RotateLoad(a)) \/ RotateKeys(a) \/ RotateFails(a)
        PROVE  /\ UNCHANGED <<conn, history>>
               /\ \A b \in Rotators : due[b] # None => rotator'[b].pc = "idle"
    BY <2>1 DEF RotateLoad, RotateKeys, RotateFails, IdleRotator, DueOK, IInv, TypeOK
  <2>2. ASSUME NEW c \in Clients, Query(c) PROVE UNCHANGED <<conn, history, rotator>>
    BY <2>2 DEF Query, Load, Unlock, LoadHistory, Abandon, WriteRow, ReadRow
  <2>3. ASSUME NEW v \in Versions, DekExpires(v) PROVE UNCHANGED <<conn, history, rotator>>
    BY <2>3 DEF DekExpires
  <2>4. ASSUME NEW x \in Rows, ResultExpires(x) PROVE UNCHANGED <<conn, history, rotator>>
    BY <2>4 DEF ResultExpires
  <2> QED
    BY <1>1, <2>1, <2>2, <2>3, <2>4 DEF KeyStep, DueOK
<1>2. ASSUME NEW a \in Rotators, Trigger(a) \/ Spawn(a) \/ TriggerFails(a)
      PROVE  UNCHANGED <<conn, history, rotator>>
  BY <1>2 DEF Trigger, Spawn, TriggerFails, vars
<1>3. ASSUME NEW v \in Versions, Work(v) PROVE UNCHANGED <<conn, history, rotator, due>>
  BY <1>3 DEF Work, Begin, LoadConnection, LoadOldKey, FetchRows, Reseal,
              Complete, Fail, FailUnrecorded, vars
<1> QED
  BY <1>1, <1>2, <1>3

\* The types of the jobs.
LEMMA JobsTypeStep ==
  IInv /\ DueOK /\ JobsTypeOK /\ [MigrationNext]_allVars => JobsTypeOK'
<1> SUFFICES ASSUME IInv, DueOK, JobsTypeOK, [MigrationNext]_allVars PROVE JobsTypeOK'
  OBVIOUS
<1> DEFINE Statuses == {"pending", "in_progress", "none", "completed", "failed"}
<1>a. /\ due \in [Rotators -> Versions \union {None}]
      /\ job \in [Versions -> Statuses]
      /\ worker \in [Versions -> Workers]
      /\ lost \subseteq Versions
  BY DEF JobsTypeOK, Unfinished
<1>b. ASSUME due' \in [Rotators -> Versions \union {None}], job' \in [Versions -> Statuses],
             worker' \in [Versions -> Workers], lost' \subseteq Versions
      PROVE  JobsTypeOK'
  BY <1>b DEF JobsTypeOK, Unfinished
<1>c. NoWorker \in Workers /\ [NoWorker EXCEPT !.pc = "queued"] \in Workers
  BY DEF NoWorker, Workers, Garbled
<1>d. ASSUME NEW v \in Versions, NEW w \in Workers
      PROVE  [worker EXCEPT ![v] = w] \in [Versions -> Workers]
  BY <1>a, <1>d
<1>e. ASSUME NEW v \in Versions, NEW status \in Statuses, Ends(v, status)
      PROVE  job' \in [Versions -> Statuses] /\ worker' \in [Versions -> Workers]
  BY <1>a, <1>c, <1>d, <1>e DEF Ends
<1>f. \A v \in Versions : worker[v] \in Workers
  BY <1>a
<1> HIDE DEF Statuses
<1>1. CASE KeyStep
  BY <1>1, <1>a, <1>b, OnlyCommitsCommit DEF jobs
<1>2. ASSUME NEW a \in Rotators, CommitRotation(a) PROVE JobsTypeOK'
  BY <1>2, <1>a, <1>b, CommitFacts
<1>3. ASSUME NEW a \in Rotators, Trigger(a) PROVE JobsTypeOK'
  BY <1>3, <1>a, <1>b DEF Trigger, Statuses
<1>4. ASSUME NEW a \in Rotators, Spawn(a) PROVE JobsTypeOK'
  <2>1. due[a] \in Versions
    BY <1>4, <1>a DEF Spawn
  <2>2. worker' \in [Versions -> Workers]
    BY <1>4, <1>c, <1>d, <2>1 DEF Spawn
  <2> QED
    BY <1>4, <1>a, <1>b, <2>2 DEF Spawn
<1>5. ASSUME NEW a \in Rotators, TriggerFails(a) PROVE JobsTypeOK'
  BY <1>5, <1>a, <1>b DEF TriggerFails
<1>6. ASSUME NEW v \in Versions, Begin(v) PROVE JobsTypeOK'
  <2>1. [worker[v] EXCEPT !.pc = "started"] \in Workers
    BY <1>f DEF Workers
  <2>2. worker' \in [Versions -> Workers]
    BY <1>6, <1>d, <2>1 DEF Begin
  <2> QED
    BY <1>6, <1>a, <1>b, <2>2 DEF Begin, Statuses
<1>7. ASSUME NEW v \in Versions, LoadConnection(v) PROVE JobsTypeOK'
  <2> DEFINE w == [pc |-> "loaded", version |-> conn.version, dek |-> conn.dek,
                   str |-> conn.str, todo |-> {}]
  <2>1. GetDek(conn.version, conn.dek) = conn.dek
    BY GetDekIsTrue DEF IInv, Known
  <2>2. w \in Workers
    BY DEF Workers, IInv, TypeOK
  <2>3. worker' = [worker EXCEPT ![v] = w]
    BY <1>7, <2>1 DEF LoadConnection
  <2>4. worker' \in [Versions -> Workers]
    BY <1>d, <2>2, <2>3
  <2> QED
    BY <1>7, <1>a, <1>b, <2>4 DEF LoadConnection
<1>8. ASSUME NEW v \in Versions, LoadOldKey(v) PROVE JobsTypeOK'
  <2>1. [worker[v] EXCEPT !.pc = "keyed"] \in Workers
    BY <1>f DEF Workers
  <2>2. worker' \in [Versions -> Workers]
    BY <1>8, <1>d, <2>1 DEF LoadOldKey
  <2> QED
    BY <1>8, <1>a, <1>b, <2>2 DEF LoadOldKey
<1>10. ASSUME NEW v \in Versions, NEW legacy \in SUBSET Rows, FetchRows(v, legacy) PROVE JobsTypeOK'
  <2> DEFINE w == [worker[v] EXCEPT !.pc = "fetched", !.todo = legacy]
  <2>1. w \in Workers
    BY <1>f DEF Workers
  <2>2. worker' = [worker EXCEPT ![v] = w]
    BY <1>10 DEF FetchRows
  <2>3. worker' \in [Versions -> Workers]
    BY <1>d, <2>1, <2>2
  <2> QED
    BY <1>10, <1>a, <1>b, <2>3 DEF FetchRows
<1>11. ASSUME NEW v \in Versions, NEW x \in Rows, Reseal(v, x) PROVE JobsTypeOK'
  <2> DEFINE w == [worker[v] EXCEPT !.todo = worker[v].todo \ {x}]
  <2>1. w \in Workers
    BY <1>f DEF Workers
  <2>2. worker' = [worker EXCEPT ![v] = w]
    BY <1>11 DEF Reseal
  <2>3. worker' \in [Versions -> Workers]
    BY <1>d, <2>1, <2>2
  <2> QED
    BY <1>11, <1>a, <1>b, <2>3 DEF Reseal
<1>12. ASSUME NEW v \in Versions, Complete(v) PROVE JobsTypeOK'
  BY <1>12, <1>a, <1>b, <1>e DEF Complete, Statuses
<1>13. ASSUME NEW v \in Versions, Fail(v) PROVE JobsTypeOK'
  BY <1>13, <1>a, <1>b, <1>e DEF Fail, Statuses
<1>14. ASSUME NEW v \in Versions, FailUnrecorded(v) PROVE JobsTypeOK'
  BY <1>14, <1>a, <1>b, <1>e DEF FailUnrecorded
<1>15. CASE Stop
  <2>1. worker' \in [Versions -> Workers] /\ due' \in [Rotators -> Versions \union {None}]
    BY <1>15, <1>c DEF Stop
  <2> QED
    BY <1>15, <1>a, <1>b, <2>1 DEF Stop
<1>16. CASE UNCHANGED allVars
  BY <1>16, <1>a, <1>b DEF allVars, jobs
<1> QED
  BY <1>1, <1>2, <1>3, <1>4, <1>5, <1>6, <1>7, <1>8, <1>10, <1>11,
     <1>12, <1>13, <1>14, <1>15, <1>16 DEF MigrationNext, Work

\* A rotation schedules the job of its own version once.
LEMMA DueStep ==
  IInv /\ JobsTypeOK /\ DueOK /\ JobsArePast /\ [MigrationNext]_allVars => DueOK'
<1> SUFFICES ASSUME IInv, JobsTypeOK, DueOK, JobsArePast, [MigrationNext]_allVars PROVE DueOK'
  OBVIOUS
<1> USE DEF JobsTypeOK, DueOK, JobsArePast, Running, NoWorker, jobs
<1>1. CASE KeyStep
  BY <1>1, OnlyCommitsCommit
<1>2. ASSUME NEW a \in Rotators, CommitRotation(a) PROVE DueOK'
  <2>1. a \in DOMAIN rotator /\ a \in DOMAIN due /\ conn.version \in Versions /\ conn.version \in Nat
    BY DEF IInv, TypeOK, Versions
  <2>2. rotator'[a].pc = "idle" /\ due'[a] = conn.version /\ conn'.version = conn.version + 1
    BY <1>2, <2>1, CommitFacts DEF IdleRotator
  <2>3. job'[conn.version] = "none" /\ worker'[conn.version].pc = "none"
    BY <1>2, <2>1, CommitFacts
  <2>4. \E h \in history' : h.version = due'[a]
    BY <1>2, <2>2, CommitFacts
  <2>5. due'[a] < conn'.version
    BY <2>1, <2>2
  <2>6. \A b \in Rotators \ {a} : due'[b] = due[b] /\ due[b] # conn.version
    <3> TAKE b \in Rotators \ {a}
    <3>1. due'[b] = due[b] /\ conn.version # None
      BY <1>2, <2>1, CommitFacts DEF Versions, None
    <3>2. due[b] # None => due[b] < conn.version
      OBVIOUS
    <3> QED
      BY <2>1, <3>1, <3>2
  <2>7. ASSUME NEW b \in Rotators, b # a, due'[b] # None
        PROVE  /\ rotator'[b].pc = "idle" /\ due'[b] < conn'.version
               /\ \E h \in history' : h.version = due'[b]
               /\ job'[due'[b]] \in {"none", "pending"} /\ worker'[due'[b]].pc = "none"
               /\ \A c \in Rotators : due'[c] = due'[b] => c = b
    <3>1. due'[b] = due[b] /\ due[b] \in Nat /\ due[b] < conn.version
      BY <2>6, <2>7 DEF Versions
    <3>2. rotator'[b] = rotator[b]
      BY <1>2, <2>1, <2>7, CommitFacts DEF IInv, TypeOK
    <3>3. \A c \in Rotators : due'[c] = due'[b] => c = b
      BY <2>2, <2>6, <2>7, <3>1
    <3>4. UNCHANGED <<job, worker>> /\ history \subseteq history'
      BY <1>2, CommitFacts
    <3> QED
      BY <2>1, <2>2, <2>7, <3>1, <3>2, <3>3, <3>4
  <2> QED
    BY <2>2, <2>3, <2>4, <2>5, <2>6, <2>7
<1>3. ASSUME NEW a \in Rotators, Trigger(a) PROVE DueOK'
  BY <1>3 DEF Trigger, vars
<1>4. ASSUME NEW a \in Rotators, Spawn(a) PROVE DueOK'
  BY <1>4 DEF Spawn, vars
<1>5. ASSUME NEW a \in Rotators, TriggerFails(a) PROVE DueOK'
  BY <1>5 DEF TriggerFails, vars
<1>6. ASSUME NEW v \in Versions, Begin(v) PROVE DueOK'
  BY <1>6 DEF Begin, vars
<1>7. ASSUME NEW v \in Versions, LoadConnection(v) PROVE DueOK'
  BY <1>7 DEF LoadConnection, vars
<1>8. ASSUME NEW v \in Versions, LoadOldKey(v) PROVE DueOK'
  BY <1>8 DEF LoadOldKey, vars
<1>10. ASSUME NEW v \in Versions, NEW legacy \in SUBSET Rows, FetchRows(v, legacy) PROVE DueOK'
  BY <1>10 DEF FetchRows, vars
<1>11. ASSUME NEW v \in Versions, NEW x \in Rows, Reseal(v, x) PROVE DueOK'
  BY <1>11 DEF Reseal, vars
<1>12. ASSUME NEW v \in Versions, Complete(v) PROVE DueOK'
  BY <1>12 DEF Complete, vars, Ends
<1>13. ASSUME NEW v \in Versions, Fail(v) PROVE DueOK'
  BY <1>13 DEF Fail, vars, Ends
<1>14. ASSUME NEW v \in Versions, FailUnrecorded(v) PROVE DueOK'
  BY <1>14 DEF FailUnrecorded, vars, Ends
<1>15. CASE Stop
  BY <1>15 DEF Stop, Crash, IdleRotator, None
<1>16. CASE UNCHANGED allVars
  BY <1>16 DEF allVars, vars
<1> QED
  BY <1>1, <1>2, <1>3, <1>4, <1>5, <1>6, <1>7, <1>8, <1>10, <1>11,
     <1>12, <1>13, <1>14, <1>15, <1>16 DEF MigrationNext, Work

\* Jobs belong to versions that are past.
LEMMA PastStep ==
  IInv /\ JobsTypeOK /\ DueOK /\ JobsArePast /\ [MigrationNext]_allVars => JobsArePast'
<1> SUFFICES ASSUME IInv, JobsTypeOK, DueOK, JobsArePast, [MigrationNext]_allVars PROVE JobsArePast'
  OBVIOUS
<1> USE DEF JobsTypeOK, DueOK, JobsArePast, Running, NoWorker, jobs
<1>1. CASE KeyStep
  BY <1>1, OnlyCommitsCommit
<1>2. ASSUME NEW a \in Rotators, CommitRotation(a) PROVE JobsArePast'
  <2>1. conn'.version = conn.version + 1 /\ UNCHANGED <<job, worker>>
    BY <1>2, CommitFacts
  <2> QED
    BY <2>1 DEF IInv, TypeOK, Versions
<1>3. ASSUME NEW a \in Rotators, Trigger(a) PROVE JobsArePast'
  <2>1. due[a] < conn.version /\ due[a] \in Versions
    BY <1>3 DEF Trigger
  <2>2. \A v \in Versions : v >= conn.version => v # due[a]
    BY <2>1 DEF IInv, TypeOK, Versions
  <2> QED
    BY <1>3, <2>2 DEF Trigger, vars
<1>4. ASSUME NEW a \in Rotators, Spawn(a) PROVE JobsArePast'
  BY <1>4 DEF Spawn, vars
<1>5. ASSUME NEW a \in Rotators, TriggerFails(a) PROVE JobsArePast'
  BY <1>5 DEF TriggerFails, vars
<1>6. ASSUME NEW v \in Versions, Begin(v) PROVE JobsArePast'
  BY <1>6 DEF Begin, vars
<1>7. ASSUME NEW v \in Versions, LoadConnection(v) PROVE JobsArePast'
  BY <1>7 DEF LoadConnection, vars
<1>8. ASSUME NEW v \in Versions, LoadOldKey(v) PROVE JobsArePast'
  BY <1>8 DEF LoadOldKey, vars
<1>10. ASSUME NEW v \in Versions, NEW legacy \in SUBSET Rows, FetchRows(v, legacy) PROVE JobsArePast'
  BY <1>10 DEF FetchRows, vars
<1>11. ASSUME NEW v \in Versions, NEW x \in Rows, Reseal(v, x) PROVE JobsArePast'
  BY <1>11 DEF Reseal, vars
<1>12. ASSUME NEW v \in Versions, Complete(v) PROVE JobsArePast'
  BY <1>12 DEF Complete, vars, Ends
<1>13. ASSUME NEW v \in Versions, Fail(v) PROVE JobsArePast'
  BY <1>13 DEF Fail, vars, Ends
<1>14. ASSUME NEW v \in Versions, FailUnrecorded(v) PROVE JobsArePast'
  BY <1>14 DEF FailUnrecorded, vars, Ends
<1>15. CASE Stop
  BY <1>15 DEF Stop, Crash, IdleRotator
<1>16. CASE UNCHANGED allVars
  BY <1>16 DEF allVars, vars
<1> QED
  BY <1>1, <1>2, <1>3, <1>4, <1>5, <1>6, <1>7, <1>8, <1>10, <1>11,
     <1>12, <1>13, <1>14, <1>15, <1>16 DEF MigrationNext, Work

\* Workers keep the keys they loaded, and the database keeps knowing them.
LEMMA WorkersStep ==
  IInv /\ JobsTypeOK /\ DueOK /\ WorkersAreSound /\ [MigrationNext]_allVars => WorkersAreSound'
<1> SUFFICES ASSUME IInv, JobsTypeOK, DueOK, WorkersAreSound, [MigrationNext]_allVars PROVE WorkersAreSound'
  OBVIOUS
<1> USE DEF JobsTypeOK, WorkersAreSound, Running, NoWorker, jobs
<1>1. CASE KeyStep
  BY <1>1, OnlyCommitsCommit, SameHistory
<1>2. ASSUME NEW a \in Rotators, CommitRotation(a) PROVE WorkersAreSound'
  BY <1>2, CommitFacts
<1>3. ASSUME NEW a \in Rotators, Trigger(a) PROVE WorkersAreSound'
  BY <1>3, SameHistory DEF Trigger, vars
<1>4. ASSUME NEW a \in Rotators, Spawn(a) PROVE WorkersAreSound'
  <2>1. /\ due[a] \in Versions
        /\ \E h \in history : h.version = due[a]
        /\ UNCHANGED <<conn, history>>
    BY <1>4 DEF Spawn, vars, DueOK
  <2>2. worker'[due[a]].pc = "queued"
    BY <1>4, <2>1 DEF Spawn
  <2>3. \A v \in Versions : v # due[a] => worker'[v] = worker[v]
    BY <1>4, <2>1 DEF Spawn
  <2> QED
    BY <2>1, <2>2, <2>3, SameHistory
<1>5. ASSUME NEW a \in Rotators, TriggerFails(a) PROVE WorkersAreSound'
  BY <1>5, SameHistory DEF TriggerFails, vars
<1>6. ASSUME NEW v \in Versions, Begin(v) PROVE WorkersAreSound'
  BY <1>6, SameHistory DEF Begin, vars
<1>7. ASSUME NEW v \in Versions, LoadConnection(v) PROVE WorkersAreSound'
  <2>1. Known(conn.version, conn.dek) /\ conn.str = conn.dek
    BY DEF Known, IInv
  <2>2. GetDek(conn.version, conn.dek) = conn.dek
    BY <2>1, GetDekIsTrue DEF IInv
  <2>3. /\ worker'[v] = [pc |-> "loaded", version |-> conn.version, dek |-> conn.dek,
                          str |-> conn.str, todo |-> {}]
        /\ \A w \in Versions : w # v => worker'[w] = worker[w]
    BY <1>7, <2>2 DEF LoadConnection
  <2>4. UNCHANGED <<conn, history>> /\ \E h \in history : h.version = v
    BY <1>7 DEF LoadConnection
  <2>5. Known(conn.version, conn.dek)'
    BY <2>1, <2>4, SameHistory
  <2> QED
    BY <2>1, <2>3, <2>4, <2>5, SameHistory
<1>8. ASSUME NEW v \in Versions, LoadOldKey(v) PROVE WorkersAreSound'
  BY <1>8, SameHistory DEF LoadOldKey, vars
<1>10. ASSUME NEW v \in Versions, NEW legacy \in SUBSET Rows, FetchRows(v, legacy) PROVE WorkersAreSound'
  BY <1>10, SameHistory DEF FetchRows, vars
<1>11. ASSUME NEW v \in Versions, NEW x \in Rows, Reseal(v, x) PROVE WorkersAreSound'
  BY <1>11, SameHistory DEF Reseal, vars
<1>12. ASSUME NEW v \in Versions, Complete(v) PROVE WorkersAreSound'
  BY <1>12, SameHistory DEF Complete, vars, Ends
<1>13. ASSUME NEW v \in Versions, Fail(v) PROVE WorkersAreSound'
  BY <1>13, SameHistory DEF Fail, vars, Ends
<1>14. ASSUME NEW v \in Versions, FailUnrecorded(v) PROVE WorkersAreSound'
  BY <1>14, SameHistory DEF FailUnrecorded, vars, Ends
<1>15. CASE Stop
  BY <1>15 DEF Stop, Crash, IdleRotator
<1>16. CASE UNCHANGED allVars
  BY <1>16, SameHistory DEF allVars, vars
<1> QED
  BY <1>1, <1>2, <1>3, <1>4, <1>5, <1>6, <1>7, <1>8, <1>10, <1>11,
     <1>12, <1>13, <1>14, <1>15, <1>16 DEF MigrationNext, Work

\* A job that is given up is finished or lost.
LEMMA UnfinishedStep ==
  IInv /\ JobsTypeOK /\ DueOK /\ UnfinishedJobsHaveWorkers /\ [MigrationNext]_allVars => UnfinishedJobsHaveWorkers'
<1> SUFFICES ASSUME IInv, JobsTypeOK, DueOK, UnfinishedJobsHaveWorkers, [MigrationNext]_allVars PROVE UnfinishedJobsHaveWorkers'
  OBVIOUS
<1> USE DEF JobsTypeOK, UnfinishedJobsHaveWorkers, Unfinished, Running, NoWorker, DueOK, jobs
<1>1. CASE KeyStep
  BY <1>1, OnlyCommitsCommit
<1>2. ASSUME NEW a \in Rotators, CommitRotation(a) PROVE UnfinishedJobsHaveWorkers'
  <2>1. due[a] = None
    BY <1>2 DEF CommitRotation, RotateCommit
  <2>2. UNCHANGED <<job, worker, lost>> /\ \A b \in Rotators : b # a => due'[b] = due[b]
    BY <1>2, CommitFacts
  <2>3. \A v \in Versions : v # None
    BY DEF Versions, None
  <2> QED
    BY <2>1, <2>2, <2>3
<1>3. ASSUME NEW a \in Rotators, Trigger(a) PROVE UnfinishedJobsHaveWorkers'
  BY <1>3 DEF Trigger, vars
<1>4. ASSUME NEW a \in Rotators, Spawn(a) PROVE UnfinishedJobsHaveWorkers'
  BY <1>4 DEF Spawn, vars
<1>5. ASSUME NEW a \in Rotators, TriggerFails(a) PROVE UnfinishedJobsHaveWorkers'
  BY <1>5 DEF TriggerFails, vars
<1>6. ASSUME NEW v \in Versions, Begin(v) PROVE UnfinishedJobsHaveWorkers'
  BY <1>6 DEF Begin, vars
<1>7. ASSUME NEW v \in Versions, LoadConnection(v) PROVE UnfinishedJobsHaveWorkers'
  BY <1>7 DEF LoadConnection, vars
<1>8. ASSUME NEW v \in Versions, LoadOldKey(v) PROVE UnfinishedJobsHaveWorkers'
  BY <1>8 DEF LoadOldKey, vars
<1>10. ASSUME NEW v \in Versions, NEW legacy \in SUBSET Rows, FetchRows(v, legacy) PROVE UnfinishedJobsHaveWorkers'
  BY <1>10 DEF FetchRows, vars
<1>11. ASSUME NEW v \in Versions, NEW x \in Rows, Reseal(v, x) PROVE UnfinishedJobsHaveWorkers'
  BY <1>11 DEF Reseal, vars
<1>12. ASSUME NEW v \in Versions, Complete(v) PROVE UnfinishedJobsHaveWorkers'
  BY <1>12 DEF Complete, vars, Ends
<1>13. ASSUME NEW v \in Versions, Fail(v) PROVE UnfinishedJobsHaveWorkers'
  BY <1>13 DEF Fail, vars, Ends
<1>14. ASSUME NEW v \in Versions, FailUnrecorded(v) PROVE UnfinishedJobsHaveWorkers'
  BY <1>14 DEF FailUnrecorded, vars, Ends
<1>15. CASE Stop
  BY <1>15 DEF Stop, Crash, IdleRotator
<1>16. CASE UNCHANGED allVars
  BY <1>16 DEF allVars, vars
<1> QED
  BY <1>1, <1>2, <1>3, <1>4, <1>5, <1>6, <1>7, <1>8, <1>10, <1>11,
     <1>12, <1>13, <1>14, <1>15, <1>16 DEF MigrationNext, Work

-----------------------------------------------------------------------------
(* Theorems *)

LEMMA MInvInit == MigrationInit => MInv
<1> SUFFICES ASSUME MigrationInit PROVE MInv
  OBVIOUS
<1>1. IInv
  BY InitIInv DEF MigrationInit
<1>2. JobsTypeOK
  BY DEF MigrationInit, JobsTypeOK, Workers, NoWorker, Unfinished, Garbled
<1>3. KeysAreFresh
  BY DEF MigrationInit, Init, KeysAreFresh, IdleRotator
<1> QED
  BY <1>1, <1>2, <1>3 DEF MigrationInit, MInv, DueOK, JobsArePast, WorkersAreSound,
                    UnfinishedJobsHaveWorkers, Unfinished, Running, NoWorker

LEMMA MInvHolds ==
  MigrationSpec /\ []NoOverlap => []MInv
<1>1. NoOverlap /\ MInv /\ [MigrationNext]_allVars => MInv'
  BY KeysStep, FreshStep, JobsTypeStep, DueStep, PastStep, WorkersStep, UnfinishedStep DEF MInv
<1> QED
  BY <1>1, MInvInit, PTL DEF MigrationSpec

\* What a worker seals and caches keeps the types of keys, rows and queries.
THEOREM KeysKeepTheirTypes ==
  MigrationSpec /\ []NoOverlap => []TypeOK
<1>1. MInv => TypeOK
  BY DEF MInv, IInv
<1> QED
  BY <1>1, MInvHolds, PTL

\* Every value of the external database stays readable, whatever the workers
\* seal, and however late they do it.
THEOREM RowsStayRecoverable ==
  MigrationSpec /\ []NoOverlap => []RowsRecoverable
<1>1. MInv => RowsRecoverable
  BY DEF MInv, IInv
<1> QED
  BY <1>1, MInvHolds, PTL

\* A job is left unfinished only when its task or its record was lost.
THEOREM JobsAreWorkedOn ==
  MigrationSpec /\ []NoOverlap => []UnfinishedJobsHaveWorkers
<1>1. MInv => UnfinishedJobsHaveWorkers
  BY DEF MInv
<1> QED
  BY <1>1, MInvHolds, PTL

\* The queries of a connection that is rotated and migrated still open it, and a
\* worker that waits behind further rotations still gets both of its keys.
THEOREM KeyHoldersAlwaysWork ==
  MigrationSpec /\ []NoOverlap => []KeyHoldersWork
<1>1. MInv => ConnectionsOpen
  BY GetDekIsTrue DEF MInv, IInv, QueryIsSound, ConnectionsOpen
<1>2. MInv => WorkersHoldTheirKeys
  BY DEF MInv, WorkersAreSound, WorkersHoldTheirKeys
<1> QED
  BY <1>1, <1>2, MInvHolds, PTL DEF KeyHoldersWork

\* A SELECT still meets a value it cannot open only if the value is newer than
\* its keys, though workers seal values as well.
THEOREM OvertakenOnlyByNewer ==
  MigrationSpec /\ []NoOverlap => OnlyOvertakenReadsStaySealed
<1>1. IInv =>
        [\A c \in Clients, x \in Rows :
            ReadRow(c, x) /\ ~Opens(c, x) => rows[x].version > client[c].version]_vars
  BY SealedReadIsOvertaken
<1> QED
  BY <1>1, MInvHolds, PTL DEF MInv, OnlyOvertakenReadsStaySealed

-----------------------------------------------------------------------------
(* The implementation of KeyStore *)

LEMMA StoreInit == MigrationInit => Store!Init
BY DEF MigrationInit, Init, Store!Init, Store!None, Plain, None

\* A commit is the rotation of the store: the string has been rewrapped with the
\* new DEK, which is the DEK of no other version.
LEMMA CommitIsRotate ==
  ASSUME MInv, NEW a \in Rotators, RotateCommit(a)
  PROVE  \E d \in Deks : Store!Rotate(d)
<1> DEFINE new == rotator[a].new
<1>1. /\ rotator[a].pc = "rewrapped" /\ new \in Deks
      /\ rotator[a].version = conn.version /\ rotator[a].dek = conn.dek
      /\ rotator[a].str = new
  BY DEF RotateCommit, MInv, IInv, RotationIsCurrent, TypeOK, Rotations, IdleRotator
<1>2. /\ conn' = [version |-> conn.version + 1, dek |-> new, str |-> new]
      /\ history' = history \union {[version |-> conn.version, dek |-> conn.dek]}
      /\ rows' = rows
  BY <1>1 DEF RotateCommit
<1>3. \A k \in history \union {[version |-> conn.version, dek |-> conn.dek]} : k.dek # new
  BY <1>1 DEF MInv, KeysAreFresh, IInv, TypeOK, Deks, Keys
<1>4. Store!Rotate(new)
  BY <1>2, <1>3 DEF Store!Rotate
<1> QED
  BY <1>1, <1>4

\* Whoever seals a value holds a key that the database knows.
LEMMA WriteIsSeal ==
  ASSUME MInv, NEW x \in Rows, NEW v, NEW d, Known(v, d),
         rows' = [rows EXCEPT ![x] = [key |-> d, version |-> v]],
         UNCHANGED <<conn, history>>
  PROVE  \E y \in Rows : \E k \in history \union {[version |-> conn.version, dek |-> conn.dek]} :
            Store!Seal(y, k)
<1> DEFINE k == [version |-> v, dek |-> d]
<1>1. k \in history \union {[version |-> conn.version, dek |-> conn.dek]}
  BY DEF Known
<1>2. [y \in Rows |-> [version |-> rows'[y].version, dek |-> rows'[y].key]]
        = [[y \in Rows |-> [version |-> rows[y].version, dek |-> rows[y].key]] EXCEPT ![x] = k]
  BY DEF MInv, IInv, TypeOK
<1>3. Store!Seal(x, k)
  BY <1>2 DEF Store!Seal
<1> QED
  BY <1>1, <1>3

LEMMA StoreStep == MInv /\ [MigrationNext]_allVars => [Store!Next]_(Store!vars)
<1> SUFFICES ASSUME MInv, [MigrationNext]_allVars PROVE [Store!Next]_(Store!vars)
  OBVIOUS
<1>1. ASSUME UNCHANGED <<conn, history, rows>> PROVE UNCHANGED Store!vars
  BY <1>1 DEF Store!vars
<1>2. ASSUME NEW a \in Rotators, CommitRotation(a) PROVE Store!Next
  BY <1>2, CommitIsRotate DEF CommitRotation, Store!Next
<1>3. ASSUME NEW c \in Clients, NEW x \in Rows, WriteRow(c, x) PROVE Store!Next
  <2>1. Known(client[c].version, client[c].dek)
    BY <1>3 DEF WriteRow, MInv, IInv, QueryIsSound
  <2> QED
    BY <1>3, <2>1, WriteIsSeal DEF WriteRow, Store!Next
<1>4. ASSUME NEW v \in Versions, NEW x \in Rows, Reseal(v, x) PROVE Store!Next
  <2>1. Known(worker[v].version, worker[v].dek)
    BY <1>4 DEF Reseal, MInv, WorkersAreSound
  <2> QED
    BY <1>4, <2>1, WriteIsSeal DEF Reseal, Store!Next
<1>5. CASE KeyStep
  BY <1>5, <1>1, <1>3
     DEF KeyStep, RotateLoad, RotateKeys, RotateFails, Query, Load, Unlock, LoadHistory,
         Abandon, ReadRow, DekExpires, ResultExpires
<1>6. ASSUME NEW v \in Versions, Work(v) PROVE [Store!Next]_(Store!vars)
  BY <1>6, <1>1, <1>4
     DEF Work, Begin, LoadConnection, LoadOldKey, FetchRows, Complete, Fail, FailUnrecorded, vars
<1> QED
  BY <1>1, <1>2, <1>5, <1>6
     DEF MigrationNext, Trigger, Spawn, TriggerFails, Stop, Crash, allVars, vars

\* Behind caches, failed rotations, crashes and keys held in memory, the database
\* behaves as KeyStore: no key in force is ever lost, a rotation takes effect as a
\* whole, and every value is sealed with a key that stays known.
THEOREM KeysAreNeverLost == MigrationSpec /\ []NoOverlap => KeysAreKept
<1>1. MInv /\ [MigrationNext]_allVars => [Store!Next]_(Store!vars)
  BY StoreStep
<1> QED
  BY <1>1, StoreInit, MInvHolds, PTL DEF MigrationSpec, KeysAreKept, Store!Spec
=============================================================================
