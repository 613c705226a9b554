-------------------------- MODULE QueryCacheProofs --------------------------
(***************************************************************************)
(* The theorems about QueryCache, for any keys, tables, readers, number of *)
(* writes and TTL.                                                         *)
(***************************************************************************)
EXTENDS QueryCache, TLAPS

\* The local variables a SELECT in flight may hold, and what each of them is.
LEMMA FillTypes ==
  /\ IdleReader \in Fills
  /\ \A pc \in {"query", "store", "tag"}, k \in Keys, n \in 0..MaxWrites, left \in SUBSET Tables :
        Filling(pc, k, n, left, None) \in Fills
  /\ \A k \in Keys, left \in SUBSET Tables, t \in Tables :
        Filling("expire", k, 0, left, t) \in Fills
  /\ \A f \in Fills :
        /\ f.pc # "idle" => f.key \in Keys /\ f.left \in SUBSET Tables /\ f.readAt \in 0..MaxWrites
        /\ f.pc = "expire" => f.table \in Tables
BY CacheConstants DEF Fills, Filling, IdleReader

\* The same for the task that invalidates the tables of a write.
LEMMA SweepTypes ==
  /\ NoSweep \in Sweeps
  /\ \A left \in SUBSET Tables : Sweeping("scan", left, None, {}) \in Sweeps
  /\ \A pc \in {"delete", "untag"}, left \in SUBSET Tables, t \in Tables, batch \in SUBSET Keys :
        Sweeping(pc, left, t, batch) \in Sweeps
  /\ \A s \in Sweeps :
        /\ s.left \in SUBSET Tables /\ s.batch \in SUBSET Keys
        /\ s.pc \in {"delete", "untag"} => s.table \in Tables
BY DEF Sweeps, Sweeping, NoSweep

\* The same for the cleanup of a tag set.
LEMMA CleanupTypes ==
  /\ NoCleanup \in Cleanups
  /\ \A pc \in {"scan", "exists"}, batch \in SUBSET Keys : Cleaning(pc, batch, None) \in Cleanups
  /\ \A batch \in SUBSET Keys, k \in Keys : Cleaning("remove", batch, k) \in Cleanups
  /\ \A c \in Cleanups : c.batch \in SUBSET Keys /\ (c.pc = "remove" => c.key \in Keys)
BY DEF Cleanups, Cleaning, NoCleanup

\* Every variable keeps its type, whatever the interleaving of fills, sweeps,
\* purges, cleanups, expiry and crashes.
THEOREM TypeCorrect == Spec => []TypeOK
<1> DEFINE Entries == [ttl : 0..TTL, readAt : 0..MaxWrites, setAt : 0..MaxWrites]
<1>a. Absent \in Entries
  BY CacheConstants DEF Absent
<1>b. Purging("scan", {}) = [pc |-> "scan", batch |-> {}] /\ NoPurge = [pc |-> "none", batch |-> {}]
  BY DEF Purging, NoPurge
<1>c. 0 \in 0..(2 * TTL) /\ \A n \in 0..(2 * TTL) : Older(n) \in 0..(2 * TTL)
  BY CacheConstants DEF Older
<1>1. Init => TypeOK
  BY <1>a, <1>b, CacheConstants, FillTypes, SweepTypes, CleanupTypes DEF Init, TypeOK, Writes
<1>2. TypeOK /\ [Next]_vars => TypeOK'
  <2> SUFFICES ASSUME TypeOK, [Next]_vars PROVE TypeOK'
    OBVIOUS
  <2> USE CacheConstants DEF TypeOK, database, tags, tasks, Live
  <2>1. ASSUME NEW r \in Readers, NEW k \in Keys, Miss(r, k) PROVE TypeOK'
    BY <2>1, FillTypes DEF Miss
  <2>2. ASSUME NEW r \in Readers, ReadRows(r) PROVE TypeOK'
    BY <2>2, FillTypes DEF ReadRows
  <2>3. ASSUME NEW r \in Readers, GiveUp(r) PROVE TypeOK'
    BY <2>3, FillTypes DEF GiveUp
  <2>4. ASSUME NEW r \in Readers, Store(r) PROVE TypeOK'
    <3>1. /\ reader[r].key \in Keys /\ reader[r].readAt \in 0..MaxWrites
          /\ TablesOf[reader[r].key] \in SUBSET Tables
      BY <2>4, FillTypes DEF Store
    <3>2. reader' \in [Readers -> Fills]
      <4>1. Filling("tag", reader[r].key, 0, TablesOf[reader[r].key], None) \in Fills
        BY <3>1, FillTypes
      <4>2. IdleReader \in Fills
        BY FillTypes
      <4> QED
        BY <2>4, <4>1, <4>2 DEF Store
    <3>3. entry' \in [Keys -> Entries]
      BY <2>4, <3>1 DEF Store
    <3> QED
      BY <2>4, <3>2, <3>3 DEF Store
  <2>5. ASSUME NEW r \in Readers, NEW t \in Tables, AddTag(r, t) PROVE TypeOK'
    <3>1. reader[r].key \in Keys /\ reader[r].left \in SUBSET Tables
      BY <2>5, FillTypes DEF AddTag
    <3>2. reader' \in [Readers -> Fills]
      BY <2>5, <3>1, FillTypes DEF AddTag
    <3>3. tag' \in [Tables -> SUBSET Keys]
      BY <2>5, <3>1 DEF AddTag
    <3> QED
      BY <2>5, <3>2, <3>3 DEF AddTag
  <2>6. ASSUME NEW r \in Readers, ExpireTag(r) PROVE TypeOK'
    <3>1. /\ reader[r].key \in Keys /\ reader[r].left \in SUBSET Tables
          /\ reader[r].table \in Tables
      BY <2>6, FillTypes DEF ExpireTag
    <3>2. reader' \in [Readers -> Fills]
      BY <2>6, <3>1, FillTypes DEF ExpireTag, NextTable
    <3>3. tagTTL' \in [Tables -> 0..(2 * TTL)]
      BY <2>6, <3>1 DEF ExpireTag
    <3>4. cleanup' \in [Tables -> Cleanups]
      BY <2>6, <3>1, CleanupTypes DEF ExpireTag
    <3> QED
      BY <2>6, <3>2, <3>3, <3>4 DEF ExpireTag
  <2>7. ASSUME NEW T \in WriteSets, Commit(T) PROVE TypeOK'
    BY <2>7 DEF Commit, Writes
  <2>8. ASSUME NEW n \in Writes, Answered(n) PROVE TypeOK'
    BY <2>8, <1>b, SweepTypes DEF Answered
  <2>9. ASSUME NEW n \in Writes, Unswept(n) PROVE TypeOK'
    BY <2>9 DEF Unswept
  <2>a. ASSUME NEW n \in Writes, NextSweep(n) PROVE sweep' \in [Writes -> Sweeps]
    BY <2>a, SweepTypes DEF NextSweep
  <2>b. ASSUME NEW ks \in SUBSET Keys, DeleteEntries(ks) PROVE entry' \in [Keys -> Entries]
    BY <2>b, <1>a DEF DeleteEntries
  <2>10. ASSUME NEW n \in Writes, NEW t \in Tables, SweepScan(n, t) PROVE TypeOK'
    BY <2>10, SweepTypes DEF SweepScan
  <2>11. ASSUME NEW n \in Writes, SweepDelete(n) PROVE TypeOK'
    <3>1. /\ sweep[n].left \in SUBSET Tables /\ sweep[n].batch \in SUBSET Keys
          /\ sweep[n].table \in Tables
      BY <2>11, SweepTypes DEF SweepDelete
    <3>2. sweep' \in [Writes -> Sweeps]
      BY <2>11, <3>1, SweepTypes DEF SweepDelete
    <3>3. entry' \in [Keys -> Entries]
      BY <2>11, <2>b, <3>1 DEF SweepDelete
    <3> QED
      BY <2>11, <3>2, <3>3 DEF SweepDelete
  <2>12. ASSUME NEW n \in Writes, SweepUntag(n) PROVE TypeOK'
    <3>1. sweep' \in [Writes -> Sweeps]
      BY <2>12, <2>a DEF SweepUntag
    <3>2. tag' \in [Tables -> SUBSET Keys]
      BY <2>12 DEF SweepUntag
    <3>3. tagTTL' \in [Tables -> 0..(2 * TTL)]
      BY <2>12, <1>c DEF SweepUntag
    <3> QED
      BY <2>12, <3>1, <3>2, <3>3 DEF SweepUntag
  <2>13. ASSUME NEW n \in Writes, SweepFails(n) PROVE TypeOK'
    <3>1. sweep' \in [Writes -> Sweeps]
      BY <2>13, <2>a DEF SweepFails
    <3> QED
      BY <2>13, <3>1 DEF SweepFails
  <2>14. ASSUME NEW n \in Writes, PurgeScan(n) PROVE TypeOK'
    BY <2>14 DEF PurgeScan, Purging
  <2>15. ASSUME NEW n \in Writes, PurgeDelete(n) PROVE TypeOK'
    <3>1. entry' \in [Keys -> Entries]
      BY <2>15, <2>b DEF PurgeDelete
    <3> QED
      BY <2>15, <1>b, <3>1 DEF PurgeDelete
  <2>16. ASSUME NEW n \in Writes, PurgeFails(n) PROVE TypeOK'
    BY <2>16, <1>b DEF PurgeFails
  <2>17. ASSUME NEW t \in Tables, CleanupScan(t) PROVE TypeOK'
    BY <2>17, CleanupTypes DEF CleanupScan
  <2>18. ASSUME NEW t \in Tables, NEW k \in Keys, CleanupExists(t, k) PROVE TypeOK'
    BY <2>18, CleanupTypes DEF CleanupExists
  <2>19. ASSUME NEW t \in Tables, CleanupRemove(t) PROVE TypeOK'
    <3>1. cleanup' \in [Tables -> Cleanups]
      BY <2>19, CleanupTypes DEF CleanupRemove
    <3>2. tag' \in [Tables -> SUBSET Keys] /\ tagTTL' \in [Tables -> 0..(2 * TTL)]
      BY <2>19 DEF CleanupRemove
    <3> QED
      BY <2>19, <3>1, <3>2 DEF CleanupRemove
  <2>20. ASSUME Tick PROVE TypeOK'
    <3>1. entry' \in [Keys -> Entries]
      <4> SUFFICES ASSUME NEW k \in Keys PROVE entry'[k] \in Entries
        BY <2>20 DEF Tick
      <4>1. CASE entry[k].ttl <= 1
        BY <2>20, <4>1, <1>a DEF Tick
      <4>2. CASE entry[k].ttl > 1
        <5>1. entry'[k] = [entry[k] EXCEPT !.ttl = entry[k].ttl - 1]
          BY <2>20, <4>2 DEF Tick
        <5>2. entry[k].ttl - 1 \in 0..TTL
          BY <4>2
        <5> QED
          BY <5>1, <5>2
      <4> QED
        BY <4>1, <4>2
    <3>2. tag' \in [Tables -> SUBSET Keys]
      BY <2>20 DEF Tick
    <3>3. tagTTL' \in [Tables -> 0..(2 * TTL)]
      BY <2>20, <1>c DEF Tick
    <3> QED
      BY <2>20, <3>1, <3>2, <3>3 DEF Tick
  <2>21. ASSUME Crash PROVE TypeOK'
    BY <2>21, <1>b, FillTypes, SweepTypes, CleanupTypes DEF Crash
  <2>22. CASE UNCHANGED vars
    BY <2>22 DEF vars
  <2> QED
    BY <2>1, <2>2, <2>3, <2>4, <2>5, <2>6, <2>7, <2>8, <2>9, <2>10, <2>11, <2>12,
       <2>13, <2>14, <2>15, <2>16, <2>17, <2>18, <2>19, <2>20, <2>21, <2>22
       DEF Next, ReaderStep, WriteStep, SweepStep, PurgeStep, CleanupStep
<1> QED
  BY <1>1, <1>2, PTL DEF Spec

\* A purge that was started for write n, or will be, deletes every entry stored
\* before write n committed: the invariant is inductive once the types are known.
LEMMA PastStepsKeep ==
  ASSUME TypeOK, EntriesOfThePastAreGone, [Next]_vars
  PROVE  EntriesOfThePastAreGone'
<1> USE CacheConstants DEF database, tags, tasks, EntriesOfThePastAreGone, PurgeAhead, Live
\* A step that leaves the writes and their purges alone, and changes entries only
\* by dropping them or by aging them.
<1>a. ASSUME UNCHANGED <<commits, stage, purge>>,
             \A k \in Keys : entry'[k].ttl > 0 => entry[k].ttl > 0 /\ entry'[k].setAt = entry[k].setAt
      PROVE  EntriesOfThePastAreGone'
  BY <1>a
\* A step that leaves the entries alone, and of the writes at most gives one up.
<1>b. ASSUME UNCHANGED <<commits, entry>>,
             \A n \in Writes :
                \/ stage'[n] = "unswept"
                \/ stage'[n] = stage[n] /\ (purge'[n] = purge[n] \/ purge[n].pc = "none")
      PROVE  EntriesOfThePastAreGone'
  <2> SUFFICES ASSUME NEW k \in Live, NEW n \in 1..commits, n > entry[k].setAt
               PROVE  stage'[n] \in {"committed", "unswept"} \/ PurgeAhead(n, k)'
    BY <1>b
  <2>1. n \in Writes
    BY DEF TypeOK, Writes
  <2>2. stage[n] \in {"committed", "unswept"} \/ PurgeAhead(n, k)
    OBVIOUS
  <2> QED
    BY <1>b, <2>1, <2>2
<1>1. ASSUME NEW r \in Readers, Store(r) PROVE EntriesOfThePastAreGone'
  BY <1>1 DEF Store, TypeOK, Fills
<1>2. ASSUME NEW T \in WriteSets, Commit(T) PROVE EntriesOfThePastAreGone'
  BY <1>2 DEF Commit, TypeOK, Writes
<1>3. ASSUME NEW n \in Writes, Answered(n) PROVE EntriesOfThePastAreGone'
  BY <1>3 DEF Answered, TypeOK, Writes, Purging
<1>4. ASSUME NEW n \in Writes, Unswept(n) PROVE EntriesOfThePastAreGone'
  <2>1. stage'[n] = "unswept"
    BY <1>4 DEF Unswept, TypeOK
  <2>2. \A m \in Writes \ {n} : stage'[m] = stage[m] /\ purge'[m] = purge[m]
    BY <1>4 DEF Unswept, TypeOK
  <2> QED
    BY <1>4, <1>b, <2>1, <2>2 DEF Unswept
<1>5. ASSUME NEW n \in Writes, SweepDelete(n) PROVE EntriesOfThePastAreGone'
  BY <1>5, <1>a DEF SweepDelete, DeleteEntries, Absent
<1>6. ASSUME NEW n \in Writes, SweepFails(n) PROVE EntriesOfThePastAreGone'
  <2>1. stage'[n] = "unswept"
    BY <1>6 DEF SweepFails, TypeOK
  <2>2. \A m \in Writes \ {n} : stage'[m] = stage[m] /\ purge'[m] = purge[m]
    BY <1>6 DEF SweepFails, TypeOK
  <2> QED
    BY <1>6, <1>b, <2>1, <2>2 DEF SweepFails
<1>7. ASSUME NEW n \in Writes, PurgeScan(n) PROVE EntriesOfThePastAreGone'
  BY <1>7 DEF PurgeScan, TypeOK, Writes, Purging
<1>8. ASSUME NEW n \in Writes, PurgeDelete(n) PROVE EntriesOfThePastAreGone'
  BY <1>8 DEF PurgeDelete, DeleteEntries, Absent, TypeOK, Writes, NoPurge, Purging
<1>9. ASSUME NEW n \in Writes, PurgeFails(n) PROVE EntriesOfThePastAreGone'
  <2>1. stage'[n] = "unswept"
    BY <1>9 DEF PurgeFails, TypeOK
  <2>2. \A m \in Writes \ {n} : stage'[m] = stage[m] /\ purge'[m] = purge[m]
    BY <1>9 DEF PurgeFails, TypeOK
  <2> QED
    BY <1>9, <1>b, <2>1, <2>2 DEF PurgeFails
<1>10. ASSUME Tick PROVE EntriesOfThePastAreGone'
  <2>1. \A k \in Keys : entry'[k].ttl > 0 => entry[k].ttl > 0 /\ entry'[k].setAt = entry[k].setAt
    <3> TAKE k \in Keys
    <3>1. CASE entry[k].ttl <= 1
      BY <1>10, <3>1 DEF Tick, Absent, TypeOK
    <3>2. CASE entry[k].ttl > 1
      BY <1>10, <3>2 DEF Tick, TypeOK
    <3> QED
      BY <3>1, <3>2 DEF TypeOK
  <2> QED
    BY <1>10, <1>a, <2>1 DEF Tick
<1>11. ASSUME Crash PROVE EntriesOfThePastAreGone'
  <2>1. \A n \in Writes : stage'[n] = "unswept" \/ (stage'[n] = stage[n] /\ purge[n].pc = "none")
    BY <1>11 DEF Crash
  <2> QED
    BY <1>11, <1>b, <2>1 DEF Crash
<1>12. ASSUME UNCHANGED <<commits, stage, purge, entry>> PROVE EntriesOfThePastAreGone'
  BY <1>12, <1>a
<1>13. ASSUME NEW r \in Readers,
              \/ ReadRows(r) \/ GiveUp(r) \/ ExpireTag(r)
              \/ \E k \in Keys : Miss(r, k)
              \/ \E t \in Tables : AddTag(r, t)
       PROVE  EntriesOfThePastAreGone'
  BY <1>13, <1>12 DEF ReadRows, GiveUp, ExpireTag, Miss, AddTag
<1>14. ASSUME NEW n \in Writes, SweepUntag(n) \/ \E t \in Tables : SweepScan(n, t)
       PROVE  EntriesOfThePastAreGone'
  BY <1>14, <1>12 DEF SweepUntag, SweepScan
<1>15. ASSUME NEW t \in Tables, CleanupStep(t) PROVE EntriesOfThePastAreGone'
  BY <1>15, <1>12 DEF CleanupStep, CleanupScan, CleanupExists, CleanupRemove
<1>16. CASE UNCHANGED vars
  BY <1>16, <1>12 DEF vars
<1>17. ASSUME Next PROVE EntriesOfThePastAreGone'
  BY <1>1, <1>2, <1>3, <1>4, <1>5, <1>6, <1>7, <1>8, <1>9, <1>10, <1>11, <1>13, <1>14, <1>15, <1>17
     DEF Next, ReaderStep, WriteStep, SweepStep, PurgeStep
<1> QED
  BY <1>16, <1>17

\* For every number of writes, readers and keys: an entry stored before a write
\* committed is gone once the write's purge has run.
THEOREM PastIsGone == Spec => []EntriesOfThePastAreGone
<1>1. Init => EntriesOfThePastAreGone
  BY DEF Init, EntriesOfThePastAreGone, Live, Absent
<1>2. TypeOK /\ EntriesOfThePastAreGone /\ [Next]_vars => EntriesOfThePastAreGone'
  BY PastStepsKeep
<1> QED
  BY <1>1, <1>2, TypeCorrect, PTL DEF Spec

-----------------------------------------------------------------------------
(* Who leaks a tag set *)

\* Reader r is between the SADD to tag set t and its EXPIRE.
Promises(r, t) == reader[r].pc = "expire" /\ reader[r].table = t

\* A step that leaves no new set without a TTL, and no EXPIRE undone, leaks nothing.
LEMMA TagsRemembered ==
  ASSUME NEW t \in Tables, ~Leaked(t),
         tag'[t] # {} /\ tagTTL'[t] = 0 => tag[t] # {} /\ tagTTL[t] = 0,
         \A r \in Readers : Promises(r, t) => Promises(r, t)'
  PROVE  ~Leaked(t)'
BY DEF Leaked, Promises

\* A step of one reader, which is not on its way to the EXPIRE of t.
LEMMA OthersPromise ==
  ASSUME NEW t \in Tables, ~Leaked(t), NEW r \in Readers, ~Promises(r, t),
         \A q \in Readers \ {r} : reader'[q] = reader[q],
         tag'[t] # {} /\ tagTTL'[t] = 0 => tag[t] # {} /\ tagTTL[t] = 0
  PROVE  ~Leaked(t)'
<1>1. \A q \in Readers : Promises(q, t) => Promises(q, t)'
  BY DEF Promises
<1> QED
  BY <1>1, TagsRemembered

\* The steps of a SELECT: only a reader that gives up leaves an EXPIRE undone.
LEMMA FillsRemember ==
  ASSUME TypeOK, NEW t \in Tables, ~Leaked(t), NEW r \in Readers,
         ReaderStep(r) \/ \E k \in Keys : Miss(r, k), ~(reader[r].pc = "expire" /\ GiveUp(r))
  PROVE  ~Leaked(t)'
<1>1. CASE ReadRows(r) \/ Store(r) \/ GiveUp(r) \/ \E k \in Keys : Miss(r, k)
  <2>1. UNCHANGED tags /\ ~Promises(r, t)
    BY <1>1 DEF ReadRows, Store, GiveUp, Miss, Promises
  <2>2. \A q \in Readers \ {r} : reader'[q] = reader[q]
    BY <1>1 DEF ReadRows, Store, GiveUp, Miss, TypeOK
  <2> QED
    BY <2>1, <2>2, OthersPromise DEF tags
<1>2. ASSUME NEW s \in Tables, AddTag(r, s) PROVE ~Leaked(t)'
  <2>1. CASE s = t
    <3>1. Promises(r, t)'
      BY <1>2, <2>1 DEF AddTag, Filling, Promises, TypeOK
    <3> QED
      BY <3>1 DEF Leaked, Promises
  <2>2. CASE s # t
    <3>1. tag'[t] = tag[t] /\ tagTTL' = tagTTL /\ ~Promises(r, t)
      BY <1>2, <2>2 DEF AddTag, Promises, TypeOK
    <3>2. \A q \in Readers \ {r} : reader'[q] = reader[q]
      BY <1>2 DEF AddTag, TypeOK
    <3> QED
      BY <3>1, <3>2, OthersPromise
  <2> QED
    BY <2>1, <2>2
<1>3. CASE ExpireTag(r)
  <2>1. tag' = tag /\ \A q \in Readers \ {r} : reader'[q] = reader[q]
    BY <1>3 DEF ExpireTag, NextTable, TypeOK
  <2>2. CASE reader[r].table = t
    <3>1. tagTTL'[t] = IF tag[t] = {} THEN 0 ELSE 2 * TTL
      BY <1>3, <2>2 DEF ExpireTag, TypeOK
    <3> QED
      BY <2>1, <3>1, CacheConstants DEF Leaked
  <2>3. CASE reader[r].table # t
    <3>1. tagTTL'[t] = tagTTL[t] /\ ~Promises(r, t)
      BY <1>3, <2>3 DEF ExpireTag, Promises, TypeOK
    <3> QED
      BY <2>1, <3>1, OthersPromise
  <2> QED
    BY <2>2, <2>3
<1> QED
  BY <1>1, <1>2, <1>3 DEF ReaderStep

\* For any keys, tables, readers and TTL: only a fill that dies between the SADD and
\* the EXPIRE of a tag set leaves the set without a TTL.
THEOREM DeadFillsLeak == Spec => OnlyDeadFillsLeakTags
<1> DEFINE Step == \A t \in Tables : ~Leaked(t) /\ Leaked(t)' =>
                      \E r \in Readers : reader[r].pc = "expire" /\ (GiveUp(r) \/ Crash)
<1>1. TypeOK /\ [Next]_vars => [Step]_vars
  <2> SUFFICES ASSUME TypeOK, Next, NEW t \in Tables, ~Leaked(t),
                      \A r \in Readers : ~(reader[r].pc = "expire" /\ (GiveUp(r) \/ Crash))
               PROVE  ~Leaked(t)'
    OBVIOUS
  <2>1. ASSUME NEW r \in Readers, ReaderStep(r) \/ \E k \in Keys : Miss(r, k)
        PROVE  ~Leaked(t)'
    BY <2>1, FillsRemember
  <2>2. ASSUME UNCHANGED <<tags, reader>> PROVE ~Leaked(t)'
    BY <2>2 DEF tags, Leaked
  <2>3. CASE \E T \in WriteSets : Commit(T)
    BY <2>3, <2>2 DEF Commit
  <2>4. ASSUME NEW n \in Writes, WriteStep(n) \/ SweepStep(n) \/ PurgeStep(n)
        PROVE  ~Leaked(t)'
    <3>1. CASE WriteStep(n)
      BY <3>1, <2>2 DEF WriteStep, Answered, Unswept
    <3>2. CASE PurgeStep(n)
      BY <3>2, <2>2 DEF PurgeStep, PurgeScan, PurgeDelete, PurgeFails
    <3>3. CASE SweepDelete(n) \/ SweepFails(n) \/ \E s \in Tables : SweepScan(n, s)
      BY <3>3, <2>2 DEF SweepDelete, SweepFails, SweepScan
    <3>4. CASE SweepUntag(n)
      <4>1. reader' = reader /\ (tag'[t] # {} => tag'[t] = tag[t] /\ tagTTL'[t] = tagTTL[t])
        BY <3>4 DEF SweepUntag, TypeOK
      <4> QED
        BY <4>1, TagsRemembered DEF Promises
    <3> QED
      BY <2>4, <3>1, <3>2, <3>3, <3>4 DEF SweepStep
  <2>5. ASSUME NEW s \in Tables, CleanupStep(s) PROVE ~Leaked(t)'
    <3>1. CASE CleanupScan(s) \/ \E k \in Keys : CleanupExists(s, k)
      BY <3>1, <2>2 DEF CleanupScan, CleanupExists
    <3>2. CASE CleanupRemove(s)
      <4>1. /\ reader' = reader
            /\ tag'[t] # {} => tag[t] # {} /\ tagTTL'[t] = tagTTL[t]
        BY <3>2 DEF CleanupRemove, TypeOK
      <4> QED
        BY <4>1, TagsRemembered DEF Promises
    <3> QED
      BY <2>5, <3>1, <3>2 DEF CleanupStep
  <2>6. CASE Tick
    <3>1. reader' = reader /\ tagTTL[t] \in Nat
      BY <2>6 DEF Tick, TypeOK
    <3>2. tag'[t] # {} /\ tagTTL'[t] = 0 => tag[t] # {} /\ tagTTL[t] = 0
      BY <2>6, <3>1 DEF Tick, Older
    <3> QED
      BY <3>1, <3>2, TagsRemembered DEF Promises
  <2>7. CASE Crash
    <3>1. UNCHANGED tags /\ \A r \in Readers : ~Promises(r, t)
      BY <2>7 DEF Crash, tags, Promises
    <3> QED
      BY <3>1, TagsRemembered DEF tags
  <2> QED
    BY <2>1, <2>3, <2>4, <2>5, <2>6, <2>7 DEF Next
<1> QED
  BY <1>1, TypeCorrect, PTL DEF Spec, OnlyDeadFillsLeakTags
=============================================================================
