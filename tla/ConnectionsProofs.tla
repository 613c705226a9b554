-------------------------- MODULE ConnectionsProofs --------------------------
(***************************************************************************)
(* The theorems about Connections, for any number of requests and columns  *)
(* and any lifetime of the copy.                                           *)
(***************************************************************************)
EXTENDS Connections, TLAPS

-----------------------------------------------------------------------------
(* Types *)

LocalOK ==
    /\ pc \in [Requests -> Labels]
    /\ view \in [Requests -> [Columns -> Settings] \cup {None}]
    /\ stale \in [Requests -> BOOLEAN]
    /\ cand \in [Requests -> SUBSET Columns]
    /\ want \in [Requests -> Settings]
    /\ mine \in [Requests -> SUBSET Columns]
    /\ \A r \in Requests : pc[r] = "store" => view[r] \in [Columns -> Settings]

\* What answering, committing and going on leave of the locals.
LEMMA LocalTypes ==
  ASSUME TypeOK, NEW r \in Requests
  PROVE  /\ Answer(r) => LocalOK'
         /\ \A places : Outdates(r, places, "purge") => LocalOK'
         /\ \A label \in {"upsert", "commit"} :
               /\ Goto(r, label) /\ UNCHANGED <<view, stale>>
               /\ cand' \in [Requests -> SUBSET Columns]
               /\ want' \in [Requests -> Settings]
               /\ mine' \in [Requests -> SUBSET Columns]
               => LocalOK'
<1> USE DEF TypeOK, LocalOK, Labels, Settings
<1>1. Answer(r) => LocalOK'
  BY DEF Answer, Goto
<1>2. ASSUME NEW places, Outdates(r, places, "purge") PROVE LocalOK'
  BY <1>2 DEF Outdates, Goto
<1>3. ASSUME NEW label \in {"upsert", "commit"}, Goto(r, label), UNCHANGED <<view, stale>>,
             cand' \in [Requests -> SUBSET Columns], want' \in [Requests -> Settings],
             mine' \in [Requests -> SUBSET Columns]
      PROVE  LocalOK'
  BY <1>3 DEF Goto
<1> QED
  BY <1>1, <1>2, <1>3

\* Every variable keeps its type through every interleaving and failure.
LEMMA TypeStep == TypeOK /\ [Next]_vars => TypeOK'
<1> SUFFICES ASSUME TypeOK, [Next]_vars PROVE TypeOK'
  OBVIOUS
<1> USE ConnectionsConstantsOK DEF TypeOK, Labels, Settings, Copies, rows, local
<1>1. CASE Register
  BY <1>1 DEF Register
<1>2. ASSUME NEW r \in Requests, Deactivate(r) PROVE TypeOK'
  BY <1>2 DEF Deactivate, Outdates, Goto
<1>3. ASSUME NEW r \in Requests, Restore(r) PROVE TypeOK'
  BY <1>3 DEF Restore
<1>4. ASSUME NEW r \in Requests, HardDelete(r) PROVE TypeOK'
  BY <1>4 DEF HardDelete, Outdates, Goto, NoSettings
<1>5. ASSUME NEW r \in Requests, NEW c \in Columns, NEW s \in {"plain", "encrypted"}, AddCheck(r, c, s) PROVE TypeOK'
  BY <1>5 DEF AddCheck, Goto
<1>6. ASSUME NEW r \in Requests, NEW c \in Columns, Remove(r, c) PROVE TypeOK'
  BY <1>6 DEF Remove, Outdates, Goto
<1>7. ASSUME NEW r \in Requests, FetchStart(r) PROVE TypeOK'
  BY <1>7 DEF FetchStart, Goto
<1>8. ASSUME NEW r \in Requests, ScanStart(r) PROVE TypeOK'
  BY <1>8 DEF ScanStart, Goto
<1>9. ASSUME NEW r \in Requests, AddCommit(r) PROVE TypeOK'
  <2>1. config' \in [Columns -> Settings]
    BY <1>9 DEF AddCommit
  <2>2. LocalOK' /\ copy' = copy /\ conn' = conn
    BY <1>9, LocalTypes DEF AddCommit, Outdates
  <2> QED
    BY <2>1, <2>2 DEF LocalOK
<1>10. ASSUME NEW r \in Requests, Purge(r) PROVE TypeOK'
  BY <1>10 DEF Purge, Answer, Goto
<1>11. ASSUME NEW r \in Requests, FetchTarget(r) PROVE TypeOK'
  BY <1>11 DEF FetchTarget, Goto
<1>12. ASSUME NEW r \in Requests, FetchConfigs(r) PROVE TypeOK'
  BY <1>12 DEF FetchConfigs, Goto
<1>13. ASSUME NEW r \in Requests, FetchStore(r) PROVE TypeOK'
  <2>1. view[r] \in [Columns -> Settings]
    BY <1>13 DEF FetchStore
  <2>2. copy' \in Copies
    BY <1>13, <2>1 DEF FetchStore
  <2> QED
    BY <1>13, <2>2 DEF FetchStore, Answer, Goto
<1>14. ASSUME NEW r \in Requests, NEW found \in Findings, ScanColumns(r, found) PROVE TypeOK'
  <2>1. CASE found = {}
    BY <1>14, <2>1, LocalTypes DEF Findings, ScanColumns, LocalOK
  <2>2. CASE found # {}
    <3>1. Goto(r, "upsert") /\ UNCHANGED <<view, stale, mine, conn, config, copy>>
      BY <1>14, <2>2 DEF Findings, ScanColumns
    <3>2. cand' \in [Requests -> SUBSET Columns] /\ want' \in [Requests -> Settings]
      BY <1>14, <2>2 DEF Findings, ScanColumns
    <3>3. LocalOK'
      BY <3>1, <3>2, LocalTypes
    <3> QED
      BY <3>1, <3>3 DEF LocalOK
  <2> QED
    BY <2>1, <2>2
<1>15. ASSUME NEW r \in Requests, Upsert(r) PROVE TypeOK'
  <2>1. CASE Exists
    <3>1. Goto(r, "commit") /\ UNCHANGED <<view, stale, cand, want, conn, config, copy>>
      BY <1>15, <2>1 DEF Upsert
    <3>2. mine' \in [Requests -> SUBSET Columns]
      BY <1>15, <2>1 DEF Upsert
    <3>3. LocalOK'
      BY <3>1, <3>2, LocalTypes
    <3> QED
      BY <3>1, <3>3 DEF LocalOK
  <2>2. CASE ~Exists
    BY <1>15, <2>2, LocalTypes DEF Upsert, LocalOK
  <2> QED
    BY <2>1, <2>2
<1>16. ASSUME NEW r \in Requests, ScanCommit(r) PROVE TypeOK'
  BY <1>16 DEF ScanCommit, Outdates, Goto
<1>17. ASSUME NEW r \in Requests, ScanCommitFails(r) PROVE TypeOK'
  BY <1>17 DEF ScanCommitFails, Outdates, Goto
<1>18. ASSUME NEW r \in Requests, Break(r) PROVE TypeOK'
  BY <1>18 DEF Break, Answer, Goto
<1>19. CASE Tick
  BY <1>19 DEF Tick
<1>20. CASE UNCHANGED vars
  BY <1>20 DEF vars
<1> QED
  BY <1>1, <1>2, <1>3, <1>4, <1>5, <1>6, <1>7, <1>8, <1>9, <1>10, <1>11,
     <1>12, <1>13, <1>14, <1>15, <1>16, <1>17, <1>18, <1>19, <1>20 DEF Next, Step

THEOREM TypeCorrect == Spec => []TypeOK
<1>1. Init => TypeOK
  BY DEF Init, TypeOK, Labels, Settings, NoSettings
<1> QED
  BY <1>1, TypeStep, PTL DEF Spec

-----------------------------------------------------------------------------
(* What requests in flight know *)

\* A fetch that nothing has outdated has read what the database still says.
FetchOK ==
    \A r \in Requests : ~stale[r] =>
        /\ pc[r] \in Fetching => conn = "active"
        /\ pc[r] = "store" => view[r] = config

\* The uncommitted rows of a scan belong to a connection that is there, to
\* columns without a setting, and to no other scan.
MineOK ==
    \A r \in Requests :
        /\ mine[r] # {} => Exists /\ pc[r] = "commit"
        /\ \A c \in mine[r] : config[c] = "none"
        /\ \A q \in Requests \ {r} : mine[r] \cap mine[q] = {}

IInv == TypeOK /\ FetchOK /\ MineOK /\ NoSettingsWithoutConnection /\ OutdatedHasACause

LEMMA FetchStep == TypeOK /\ FetchOK /\ MineOK /\ [Next]_vars => FetchOK'
<1> SUFFICES ASSUME TypeOK, FetchOK, MineOK, [Next]_vars PROVE FetchOK'
  OBVIOUS
<1> USE DEF TypeOK, FetchOK, Fetching, rows, local
<1>1. CASE Register
  BY <1>1 DEF Register
<1>2. ASSUME NEW r \in Requests, Deactivate(r) PROVE FetchOK'
  BY <1>2 DEF Deactivate, Outdates, Goto
<1>3. ASSUME NEW r \in Requests, Restore(r) PROVE FetchOK'
  BY <1>3 DEF Restore
<1>4. ASSUME NEW r \in Requests, HardDelete(r) PROVE FetchOK'
  BY <1>4 DEF HardDelete, Outdates, Goto, NoSettings
<1>5. ASSUME NEW r \in Requests, NEW c \in Columns, NEW s \in {"plain", "encrypted"}, AddCheck(r, c, s) PROVE FetchOK'
  BY <1>5 DEF AddCheck, Goto
<1>6. ASSUME NEW r \in Requests, NEW c \in Columns, Remove(r, c) PROVE FetchOK'
  BY <1>6 DEF Remove, Outdates, Goto
<1>7. ASSUME NEW r \in Requests, FetchStart(r) PROVE FetchOK'
  BY <1>7 DEF FetchStart, Goto
<1>8. ASSUME NEW r \in Requests, ScanStart(r) PROVE FetchOK'
  BY <1>8 DEF ScanStart, Goto
<1>9. ASSUME NEW r \in Requests, AddCommit(r) PROVE FetchOK'
  <2>1. CASE Exists /\ \A c \in cand[r] : config[c] = "none"
    <3>1. conn' = conn /\ pc[r] = "insert" /\ Outdates(r, {"store"}, "purge")
      BY <1>9, <2>1 DEF AddCommit
    <3> QED
      BY <3>1 DEF Outdates, Goto
  <2>2. CASE ~(Exists /\ \A c \in cand[r] : config[c] = "none")
    BY <1>9, <2>2 DEF AddCommit, Answer, Goto
  <2> QED
    BY <2>1, <2>2
<1>10. ASSUME NEW r \in Requests, Purge(r) PROVE FetchOK'
  BY <1>10 DEF Purge, Answer, Goto
<1>11. ASSUME NEW r \in Requests, FetchTarget(r) PROVE FetchOK'
  BY <1>11 DEF FetchTarget, Goto
<1>12. ASSUME NEW r \in Requests, FetchConfigs(r) PROVE FetchOK'
  BY <1>12 DEF FetchConfigs, Goto
<1>13. ASSUME NEW r \in Requests, FetchStore(r) PROVE FetchOK'
  BY <1>13 DEF FetchStore, Answer, Goto
<1>14. ASSUME NEW r \in Requests, NEW found \in Findings, ScanColumns(r, found) PROVE FetchOK'
  BY <1>14 DEF Findings, ScanColumns, Answer, Goto
<1>15. ASSUME NEW r \in Requests, Upsert(r) PROVE FetchOK'
  BY <1>15 DEF Upsert, Answer, Goto
<1>16. ASSUME NEW r \in Requests, ScanCommit(r) PROVE FetchOK'
  BY <1>16 DEF ScanCommit, Outdates, Goto
<1>17. ASSUME NEW r \in Requests, ScanCommitFails(r) PROVE FetchOK'
  BY <1>17 DEF ScanCommitFails, Outdates, Goto
<1>18. ASSUME NEW r \in Requests, Break(r) PROVE FetchOK'
  BY <1>18 DEF Break, Answer, Goto
<1>19. CASE Tick
  BY <1>19 DEF Tick
<1>20. CASE UNCHANGED vars
  BY <1>20 DEF vars
<1> QED
  BY <1>1, <1>2, <1>3, <1>4, <1>5, <1>6, <1>7, <1>8, <1>9, <1>10, <1>11,
     <1>12, <1>13, <1>14, <1>15, <1>16, <1>17, <1>18, <1>19, <1>20 DEF Next, Step

LEMMA MineStep == TypeOK /\ MineOK /\ [Next]_vars => MineOK'
<1> SUFFICES ASSUME TypeOK, MineOK, [Next]_vars PROVE MineOK'
  OBVIOUS
<1> USE DEF TypeOK, MineOK, Exists, Locked, rows, local
<1>1. CASE Register
  BY <1>1 DEF Register
<1>2. ASSUME NEW r \in Requests, Deactivate(r) PROVE MineOK'
  BY <1>2 DEF Deactivate, Outdates, Goto
<1>3. ASSUME NEW r \in Requests, Restore(r) PROVE MineOK'
  BY <1>3 DEF Restore
<1>4. ASSUME NEW r \in Requests, HardDelete(r) PROVE MineOK'
  BY <1>4 DEF HardDelete, Outdates, Goto, NoSettings
<1>5. ASSUME NEW r \in Requests, NEW c \in Columns, NEW s \in {"plain", "encrypted"}, AddCheck(r, c, s) PROVE MineOK'
  BY <1>5 DEF AddCheck, Goto
<1>6. ASSUME NEW r \in Requests, NEW c \in Columns, Remove(r, c) PROVE MineOK'
  BY <1>6 DEF Remove, Outdates, Goto
<1>7. ASSUME NEW r \in Requests, FetchStart(r) PROVE MineOK'
  BY <1>7 DEF FetchStart, Goto
<1>8. ASSUME NEW r \in Requests, ScanStart(r) PROVE MineOK'
  BY <1>8 DEF ScanStart, Goto
<1>9. ASSUME NEW r \in Requests, AddCommit(r) PROVE MineOK'
  BY <1>9 DEF AddCommit, Outdates, Answer, Goto
<1>10. ASSUME NEW r \in Requests, Purge(r) PROVE MineOK'
  BY <1>10 DEF Purge, Answer, Goto
<1>11. ASSUME NEW r \in Requests, FetchTarget(r) PROVE MineOK'
  BY <1>11 DEF FetchTarget, Goto
<1>12. ASSUME NEW r \in Requests, FetchConfigs(r) PROVE MineOK'
  BY <1>12 DEF FetchConfigs, Goto
<1>13. ASSUME NEW r \in Requests, FetchStore(r) PROVE MineOK'
  BY <1>13 DEF FetchStore, Answer, Goto
<1>14. ASSUME NEW r \in Requests, NEW found \in Findings, ScanColumns(r, found) PROVE MineOK'
  BY <1>14 DEF Findings, ScanColumns, Answer, Goto
<1>15. ASSUME NEW r \in Requests, Upsert(r) PROVE MineOK'
  BY <1>15 DEF Upsert, Answer, Goto
<1>16. ASSUME NEW r \in Requests, ScanCommit(r) PROVE MineOK'
  BY <1>16 DEF ScanCommit, Outdates, Goto
<1>17. ASSUME NEW r \in Requests, ScanCommitFails(r) PROVE MineOK'
  BY <1>17 DEF ScanCommitFails, Outdates, Goto
<1>18. ASSUME NEW r \in Requests, Break(r) PROVE MineOK'
  BY <1>18 DEF Break, Answer, Goto
<1>19. CASE Tick
  BY <1>19 DEF Tick
<1>20. CASE UNCHANGED vars
  BY <1>20 DEF vars
<1> QED
  BY <1>1, <1>2, <1>3, <1>4, <1>5, <1>6, <1>7, <1>8, <1>9, <1>10, <1>11,
     <1>12, <1>13, <1>14, <1>15, <1>16, <1>17, <1>18, <1>19, <1>20 DEF Next, Step

-----------------------------------------------------------------------------
(* The invariants *)

LEMMA CauseStep == TypeOK /\ FetchOK /\ OutdatedHasACause /\ [Next]_vars => OutdatedHasACause'
<1> SUFFICES ASSUME TypeOK, FetchOK, OutdatedHasACause, [Next]_vars PROVE OutdatedHasACause'
  OBVIOUS
<1> USE DEF TypeOK, Copies, OutdatedHasACause, Outdated, rows, local
<1>1. CASE Register
  BY <1>1 DEF Register
<1>2. ASSUME NEW r \in Requests, Deactivate(r) PROVE OutdatedHasACause'
  BY <1>2 DEF Deactivate, Outdates, Goto
<1>3. ASSUME NEW r \in Requests, Restore(r) PROVE OutdatedHasACause'
  BY <1>3 DEF Restore
<1>4. ASSUME NEW r \in Requests, HardDelete(r) PROVE OutdatedHasACause'
  BY <1>4 DEF HardDelete, Outdates, Goto, NoSettings
<1>5. ASSUME NEW r \in Requests, NEW c \in Columns, NEW s \in {"plain", "encrypted"}, AddCheck(r, c, s) PROVE OutdatedHasACause'
  BY <1>5 DEF AddCheck, Goto
<1>6. ASSUME NEW r \in Requests, NEW c \in Columns, Remove(r, c) PROVE OutdatedHasACause'
  BY <1>6 DEF Remove, Outdates, Goto
<1>7. ASSUME NEW r \in Requests, FetchStart(r) PROVE OutdatedHasACause'
  BY <1>7 DEF FetchStart, Goto
<1>8. ASSUME NEW r \in Requests, ScanStart(r) PROVE OutdatedHasACause'
  BY <1>8 DEF ScanStart, Goto
<1>9. ASSUME NEW r \in Requests, AddCommit(r) PROVE OutdatedHasACause'
  BY <1>9 DEF AddCommit, Outdates, Answer, Goto
<1>10. ASSUME NEW r \in Requests, Purge(r) PROVE OutdatedHasACause'
  BY <1>10 DEF Purge, Answer, Goto
<1>11. ASSUME NEW r \in Requests, FetchTarget(r) PROVE OutdatedHasACause'
  BY <1>11 DEF FetchTarget, Goto
<1>12. ASSUME NEW r \in Requests, FetchConfigs(r) PROVE OutdatedHasACause'
  BY <1>12 DEF FetchConfigs, Goto
<1>13. ASSUME NEW r \in Requests, FetchStore(r) PROVE OutdatedHasACause'
  <2>1. copy'.view = view[r] /\ copy'.late = stale[r]
    BY <1>13 DEF FetchStore
  <2>2. stale[r] \/ (conn = "active" /\ view[r] = config)
    BY <1>13 DEF FetchStore, FetchOK, Fetching
  <2> QED
    BY <1>13, <2>1, <2>2 DEF FetchStore
<1>14. ASSUME NEW r \in Requests, NEW found \in Findings, ScanColumns(r, found) PROVE OutdatedHasACause'
  BY <1>14 DEF Findings, ScanColumns, Answer, Goto
<1>15. ASSUME NEW r \in Requests, Upsert(r) PROVE OutdatedHasACause'
  BY <1>15 DEF Upsert, Answer, Goto
<1>16. ASSUME NEW r \in Requests, ScanCommit(r) PROVE OutdatedHasACause'
  BY <1>16 DEF ScanCommit, Outdates, Goto
<1>17. ASSUME NEW r \in Requests, ScanCommitFails(r) PROVE OutdatedHasACause'
  BY <1>17 DEF ScanCommitFails, Outdates, Goto
<1>18. ASSUME NEW r \in Requests, Break(r) PROVE OutdatedHasACause'
  BY <1>18 DEF Break, Answer, Goto
<1>19. CASE Tick
  BY <1>19 DEF Tick
<1>20. CASE UNCHANGED vars
  BY <1>20 DEF vars
<1> QED
  BY <1>1, <1>2, <1>3, <1>4, <1>5, <1>6, <1>7, <1>8, <1>9, <1>10, <1>11,
     <1>12, <1>13, <1>14, <1>15, <1>16, <1>17, <1>18, <1>19, <1>20 DEF Next, Step

LEMMA OwnerStep ==
  TypeOK /\ MineOK /\ NoSettingsWithoutConnection /\ [Next]_vars => NoSettingsWithoutConnection'
<1> SUFFICES ASSUME TypeOK, MineOK, NoSettingsWithoutConnection, [Next]_vars
             PROVE  NoSettingsWithoutConnection'
  OBVIOUS
<1> USE DEF TypeOK, MineOK, NoSettingsWithoutConnection, Exists, NoSettings, rows, local
<1>1. CASE Register
  BY <1>1 DEF Register
<1>2. ASSUME NEW r \in Requests, Deactivate(r) PROVE NoSettingsWithoutConnection'
  BY <1>2 DEF Deactivate, Outdates, Goto
<1>3. ASSUME NEW r \in Requests, Restore(r) PROVE NoSettingsWithoutConnection'
  BY <1>3 DEF Restore
<1>4. ASSUME NEW r \in Requests, HardDelete(r) PROVE NoSettingsWithoutConnection'
  BY <1>4 DEF HardDelete, Outdates, Goto, NoSettings
<1>5. ASSUME NEW r \in Requests, NEW c \in Columns, NEW s \in {"plain", "encrypted"}, AddCheck(r, c, s) PROVE NoSettingsWithoutConnection'
  BY <1>5 DEF AddCheck, Goto
<1>6. ASSUME NEW r \in Requests, NEW c \in Columns, Remove(r, c) PROVE NoSettingsWithoutConnection'
  BY <1>6 DEF Remove, Outdates, Goto
<1>7. ASSUME NEW r \in Requests, FetchStart(r) PROVE NoSettingsWithoutConnection'
  BY <1>7 DEF FetchStart, Goto
<1>8. ASSUME NEW r \in Requests, ScanStart(r) PROVE NoSettingsWithoutConnection'
  BY <1>8 DEF ScanStart, Goto
<1>9. ASSUME NEW r \in Requests, AddCommit(r) PROVE NoSettingsWithoutConnection'
  BY <1>9 DEF AddCommit, Outdates, Answer, Goto
<1>10. ASSUME NEW r \in Requests, Purge(r) PROVE NoSettingsWithoutConnection'
  BY <1>10 DEF Purge, Answer, Goto
<1>11. ASSUME NEW r \in Requests, FetchTarget(r) PROVE NoSettingsWithoutConnection'
  BY <1>11 DEF FetchTarget, Goto
<1>12. ASSUME NEW r \in Requests, FetchConfigs(r) PROVE NoSettingsWithoutConnection'
  BY <1>12 DEF FetchConfigs, Goto
<1>13. ASSUME NEW r \in Requests, FetchStore(r) PROVE NoSettingsWithoutConnection'
  BY <1>13 DEF FetchStore, Answer, Goto
<1>14. ASSUME NEW r \in Requests, NEW found \in Findings, ScanColumns(r, found) PROVE NoSettingsWithoutConnection'
  BY <1>14 DEF Findings, ScanColumns, Answer, Goto
<1>15. ASSUME NEW r \in Requests, Upsert(r) PROVE NoSettingsWithoutConnection'
  BY <1>15 DEF Upsert, Answer, Goto
<1>16. ASSUME NEW r \in Requests, ScanCommit(r) PROVE NoSettingsWithoutConnection'
  BY <1>16 DEF ScanCommit, Outdates, Goto
<1>17. ASSUME NEW r \in Requests, ScanCommitFails(r) PROVE NoSettingsWithoutConnection'
  BY <1>17 DEF ScanCommitFails, Outdates, Goto
<1>18. ASSUME NEW r \in Requests, Break(r) PROVE NoSettingsWithoutConnection'
  BY <1>18 DEF Break, Answer, Goto
<1>19. CASE Tick
  BY <1>19 DEF Tick
<1>20. CASE UNCHANGED vars
  BY <1>20 DEF vars
<1> QED
  BY <1>1, <1>2, <1>3, <1>4, <1>5, <1>6, <1>7, <1>8, <1>9, <1>10, <1>11,
     <1>12, <1>13, <1>14, <1>15, <1>16, <1>17, <1>18, <1>19, <1>20 DEF Next, Step

LEMMA Invariant == Spec => []IInv
<1>1. Init => IInv
  <2> SUFFICES ASSUME Init PROVE IInv
    OBVIOUS
  <2>1. TypeOK
    BY DEF Init, TypeOK, Labels, Settings, NoSettings
  <2>2. FetchOK /\ MineOK
    BY DEF Init, FetchOK, Fetching, MineOK
  <2>3. NoSettingsWithoutConnection /\ OutdatedHasACause
    BY DEF Init, NoSettingsWithoutConnection, OutdatedHasACause, Outdated
  <2> QED
    BY <2>1, <2>2, <2>3 DEF IInv
<1>2. IInv /\ [Next]_vars => IInv'
  BY TypeStep, FetchStep, MineStep, CauseStep, OwnerStep DEF IInv
<1> QED
  BY <1>1, <1>2, PTL DEF Spec

\* However fetches, scans, changes and failures interleave, an outdated copy
\* has one of the three causes.
THEOREM OutdatedIsExplained == Spec => []OutdatedHasACause
<1>1. IInv => OutdatedHasACause
  BY DEF IInv
<1> QED
  BY <1>1, Invariant, PTL

\* No add and no scan leaves a setting behind a connection that is gone.
THEOREM NoOrphanedSettings == Spec => []NoSettingsWithoutConnection
<1>1. IInv => NoSettingsWithoutConnection
  BY DEF IInv
<1> QED
  BY <1>1, Invariant, PTL

\* No step of any request replaces a setting by another one.
THEOREM SettingsAreKept == Spec => SettingsAreNotOverwritten
<1> DEFINE Kept == \A c \in Columns : config[c] # "none" => config'[c] \in {config[c], "none"}
<1>1. IInv /\ [Next]_vars => Kept
  <2> SUFFICES ASSUME IInv, [Next]_vars, NEW c \in Columns, config[c] # "none"
               PROVE  config'[c] \in {config[c], "none"}
    OBVIOUS
  <2>a. TypeOK /\ MineOK
    BY DEF IInv
  <2> USE DEF rows, local
  <2>1. ASSUME NEW r \in Requests, HardDelete(r) PROVE config'[c] = "none"
    BY <2>1 DEF HardDelete, NoSettings
  <2>2. ASSUME NEW r \in Requests, AddCommit(r) PROVE config'[c] = config[c]
    BY <2>2 DEF AddCommit
  <2>3. ASSUME NEW r \in Requests, NEW d \in Columns, Remove(r, d) PROVE config'[c] \in {config[c], "none"}
    BY <2>3, <2>a DEF Remove, TypeOK
  <2>4. ASSUME NEW r \in Requests, ScanCommit(r) PROVE config'[c] = config[c]
    BY <2>4, <2>a DEF ScanCommit, MineOK
  <2>5. CASE config' = config
    BY <2>5
  <2>6. [Next]_vars => \/ config' = config
                      \/ \E r \in Requests : \/ HardDelete(r)
                                              \/ AddCommit(r)
                                              \/ \E d \in Columns : Remove(r, d)
                                              \/ ScanCommit(r)
    BY DEF Next, Step, vars, Register, Deactivate, Restore, AddCheck, FetchStart, ScanStart,
           Purge, FetchTarget, FetchConfigs, FetchStore, Findings, ScanColumns, Upsert, ScanCommitFails,
           Break, Tick
  <2> QED
    BY <2>1, <2>2, <2>3, <2>4, <2>5, <2>6
<1>2. [][Kept]_vars => SettingsAreNotOverwritten
  BY PTL DEF SettingsAreNotOverwritten
<1> QED
  BY <1>1, <1>2, Invariant, PTL DEF Spec

=============================================================================
