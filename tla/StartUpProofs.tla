--------------------------- MODULE StartUpProofs ---------------------------
(***************************************************************************)
(* Theorems about StartUp, for any number of runs of initdb, servers and   *)
(* threads, and a bootstrap file of any length.                            *)
(***************************************************************************)
EXTENDS StartUp, TLAPS

Complete == made = Objects /\ tdb /\ rows = 1..Commands

(* What says that initdb is done is right, be it the committed record, the *)
(* copy of a manager, or a record yet to be committed                      *)
DoneInv ==
  /\ info # None /\ info.initdb_done => Complete
  /\ \A m \in Manager : initDone[m] => Complete
  /\ \A m \in Manager : view[m] # None /\ view[m].initdb_done => Complete

(* How far a bootstrap process is, and what is there by then *)
BootInv ==
  \A b \in Boot :
    /\ pc[b] \in {"collection", "schema", "record", "tables", "template", "named",
                 "check", "boot", "finish"} => "primary" \in made
    /\ pc[b] \in {"schema", "record", "tables", "template", "named", "check", "boot",
                 "finish"} => "cluster_info" \in made
    /\ pc[b] \in {"tables", "template", "named", "check", "boot", "finish"}
         => "database_info" \in made
    /\ pc[b] = "init" =>
         initDone[b] \/ {"primary", "cluster_info", "database_info"} \subseteq made
    /\ pc[b] \in {"template", "named", "check", "boot", "finish"} => "template1" \in made
    /\ pc[b] \in {"named", "check", "boot", "finish"} => "meta" \in made
    /\ pc[b] = "named" => "tdb" \in wr[b]
    /\ pc[b] \in {"check", "boot", "finish"} => tdb
    /\ pc[b] \in {"boot", "localboot", "finish"} => info # None
    /\ \A k \in 1..step[b] : k \in rows

(* The manager of a bootstrap process is started once *)
StartInv ==
  /\ "database_info" \in made => "primary" \in made
  /\ \A b \in Boot :
       /\ pc[b] \in {"down", "collection", "schema", "record", "tables"} => ~started[b]
       /\ pc[b] = "up" /\ started[b] => "primary" \in made
       /\ pc[b] \in {"record", "tables"} => view[b] # None
       /\ pc[b] = "init" => started[b] \/ initDone[b]

(* Sessions have a gate, and a record to increment *)
SessionInv ==
  /\ rows # {} => info # None
  /\ \A m \in Manager : "info" \in wr[m] => view[m] # None
  /\ \A b \in Backend :
       /\ pc[b] = "enabled" => gate[b[1]] # None
       /\ pc[b] \in {"session", "begun", "wrote"} => mgr[b] # None
       /\ pc[b] \in {"begun", "wrote"} => view[b] # None

IInv == TypeOK /\ DoneInv /\ BootInv /\ StartInv /\ SessionInv

-----------------------------------------------------------------------------
LEMMA Managers ==
  /\ \A b \in Boot : b \in Manager
  /\ \A b \in Backend : b \in Manager /\ b[1] \in Server /\ b[2] \in Thread
  /\ \A s \in Server, t \in Thread : <<s, t>> \in Backend
  BY DEF Manager, Backend

LEMMA InitInv == Init => IInv
  <1> SUFFICES ASSUME Init PROVE IInv
    OBVIOUS
  <1> USE StartUpAssumption DEF Init
  <1>1. TypeOK
    <2>1. /\ step \in [Boot -> 0..Commands]
          /\ version \in [Boot -> 0..MaxVersion]
          /\ rows \subseteq 1..Commands
      OBVIOUS
    <2>2. pc \in [Manager -> BootStates \cup ThreadStates]
      BY DEF BootStates, ThreadStates
    <2> QED
      BY <2>1, <2>2 DEF TypeOK
  <1>2. DoneInv
    BY DEF DoneInv
  <1>3. BootInv
    <2>1. \A b \in Boot : pc[b] = "down" /\ step[b] = 0
      BY Managers
    <2>2. \A b \in Boot : \A k \in 1..step[b] : k \in rows
      <3> SUFFICES ASSUME NEW b \in Boot, NEW k \in 1..0 PROVE FALSE
        BY <2>1
      <3> QED
        OBVIOUS
    <2> QED
      BY <2>1, <2>2 DEF BootInv
  <1>4. StartInv
    BY DEF StartInv, Manager
  <1>5. SessionInv
    BY DEF SessionInv, Manager
  <1> QED
    BY <1>1, <1>2, <1>3, <1>4, <1>5 DEF IInv

(* The record that InitClusterInfo writes is one *)
LEMMA ClusterInfoRecord ==
  ASSUME TypeOK, NEW b \in Boot
  PROVE  [catalog_version |-> version[b], initdb_done |-> FALSE] \in ClusterInfo
  BY DEF TypeOK, ClusterInfo

(* The record that a session writes: its parts exist *)
LEMMA IncrementedRecord ==
  ASSUME TypeOK, SessionInv, NEW b \in Backend, IncrementCatalogVersion(b)
  PROVE  /\ <<b[1], mgr[b]>> \in Manager
         /\ view'[b] \in ClusterInfo
         /\ view' = [view EXCEPT ![b] = view'[b]]
         /\ view'[b].initdb_done = initDone[<<b[1], mgr[b]>>]
  <1>1. view[b] \in ClusterInfo /\ mgr[b] \in Thread
    BY Managers DEF TypeOK, SessionInv, IncrementCatalogVersion
  <1>2. <<b[1], mgr[b]>> \in Manager
    BY <1>1, Managers
  <1>3. view[b].catalog_version + 1 \in 0..MaxVersion
    BY <1>1, StartUpAssumption DEF ClusterInfo, IncrementCatalogVersion
  <1>4. initDone[<<b[1], mgr[b]>>] \in BOOLEAN
    BY <1>2 DEF TypeOK
  <1>5. view' = [view EXCEPT ![b] = [catalog_version |-> view[b].catalog_version + 1,
                                     initdb_done |-> initDone[<<b[1], mgr[b]>>]]]
    BY DEF IncrementCatalogVersion
  <1> DEFINE r == [catalog_version |-> view[b].catalog_version + 1,
                   initdb_done |-> initDone[<<b[1], mgr[b]>>]]
  <1>6. view'[b] = r
    BY <1>5, Managers DEF TypeOK
  <1>7. r \in ClusterInfo
    BY <1>3, <1>4 DEF ClusterInfo
  <1>8. r.initdb_done = initDone[<<b[1], mgr[b]>>]
    OBVIOUS
  <1> QED
    BY <1>2, <1>5, <1>6, <1>7, <1>8

(* What a bootstrap process has after Start *)
LEMMA LoadedManager ==
  ASSUME TypeOK, NEW b \in Boot, NEW r \in ClusterInfo \cup {None}, LoadAndList(b, r)
  PROVE  /\ initDone' \in [Manager -> BOOLEAN] /\ unaware' \subseteq Manager
         /\ version' \in [Boot -> 0..MaxVersion]
         /\ started' \in [Boot -> BOOLEAN] /\ cached' \in [Boot -> BOOLEAN]
  <1> USE DEF TypeOK
  <1>1. r \in ClusterInfo
    BY DEF LoadAndList, Load
  <1>2. r.catalog_version \in 0..MaxVersion /\ r.initdb_done \in BOOLEAN
    BY <1>1 DEF ClusterInfo
  <1>3. initDone' \in [Manager -> BOOLEAN] /\ unaware' \subseteq Manager
    BY <1>2, Managers DEF LoadAndList, Load
  <1>4. version' \in [Boot -> 0..MaxVersion]
    BY <1>2 DEF LoadAndList
  <1>5. CASE /\ started' = [started EXCEPT ![b] = TRUE]
             /\ cached' = [cached EXCEPT ![b] = tdb]
    BY <1>3, <1>4, <1>5
  <1>6. CASE UNCHANGED <<started, cached>>
    BY <1>3, <1>4, <1>6
  <1> QED
    BY <1>5, <1>6 DEF LoadAndList

LEMMA TypeStep == ASSUME IInv, [Next]_vars PROVE TypeOK'
  <1>0. TypeOK /\ SessionInv
    BY DEF IInv
  <1> USE StartUpAssumption, Managers
          DEF TypeOK, store, gates, managers, txns, Goto, Objects,
              BootStates, ThreadStates, ClusterInfo
  <1>1. CASE UNCHANGED vars
    BY <1>0, <1>1 DEF vars
  <1>2. ASSUME NEW b \in Boot, BootUp(b) PROVE TypeOK'
    <2>1. CASE LoadAndList(b, info)
      BY <1>0, <1>2, <2>1, LoadedManager DEF BootUp
    <2>2. CASE LoadFails(b) /\ UNCHANGED <<version, started, cached>>
      BY <1>0, <1>2, <2>2 DEF BootUp, LoadFails
    <2> QED
      BY <1>2, <2>1, <2>2 DEF BootUp
  <1>3. ASSUME NEW b \in Boot, BootFails(b) PROVE TypeOK'
    BY <1>0, <1>3 DEF BootFails, Exit, EndTxn
  <1>4. ASSUME NEW b \in Boot, MakePrimary(b) PROVE TypeOK'
    BY <1>0, <1>4 DEF MakePrimary, CreateCollection, IsNew
  <1>5. ASSUME NEW b \in Boot, SkipPrimary(b) PROVE TypeOK'
    BY <1>0, <1>5 DEF SkipPrimary
  <1>6. ASSUME NEW b \in Boot, CreateClusterSchema(b) PROVE TypeOK'
    BY <1>0, <1>6 DEF CreateClusterSchema
  <1>7. ASSUME NEW b \in Boot, InitClusterInfo(b) PROVE TypeOK'
    BY <1>0, <1>7 DEF InitClusterInfo
  <1>8. ASSUME NEW b \in Boot, InitDatabaseTable(b) PROVE TypeOK'
    BY <1>0, <1>8 DEF InitDatabaseTable, IsNew
  <1>9. ASSUME NEW b \in Boot, StartAgain(b) PROVE TypeOK'
    <2>1. view[b] \in ClusterInfo \cup {None} /\ LoadAndList(b, view[b])
      BY <1>0, <1>9 DEF StartAgain
    <2> QED
      BY <1>0, <1>9, <2>1, LoadedManager DEF StartAgain
  <1>10. ASSUME NEW b \in Boot, MakeTemplate(b) PROVE TypeOK'
    BY <1>0, <1>10 DEF MakeTemplate, CreateCollection, IsNew
  <1>11. ASSUME NEW b \in Boot, NameTemplate(b) PROVE TypeOK'
    BY <1>0, <1>11 DEF NameTemplate
  <1>12. ASSUME NEW b \in Boot, CommitTemplate(b) PROVE TypeOK'
    BY <1>0, <1>12 DEF CommitTemplate, CommitTxn
  <1>13. ASSUME NEW b \in Boot, CheckInitDbDone(b) PROVE TypeOK'
    BY <1>0, <1>13 DEF CheckInitDbDone
  <1>14. ASSUME NEW b \in Boot, BootCommand(b) PROVE TypeOK'
    BY <1>0, <1>14 DEF BootCommand
  <1>15. ASSUME NEW b \in Boot, FinishInitDB(b) PROVE TypeOK'
    BY <1>0, <1>15 DEF FinishInitDB, AllRun
  <1>16. ASSUME NEW b \in Boot, CommitFinish(b) PROVE TypeOK'
    BY <1>0, <1>16 DEF CommitFinish, CommitTxn, Exit
  <1>17. ASSUME NEW b \in Boot, CommitReplyLost(b) PROVE TypeOK'
    BY <1>0, <1>17 DEF CommitReplyLost, CommitTxn, Exit
  <1>18. ASSUME NEW b \in Backend, CheckFlag(b) PROVE TypeOK'
    BY <1>0, <1>18 DEF CheckFlag
  <1>19. ASSUME NEW b \in Backend, SetFlag(b) PROVE TypeOK'
    BY <1>0, <1>19 DEF SetFlag
  <1>20. ASSUME NEW b \in Backend, MakeGate(b) PROVE TypeOK'
    BY <1>0, <1>20 DEF MakeGate, Load, LoadFails
  <1>21. ASSUME NEW b \in Backend, CheckEnabled(b) PROVE TypeOK'
    BY <1>0, <1>21 DEF CheckEnabled, Enabled
  <1>22. ASSUME NEW b \in Backend, InitSession(b) PROVE TypeOK'
    BY <1>0, <1>22 DEF InitSession
  <1>23. ASSUME NEW b \in Backend, EndSession(b) PROVE TypeOK'
    BY <1>0, <1>23 DEF EndSession
  <1>24. ASSUME NEW b \in Backend, Begin(b) PROVE TypeOK'
    BY <1>0, <1>24 DEF Begin
  <1>25. ASSUME NEW b \in Backend, IncrementCatalogVersion(b) PROVE TypeOK'
    BY <1>0, <1>25, IncrementedRecord DEF IncrementCatalogVersion, SessionInv
  <1>26. ASSUME NEW b \in Backend, Commit(b) PROVE TypeOK'
    BY <1>0, <1>26 DEF Commit, CommitTxn
  <1>27. ASSUME NEW b \in Backend, Abort(b) PROVE TypeOK'
    BY <1>0, <1>27 DEF Abort, EndTxn
  <1>28. ASSUME NEW s \in Server, Crash(s) PROVE TypeOK'
    BY <1>0, <1>28 DEF Crash
  <1>29. ASSUME NEW b \in Boot, LocalMode(b) PROVE TypeOK'
    BY <1>0, <1>29 DEF LocalMode
  <1>30. ASSUME NEW b \in Boot, LocalEnd(b) PROVE TypeOK'
    BY <1>0, <1>30 DEF LocalEnd, AllRun, Exit
  <1> QED
    BY <1>1, <1>2, <1>3, <1>4, <1>5, <1>6, <1>7, <1>8, <1>9, <1>10,
       <1>11, <1>12, <1>13, <1>14, <1>15, <1>16, <1>17, <1>18, <1>19,
       <1>20, <1>21, <1>22, <1>23, <1>24, <1>25, <1>26, <1>27, <1>28, <1>29,
       <1>30 DEF Next

(* Nothing that was made or committed goes away *)
Growth ==
  /\ made \subseteq made' /\ rows \subseteq rows'
  /\ tdb => tdb'
  /\ info # None => info' # None

LEMMA StoreGrows == ASSUME IInv, [Next]_vars PROVE Growth
  <1>0. TypeOK /\ SessionInv
    BY DEF IInv
  <1> USE Managers
          DEF Growth, store, gates, managers, txns, Goto
  <1>1. CASE UNCHANGED vars
    BY <1>0, <1>1 DEF vars, TypeOK, SessionInv
  <1>2. ASSUME NEW b \in Boot, BootUp(b) PROVE Growth
    BY <1>0, <1>2 DEF BootUp, LoadAndList, Load, LoadFails, TypeOK, SessionInv
  <1>3. ASSUME NEW b \in Boot, BootFails(b) PROVE Growth
    BY <1>0, <1>3 DEF BootFails, Exit, EndTxn, TypeOK, SessionInv
  <1>4. ASSUME NEW b \in Boot, MakePrimary(b) PROVE Growth
    BY <1>0, <1>4 DEF MakePrimary, CreateCollection, IsNew, TypeOK, SessionInv
  <1>5. ASSUME NEW b \in Boot, SkipPrimary(b) PROVE Growth
    BY <1>0, <1>5 DEF SkipPrimary, TypeOK, SessionInv
  <1>6. ASSUME NEW b \in Boot, CreateClusterSchema(b) PROVE Growth
    BY <1>0, <1>6 DEF CreateClusterSchema, TypeOK, SessionInv
  <1>7. ASSUME NEW b \in Boot, InitClusterInfo(b) PROVE Growth
    BY <1>0, <1>7 DEF InitClusterInfo, TypeOK, SessionInv
  <1>8. ASSUME NEW b \in Boot, InitDatabaseTable(b) PROVE Growth
    BY <1>0, <1>8 DEF InitDatabaseTable, IsNew, TypeOK, SessionInv
  <1>9. ASSUME NEW b \in Boot, StartAgain(b) PROVE Growth
    BY <1>0, <1>9 DEF StartAgain, LoadAndList, Load, TypeOK, SessionInv
  <1>10. ASSUME NEW b \in Boot, MakeTemplate(b) PROVE Growth
    BY <1>0, <1>10 DEF MakeTemplate, CreateCollection, IsNew, TypeOK, SessionInv
  <1>11. ASSUME NEW b \in Boot, NameTemplate(b) PROVE Growth
    BY <1>0, <1>11 DEF NameTemplate, TypeOK, SessionInv
  <1>12. ASSUME NEW b \in Boot, CommitTemplate(b) PROVE Growth
    BY <1>0, <1>12 DEF CommitTemplate, CommitTxn, TypeOK, SessionInv
  <1>13. ASSUME NEW b \in Boot, CheckInitDbDone(b) PROVE Growth
    BY <1>0, <1>13 DEF CheckInitDbDone, TypeOK, SessionInv
  <1>14. ASSUME NEW b \in Boot, BootCommand(b) PROVE Growth
    BY <1>0, <1>14 DEF BootCommand, TypeOK, SessionInv
  <1>15. ASSUME NEW b \in Boot, FinishInitDB(b) PROVE Growth
    BY <1>0, <1>15 DEF FinishInitDB, AllRun, TypeOK, SessionInv
  <1>16. ASSUME NEW b \in Boot, CommitFinish(b) PROVE Growth
    BY <1>0, <1>16 DEF CommitFinish, CommitTxn, Exit, TypeOK, SessionInv
  <1>17. ASSUME NEW b \in Boot, CommitReplyLost(b) PROVE Growth
    BY <1>0, <1>17 DEF CommitReplyLost, CommitTxn, Exit, TypeOK, SessionInv
  <1>18. ASSUME NEW b \in Backend, CheckFlag(b) PROVE Growth
    BY <1>0, <1>18 DEF CheckFlag, TypeOK, SessionInv
  <1>19. ASSUME NEW b \in Backend, SetFlag(b) PROVE Growth
    BY <1>0, <1>19 DEF SetFlag, TypeOK, SessionInv
  <1>20. ASSUME NEW b \in Backend, MakeGate(b) PROVE Growth
    BY <1>0, <1>20 DEF MakeGate, Load, LoadFails, TypeOK, SessionInv
  <1>21. ASSUME NEW b \in Backend, CheckEnabled(b) PROVE Growth
    BY <1>0, <1>21 DEF CheckEnabled, Enabled, TypeOK, SessionInv
  <1>22. ASSUME NEW b \in Backend, InitSession(b) PROVE Growth
    BY <1>0, <1>22 DEF InitSession, TypeOK, SessionInv
  <1>23. ASSUME NEW b \in Backend, EndSession(b) PROVE Growth
    BY <1>0, <1>23 DEF EndSession, TypeOK, SessionInv
  <1>24. ASSUME NEW b \in Backend, Begin(b) PROVE Growth
    BY <1>0, <1>24 DEF Begin, TypeOK, SessionInv
  <1>25. ASSUME NEW b \in Backend, IncrementCatalogVersion(b) PROVE Growth
    BY <1>0, <1>25 DEF IncrementCatalogVersion, TypeOK, SessionInv
  <1>26. ASSUME NEW b \in Backend, Commit(b) PROVE Growth
    BY <1>0, <1>26 DEF Commit, CommitTxn, TypeOK, SessionInv
  <1>27. ASSUME NEW b \in Backend, Abort(b) PROVE Growth
    BY <1>0, <1>27 DEF Abort, EndTxn, TypeOK, SessionInv
  <1>28. ASSUME NEW s \in Server, Crash(s) PROVE Growth
    BY <1>0, <1>28 DEF Crash, TypeOK, SessionInv
  <1>29. ASSUME NEW b \in Boot, LocalMode(b) PROVE Growth
    BY <1>0, <1>29 DEF LocalMode, TypeOK, SessionInv
  <1>30. ASSUME NEW b \in Boot, LocalEnd(b) PROVE Growth
    BY <1>0, <1>30 DEF LocalEnd, AllRun, Exit, TypeOK, SessionInv
  <1> QED
    BY <1>1, <1>2, <1>3, <1>4, <1>5, <1>6, <1>7, <1>8, <1>9, <1>10,
       <1>11, <1>12, <1>13, <1>14, <1>15, <1>16, <1>17, <1>18, <1>19,
       <1>20, <1>21, <1>22, <1>23, <1>24, <1>25, <1>26, <1>27, <1>28, <1>29,
       <1>30 DEF Next

LEMMA DoneStep == ASSUME IInv, [Next]_vars PROVE DoneInv'
  <1>a. TypeOK' /\ Growth
    BY TypeStep, StoreGrows
  <1>b. Complete => Complete'
    <2>1. made \subseteq made' /\ made' \subseteq Objects /\ rows \subseteq rows'
            /\ rows' \subseteq 1..Commands /\ (tdb => tdb')
      BY <1>a DEF TypeOK, Growth
    <2> QED
      BY <2>1 DEF Complete
  <1>0. TypeOK /\ DoneInv /\ BootInv /\ SessionInv /\ (Complete => Complete')
    BY <1>b DEF IInv
  <1> USE StartUpAssumption, Managers
          DEF DoneInv, store, gates, managers, txns, Goto
  <1>1. CASE UNCHANGED vars
    BY <1>0, <1>1 DEF vars, TypeOK
  <1>2. ASSUME NEW b \in Boot, BootUp(b) PROVE DoneInv'
    BY <1>0, <1>2 DEF BootUp, LoadAndList, Load, LoadFails, TypeOK
  <1>3. ASSUME NEW b \in Boot, BootFails(b) PROVE DoneInv'
    BY <1>0, <1>3 DEF BootFails, Exit, EndTxn, TypeOK
  <1>4. ASSUME NEW b \in Boot, MakePrimary(b) PROVE DoneInv'
    BY <1>0, <1>4 DEF MakePrimary, CreateCollection, IsNew, TypeOK
  <1>5. ASSUME NEW b \in Boot, SkipPrimary(b) PROVE DoneInv'
    BY <1>0, <1>5 DEF SkipPrimary, TypeOK
  <1>6. ASSUME NEW b \in Boot, CreateClusterSchema(b) PROVE DoneInv'
    BY <1>0, <1>6 DEF CreateClusterSchema, TypeOK
  <1>7. ASSUME NEW b \in Boot, InitClusterInfo(b) PROVE DoneInv'
    BY <1>0, <1>7 DEF InitClusterInfo, TypeOK
  <1>8. ASSUME NEW b \in Boot, InitDatabaseTable(b) PROVE DoneInv'
    BY <1>0, <1>8 DEF InitDatabaseTable, IsNew, TypeOK
  <1>9. ASSUME NEW b \in Boot, StartAgain(b) PROVE DoneInv'
    BY <1>0, <1>9 DEF StartAgain, LoadAndList, Load, TypeOK
  <1>10. ASSUME NEW b \in Boot, MakeTemplate(b) PROVE DoneInv'
    BY <1>0, <1>10 DEF MakeTemplate, CreateCollection, IsNew, TypeOK
  <1>11. ASSUME NEW b \in Boot, NameTemplate(b) PROVE DoneInv'
    BY <1>0, <1>11 DEF NameTemplate, TypeOK
  <1>12. ASSUME NEW b \in Boot, CommitTemplate(b) PROVE DoneInv'
    BY <1>0, <1>12 DEF CommitTemplate, CommitTxn, TypeOK
  <1>13. ASSUME NEW b \in Boot, CheckInitDbDone(b) PROVE DoneInv'
    BY <1>0, <1>13 DEF CheckInitDbDone, TypeOK
  <1>14. ASSUME NEW b \in Boot, BootCommand(b) PROVE DoneInv'
    BY <1>0, <1>14 DEF BootCommand, TypeOK
  <1>15. ASSUME NEW b \in Boot, FinishInitDB(b) PROVE DoneInv'
    <2>1. made = Objects /\ tdb
      BY <1>0, <1>15 DEF FinishInitDB, BootInv, TypeOK, Objects
    <2>2. rows = 1..Commands
      BY <1>0, <1>15 DEF FinishInitDB, AllRun, BootInv, TypeOK
    <2>3. Complete
      BY <2>1, <2>2 DEF Complete
    <2> QED
      BY <1>0, <2>3
  <1>16. ASSUME NEW b \in Boot, CommitFinish(b) PROVE DoneInv'
    BY <1>0, <1>16 DEF CommitFinish, CommitTxn, Exit, TypeOK
  <1>17. ASSUME NEW b \in Boot, CommitReplyLost(b) PROVE DoneInv'
    BY <1>0, <1>17 DEF CommitReplyLost, CommitTxn, Exit, TypeOK
  <1>18. ASSUME NEW b \in Backend, CheckFlag(b) PROVE DoneInv'
    BY <1>0, <1>18 DEF CheckFlag, TypeOK
  <1>19. ASSUME NEW b \in Backend, SetFlag(b) PROVE DoneInv'
    BY <1>0, <1>19 DEF SetFlag, TypeOK
  <1>20. ASSUME NEW b \in Backend, MakeGate(b) PROVE DoneInv'
    BY <1>0, <1>20 DEF MakeGate, Load, LoadFails, TypeOK
  <1>21. ASSUME NEW b \in Backend, CheckEnabled(b) PROVE DoneInv'
    BY <1>0, <1>21 DEF CheckEnabled, Enabled, TypeOK
  <1>22. ASSUME NEW b \in Backend, InitSession(b) PROVE DoneInv'
    BY <1>0, <1>22 DEF InitSession, TypeOK
  <1>23. ASSUME NEW b \in Backend, EndSession(b) PROVE DoneInv'
    BY <1>0, <1>23 DEF EndSession, TypeOK
  <1>24. ASSUME NEW b \in Backend, Begin(b) PROVE DoneInv'
    BY <1>0, <1>24 DEF Begin, TypeOK
  <1>25. ASSUME NEW b \in Backend, IncrementCatalogVersion(b) PROVE DoneInv'
    <2>1. \A m \in Manager : view'[m] # None /\ view'[m].initdb_done => Complete
      BY <1>0, <1>25, IncrementedRecord DEF TypeOK
    <2> QED
      BY <1>0, <1>25, <2>1 DEF IncrementCatalogVersion
  <1>26. ASSUME NEW b \in Backend, Commit(b) PROVE DoneInv'
    BY <1>0, <1>26 DEF Commit, CommitTxn, TypeOK
  <1>27. ASSUME NEW b \in Backend, Abort(b) PROVE DoneInv'
    BY <1>0, <1>27 DEF Abort, EndTxn, TypeOK
  <1>28. ASSUME NEW s \in Server, Crash(s) PROVE DoneInv'
    BY <1>0, <1>28 DEF Crash, TypeOK
  <1>29. ASSUME NEW b \in Boot, LocalMode(b) PROVE DoneInv'
    BY <1>0, <1>29 DEF LocalMode, TypeOK
  <1>30. ASSUME NEW b \in Boot, LocalEnd(b) PROVE DoneInv'
    BY <1>0, <1>30 DEF LocalEnd, AllRun, Exit, TypeOK
  <1> QED
    BY <1>1, <1>2, <1>3, <1>4, <1>5, <1>6, <1>7, <1>8, <1>9, <1>10,
       <1>11, <1>12, <1>13, <1>14, <1>15, <1>16, <1>17, <1>18, <1>19,
       <1>20, <1>21, <1>22, <1>23, <1>24, <1>25, <1>26, <1>27, <1>28, <1>29,
       <1>30 DEF Next

LEMMA BootStep == ASSUME IInv, [Next]_vars PROVE BootInv'
  <1>0. TypeOK /\ DoneInv /\ BootInv /\ Growth
    BY StoreGrows DEF IInv
  <1> USE StartUpAssumption, Managers
          DEF BootInv, store, gates, managers, txns, Goto
  <1>1. CASE UNCHANGED vars
    BY <1>0, <1>1 DEF vars, TypeOK, Growth
  <1>2. ASSUME NEW b \in Boot, BootUp(b) PROVE BootInv'
    BY <1>0, <1>2 DEF BootUp, LoadAndList, Load, LoadFails, TypeOK, Growth
  <1>3. ASSUME NEW b \in Boot, BootFails(b) PROVE BootInv'
    BY <1>0, <1>3 DEF BootFails, Exit, EndTxn, TypeOK, Growth
  <1>4. ASSUME NEW b \in Boot, MakePrimary(b) PROVE BootInv'
    BY <1>0, <1>4 DEF MakePrimary, CreateCollection, IsNew, TypeOK, Growth
  <1>5. ASSUME NEW b \in Boot, SkipPrimary(b) PROVE BootInv'
    BY <1>0, <1>5 DEF SkipPrimary, TypeOK, Growth
  <1>6. ASSUME NEW b \in Boot, CreateClusterSchema(b) PROVE BootInv'
    BY <1>0, <1>6 DEF CreateClusterSchema, TypeOK, Growth
  <1>7. ASSUME NEW b \in Boot, InitClusterInfo(b) PROVE BootInv'
    BY <1>0, <1>7 DEF InitClusterInfo, TypeOK, Growth
  <1>8. ASSUME NEW b \in Boot, InitDatabaseTable(b) PROVE BootInv'
    BY <1>0, <1>8 DEF InitDatabaseTable, IsNew, TypeOK, Growth
  <1>9. ASSUME NEW b \in Boot, StartAgain(b) PROVE BootInv'
    BY <1>0, <1>9 DEF StartAgain, LoadAndList, Load, TypeOK, Growth
  <1>10. ASSUME NEW b \in Boot, MakeTemplate(b) PROVE BootInv'
    <2>1. {"primary", "cluster_info", "database_info"} \subseteq made
      BY <1>0, <1>10 DEF MakeTemplate, CreateCollection, IsNew, DoneInv, Complete, Objects
    <2> QED
      BY <1>0, <1>10, <2>1 DEF MakeTemplate, CreateCollection, TypeOK, Growth
  <1>11. ASSUME NEW b \in Boot, NameTemplate(b) PROVE BootInv'
    BY <1>0, <1>11 DEF NameTemplate, TypeOK, Growth
  <1>12. ASSUME NEW b \in Boot, CommitTemplate(b) PROVE BootInv'
    <2>1. /\ pc' = [pc EXCEPT ![b] = "check"]
          /\ \A m \in Manager : m # b => wr'[m] = wr[m]
          /\ UNCHANGED <<made, rows, step>>
          /\ UNCHANGED initDone /\ tdb' /\ pc[b] = "named"
      BY <1>0, <1>12 DEF CommitTemplate, CommitTxn, TypeOK
    <2> QED
      BY <1>0, <2>1 DEF Growth, TypeOK
  <1>13. ASSUME NEW b \in Boot, CheckInitDbDone(b) PROVE BootInv'
    BY <1>0, <1>13 DEF CheckInitDbDone, TypeOK, Growth
  <1>14. ASSUME NEW b \in Boot, BootCommand(b) PROVE BootInv'
    BY <1>0, <1>14 DEF BootCommand, TypeOK, Growth
  <1>15. ASSUME NEW b \in Boot, FinishInitDB(b) PROVE BootInv'
    BY <1>0, <1>15 DEF FinishInitDB, AllRun, TypeOK, Growth
  <1>16. ASSUME NEW b \in Boot, CommitFinish(b) PROVE BootInv'
    <2>1. /\ pc' = [pc EXCEPT ![b] = "ok"]
          /\ \A m \in Manager : m # b => wr'[m] = wr[m]
          /\ UNCHANGED <<made, rows, step>>
          /\ \A m \in Manager : m # b => initDone'[m] = initDone[m]
      BY <1>0, <1>16 DEF CommitFinish, CommitTxn, Exit, TypeOK
    <2> QED
      BY <1>0, <2>1 DEF Growth, TypeOK
  <1>17. ASSUME NEW b \in Boot, CommitReplyLost(b) PROVE BootInv'
    <2>1. /\ pc' = [pc EXCEPT ![b] = "failed"]
          /\ \A m \in Manager : m # b => wr'[m] = wr[m]
          /\ UNCHANGED <<made, rows, step>>
          /\ \A m \in Manager : m # b => initDone'[m] = initDone[m]
      BY <1>0, <1>17 DEF CommitReplyLost, CommitTxn, Exit, TypeOK
    <2> QED
      BY <1>0, <2>1 DEF Growth, TypeOK
  <1>18. ASSUME NEW b \in Backend, CheckFlag(b) PROVE BootInv'
    BY <1>0, <1>18 DEF CheckFlag, TypeOK, Growth
  <1>19. ASSUME NEW b \in Backend, SetFlag(b) PROVE BootInv'
    BY <1>0, <1>19 DEF SetFlag, TypeOK, Growth
  <1>20. ASSUME NEW b \in Backend, MakeGate(b) PROVE BootInv'
    BY <1>0, <1>20 DEF MakeGate, Load, LoadFails, TypeOK, Growth
  <1>21. ASSUME NEW b \in Backend, CheckEnabled(b) PROVE BootInv'
    BY <1>0, <1>21 DEF CheckEnabled, Enabled, TypeOK, Growth
  <1>22. ASSUME NEW b \in Backend, InitSession(b) PROVE BootInv'
    BY <1>0, <1>22 DEF InitSession, TypeOK, Growth
  <1>23. ASSUME NEW b \in Backend, EndSession(b) PROVE BootInv'
    BY <1>0, <1>23 DEF EndSession, TypeOK, Growth
  <1>24. ASSUME NEW b \in Backend, Begin(b) PROVE BootInv'
    BY <1>0, <1>24 DEF Begin, TypeOK, Growth
  <1>25. ASSUME NEW b \in Backend, IncrementCatalogVersion(b) PROVE BootInv'
    BY <1>0, <1>25 DEF IncrementCatalogVersion, TypeOK, Growth
  <1>26. ASSUME NEW b \in Backend, Commit(b) PROVE BootInv'
    <2>1. /\ pc' = [pc EXCEPT ![b] = "session"]
          /\ \A m \in Manager : m # b => wr'[m] = wr[m]
          /\ UNCHANGED <<made, rows, step>>
          /\ UNCHANGED initDone /\ pc[b] = "wrote"
      BY <1>0, <1>26 DEF Commit, CommitTxn, TypeOK
    <2> QED
      BY <1>0, <2>1 DEF Growth, TypeOK
  <1>27. ASSUME NEW b \in Backend, Abort(b) PROVE BootInv'
    BY <1>0, <1>27 DEF Abort, EndTxn, TypeOK, Growth
  <1>28. ASSUME NEW s \in Server, Crash(s) PROVE BootInv'
    BY <1>0, <1>28 DEF Crash, TypeOK, Growth
  <1>29. ASSUME NEW b \in Boot, LocalMode(b) PROVE BootInv'
    BY <1>0, <1>29 DEF LocalMode, TypeOK, Growth
  <1>30. ASSUME NEW b \in Boot, LocalEnd(b) PROVE BootInv'
    BY <1>0, <1>30 DEF LocalEnd, AllRun, Exit, TypeOK, Growth
  <1> QED
    BY <1>1, <1>2, <1>3, <1>4, <1>5, <1>6, <1>7, <1>8, <1>9, <1>10,
       <1>11, <1>12, <1>13, <1>14, <1>15, <1>16, <1>17, <1>18, <1>19,
       <1>20, <1>21, <1>22, <1>23, <1>24, <1>25, <1>26, <1>27, <1>28, <1>29,
       <1>30 DEF Next

LEMMA StartStep == ASSUME IInv, [Next]_vars PROVE StartInv'
  <1>0. TypeOK /\ DoneInv /\ BootInv /\ StartInv /\ Growth
    BY StoreGrows DEF IInv
  <1> USE StartUpAssumption, Managers
          DEF StartInv, store, gates, managers, txns, Goto
  <1>1. CASE UNCHANGED vars
    BY <1>0, <1>1 DEF vars, TypeOK
  <1>2. ASSUME NEW b \in Boot, BootUp(b) PROVE StartInv'
    BY <1>0, <1>2 DEF BootUp, LoadAndList, Load, LoadFails, TypeOK
  <1>3. ASSUME NEW b \in Boot, BootFails(b) PROVE StartInv'
    BY <1>0, <1>3 DEF BootFails, Exit, EndTxn, TypeOK
  <1>4. ASSUME NEW b \in Boot, MakePrimary(b) PROVE StartInv'
    BY <1>0, <1>4 DEF MakePrimary, CreateCollection, IsNew, TypeOK
  <1>5. ASSUME NEW b \in Boot, SkipPrimary(b) PROVE StartInv'
    BY <1>0, <1>5 DEF SkipPrimary, TypeOK
  <1>6. ASSUME NEW b \in Boot, CreateClusterSchema(b) PROVE StartInv'
    BY <1>0, <1>6 DEF CreateClusterSchema, TypeOK
  <1>7. ASSUME NEW b \in Boot, InitClusterInfo(b) PROVE StartInv'
    <2>1. view'[b] # None /\ \A m \in Manager : m # b => view'[m] = view[m]
      BY <1>0, <1>7, ClusterInfoRecord DEF InitClusterInfo, TypeOK
    <2> QED
      BY <1>0, <1>7, <2>1 DEF InitClusterInfo, TypeOK
  <1>8. ASSUME NEW b \in Boot, InitDatabaseTable(b) PROVE StartInv'
    <2>1. "primary" \in made
      BY <1>0, <1>8 DEF InitDatabaseTable, BootInv
    <2> QED
      BY <1>0, <1>8, <2>1 DEF InitDatabaseTable, TypeOK
  <1>9. ASSUME NEW b \in Boot, StartAgain(b) PROVE StartInv'
    BY <1>0, <1>9 DEF StartAgain, LoadAndList, Load, TypeOK
  <1>10. ASSUME NEW b \in Boot, MakeTemplate(b) PROVE StartInv'
    BY <1>0, <1>10 DEF MakeTemplate, CreateCollection, IsNew, TypeOK
  <1>11. ASSUME NEW b \in Boot, NameTemplate(b) PROVE StartInv'
    BY <1>0, <1>11 DEF NameTemplate, TypeOK
  <1>12. ASSUME NEW b \in Boot, CommitTemplate(b) PROVE StartInv'
    BY <1>0, <1>12 DEF CommitTemplate, CommitTxn, TypeOK
  <1>13. ASSUME NEW b \in Boot, CheckInitDbDone(b) PROVE StartInv'
    BY <1>0, <1>13 DEF CheckInitDbDone, TypeOK
  <1>14. ASSUME NEW b \in Boot, BootCommand(b) PROVE StartInv'
    BY <1>0, <1>14 DEF BootCommand, TypeOK
  <1>15. ASSUME NEW b \in Boot, FinishInitDB(b) PROVE StartInv'
    BY <1>0, <1>15 DEF FinishInitDB, AllRun, TypeOK
  <1>16. ASSUME NEW b \in Boot, CommitFinish(b) PROVE StartInv'
    BY <1>0, <1>16 DEF CommitFinish, CommitTxn, Exit, TypeOK
  <1>17. ASSUME NEW b \in Boot, CommitReplyLost(b) PROVE StartInv'
    BY <1>0, <1>17 DEF CommitReplyLost, CommitTxn, Exit, TypeOK
  <1>18. ASSUME NEW b \in Backend, CheckFlag(b) PROVE StartInv'
    BY <1>0, <1>18 DEF CheckFlag, TypeOK
  <1>19. ASSUME NEW b \in Backend, SetFlag(b) PROVE StartInv'
    BY <1>0, <1>19 DEF SetFlag, TypeOK
  <1>20. ASSUME NEW b \in Backend, MakeGate(b) PROVE StartInv'
    BY <1>0, <1>20 DEF MakeGate, Load, LoadFails, TypeOK
  <1>21. ASSUME NEW b \in Backend, CheckEnabled(b) PROVE StartInv'
    BY <1>0, <1>21 DEF CheckEnabled, Enabled, TypeOK
  <1>22. ASSUME NEW b \in Backend, InitSession(b) PROVE StartInv'
    BY <1>0, <1>22 DEF InitSession, TypeOK
  <1>23. ASSUME NEW b \in Backend, EndSession(b) PROVE StartInv'
    BY <1>0, <1>23 DEF EndSession, TypeOK
  <1>24. ASSUME NEW b \in Backend, Begin(b) PROVE StartInv'
    BY <1>0, <1>24 DEF Begin, TypeOK
  <1>25. ASSUME NEW b \in Backend, IncrementCatalogVersion(b) PROVE StartInv'
    BY <1>0, <1>25 DEF IncrementCatalogVersion, TypeOK
  <1>26. ASSUME NEW b \in Backend, Commit(b) PROVE StartInv'
    BY <1>0, <1>26 DEF Commit, CommitTxn, TypeOK
  <1>27. ASSUME NEW b \in Backend, Abort(b) PROVE StartInv'
    BY <1>0, <1>27 DEF Abort, EndTxn, TypeOK
  <1>28. ASSUME NEW s \in Server, Crash(s) PROVE StartInv'
    BY <1>0, <1>28 DEF Crash, TypeOK
  <1>29. ASSUME NEW b \in Boot, LocalMode(b) PROVE StartInv'
    BY <1>0, <1>29 DEF LocalMode, TypeOK
  <1>30. ASSUME NEW b \in Boot, LocalEnd(b) PROVE StartInv'
    BY <1>0, <1>30 DEF LocalEnd, AllRun, Exit, TypeOK
  <1> QED
    BY <1>1, <1>2, <1>3, <1>4, <1>5, <1>6, <1>7, <1>8, <1>9, <1>10,
       <1>11, <1>12, <1>13, <1>14, <1>15, <1>16, <1>17, <1>18, <1>19,
       <1>20, <1>21, <1>22, <1>23, <1>24, <1>25, <1>26, <1>27, <1>28, <1>29,
       <1>30 DEF Next

LEMMA SessionStep == ASSUME IInv, [Next]_vars PROVE SessionInv'
  <1>0. TypeOK /\ BootInv /\ StartInv /\ SessionInv /\ Growth
    BY StoreGrows DEF IInv
  <1> USE StartUpAssumption, Managers
          DEF SessionInv, store, gates, managers, txns, Goto
  <1>1. CASE UNCHANGED vars
    BY <1>0, <1>1 DEF vars, TypeOK
  <1>2. ASSUME NEW b \in Boot, BootUp(b) PROVE SessionInv'
    BY <1>0, <1>2 DEF BootUp, LoadAndList, Load, LoadFails, TypeOK
  <1>3. ASSUME NEW b \in Boot, BootFails(b) PROVE SessionInv'
    BY <1>0, <1>3 DEF BootFails, Exit, EndTxn, TypeOK
  <1>4. ASSUME NEW b \in Boot, MakePrimary(b) PROVE SessionInv'
    BY <1>0, <1>4 DEF MakePrimary, CreateCollection, IsNew, TypeOK
  <1>5. ASSUME NEW b \in Boot, SkipPrimary(b) PROVE SessionInv'
    BY <1>0, <1>5 DEF SkipPrimary, TypeOK
  <1>6. ASSUME NEW b \in Boot, CreateClusterSchema(b) PROVE SessionInv'
    BY <1>0, <1>6 DEF CreateClusterSchema, TypeOK
  <1>7. ASSUME NEW b \in Boot, InitClusterInfo(b) PROVE SessionInv'
    <2>1. view'[b] # None /\ \A m \in Manager : m # b => view'[m] = view[m]
      BY <1>0, <1>7, ClusterInfoRecord DEF InitClusterInfo, TypeOK
    <2> QED
      BY <1>0, <1>7, <2>1 DEF InitClusterInfo, TypeOK
  <1>8. ASSUME NEW b \in Boot, InitDatabaseTable(b) PROVE SessionInv'
    BY <1>0, <1>8 DEF InitDatabaseTable, IsNew, TypeOK
  <1>9. ASSUME NEW b \in Boot, StartAgain(b) PROVE SessionInv'
    BY <1>0, <1>9 DEF StartAgain, LoadAndList, Load, TypeOK
  <1>10. ASSUME NEW b \in Boot, MakeTemplate(b) PROVE SessionInv'
    BY <1>0, <1>10 DEF MakeTemplate, CreateCollection, IsNew, TypeOK
  <1>11. ASSUME NEW b \in Boot, NameTemplate(b) PROVE SessionInv'
    BY <1>0, <1>11 DEF NameTemplate, TypeOK
  <1>12. ASSUME NEW b \in Boot, CommitTemplate(b) PROVE SessionInv'
    BY <1>0, <1>12 DEF CommitTemplate, CommitTxn, TypeOK
  <1>13. ASSUME NEW b \in Boot, CheckInitDbDone(b) PROVE SessionInv'
    BY <1>0, <1>13 DEF CheckInitDbDone, TypeOK
  <1>14. ASSUME NEW b \in Boot, BootCommand(b) PROVE SessionInv'
    <2>1. info # None
      BY <1>0, <1>14 DEF BootCommand, BootInv
    <2> QED
      BY <1>0, <1>14, <2>1 DEF BootCommand, TypeOK
  <1>15. ASSUME NEW b \in Boot, FinishInitDB(b) PROVE SessionInv'
    <2>1. [info EXCEPT !.initdb_done = TRUE] \in ClusterInfo
      BY <1>0, <1>15 DEF FinishInitDB, TypeOK, ClusterInfo
    <2>2. view'[b] # None /\ \A m \in Manager : m # b => view'[m] = view[m]
      BY <1>0, <1>15, <2>1 DEF FinishInitDB, TypeOK
    <2> QED
      BY <1>0, <1>15, <2>2 DEF FinishInitDB, TypeOK
  <1>16. ASSUME NEW b \in Boot, CommitFinish(b) PROVE SessionInv'
    BY <1>0, <1>16 DEF CommitFinish, CommitTxn, Exit, TypeOK
  <1>17. ASSUME NEW b \in Boot, CommitReplyLost(b) PROVE SessionInv'
    BY <1>0, <1>17 DEF CommitReplyLost, CommitTxn, Exit, TypeOK
  <1>18. ASSUME NEW b \in Backend, CheckFlag(b) PROVE SessionInv'
    BY <1>0, <1>18 DEF CheckFlag, TypeOK
  <1>19. ASSUME NEW b \in Backend, SetFlag(b) PROVE SessionInv'
    BY <1>0, <1>19 DEF SetFlag, TypeOK
  <1>20. ASSUME NEW b \in Backend, MakeGate(b) PROVE SessionInv'
    BY <1>0, <1>20 DEF MakeGate, Load, LoadFails, TypeOK
  <1>21. ASSUME NEW b \in Backend, CheckEnabled(b) PROVE SessionInv'
    BY <1>0, <1>21 DEF CheckEnabled, Enabled, TypeOK
  <1>22. ASSUME NEW b \in Backend, InitSession(b) PROVE SessionInv'
    BY <1>0, <1>22 DEF InitSession, TypeOK
  <1>23. ASSUME NEW b \in Backend, EndSession(b) PROVE SessionInv'
    BY <1>0, <1>23 DEF EndSession, TypeOK
  <1>24. ASSUME NEW b \in Backend, Begin(b) PROVE SessionInv'
    <2>1. 1 \in rows
      BY <1>24 DEF Begin
    <2>2. info # None
      BY <1>0, <2>1
    <2> QED
      BY <1>0, <1>24, <2>2 DEF Begin, TypeOK
  <1>25. ASSUME NEW b \in Backend, IncrementCatalogVersion(b) PROVE SessionInv'
    <2>1. view'[b] \in ClusterInfo /\ view' = [view EXCEPT ![b] = view'[b]]
      BY <1>0, <1>25, IncrementedRecord
    <2>2. view'[b] # None
      BY <2>1
    <2>3. \A m \in Manager : m # b => view'[m] = view[m]
      BY <1>0, <2>1 DEF TypeOK
    <2> QED
      BY <1>0, <1>25, <2>2, <2>3 DEF IncrementCatalogVersion, TypeOK
  <1>26. ASSUME NEW b \in Backend, Commit(b) PROVE SessionInv'
    BY <1>0, <1>26 DEF Commit, CommitTxn, TypeOK
  <1>27. ASSUME NEW b \in Backend, Abort(b) PROVE SessionInv'
    BY <1>0, <1>27 DEF Abort, EndTxn, TypeOK
  <1>28. ASSUME NEW s \in Server, Crash(s) PROVE SessionInv'
    BY <1>0, <1>28 DEF Crash, TypeOK
  <1>29. ASSUME NEW b \in Boot, LocalMode(b) PROVE SessionInv'
    BY <1>0, <1>29 DEF LocalMode, TypeOK
  <1>30. ASSUME NEW b \in Boot, LocalEnd(b) PROVE SessionInv'
    BY <1>0, <1>30 DEF LocalEnd, AllRun, Exit, TypeOK
  <1> QED
    BY <1>1, <1>2, <1>3, <1>4, <1>5, <1>6, <1>7, <1>8, <1>9, <1>10,
       <1>11, <1>12, <1>13, <1>14, <1>15, <1>16, <1>17, <1>18, <1>19,
       <1>20, <1>21, <1>22, <1>23, <1>24, <1>25, <1>26, <1>27, <1>28, <1>29,
       <1>30 DEF Next

LEMMA Inductive == Spec => []IInv
  <1>1. IInv /\ [Next]_vars => IInv'
    BY TypeStep, DoneStep, BootStep, StartStep, SessionStep DEF IInv
  <1> QED
    BY InitInv, <1>1, PTL DEF Spec

-----------------------------------------------------------------------------
(* Every variable keeps its type: the record in the store and in every     *)
(* open transaction, the gates, and the steps of initdb and of threads.    *)
THEOREM TypeCorrect == Spec => []TypeOK
  BY Inductive, PTL DEF IInv

(* The cluster record says that initdb is done only when every collection, *)
(* schema, template1 and the rows of the whole bootstrap file are there,   *)
(* for any number of runs of initdb that fail anywhere.                    *)
THEOREM DoneIsComplete == Spec => []DoneMeansComplete
  <1>1. IInv => DoneMeansComplete
    BY DEF IInv, DoneInv, Complete, DoneMeansComplete
  <1> QED
    BY Inductive, <1>1, PTL

(* The assertions "Already started" and "Not initialized" of the catalog   *)
(* manager hold in every run of initdb.                                    *)
THEOREM ManagerStartedOnce == Spec => []StartedOnce
  <1>1. IInv => StartedOnce
    BY DEF IInv, StartInv, StartedOnce
  <1> QED
    BY Inductive, <1>1, PTL

(* PgGate_InitSession never runs without a gate, for any number of threads *)
(* that race for it in any number of servers.                              *)
THEOREM GateForEverySession == Spec => []SessionsHaveGate
  <1>1. IInv => SessionsHaveGate
    BY DEF IInv, SessionInv, SessionsHaveGate
  <1> QED
    BY Inductive, <1>1, PTL

-----------------------------------------------------------------------------
(* initdb_done is kept.  The runs of initdb that got past the primary      *)
(* collection, which is made once                                          *)

Past(b) ==
  \/ pc[b] \in {"collection", "schema", "record", "tables", "template", "named",
                "check", "boot", "finish", "ok"}
  \/ pc[b] = "init" /\ ~initDone[b]

OneMaker ==
  \A b \in Boot : Past(b) => "primary" \in made /\ \A c \in Boot : Past(c) => c = b

(* m says that initdb is done, in its manager or in what it has open *)
Says(m) == initDone[m] \/ (view[m] # None /\ view[m].initdb_done)

Recorded == info # None /\ info.initdb_done

(* While that run is under way nobody has heard that initdb is done; it    *)
(* says so itself, and writes it, with FinishInitDB                        *)
NotYet ==
  \A b \in Boot : Past(b) /\ pc[b] # "ok" =>
    /\ ~Recorded
    /\ \A m \in Manager : Says(m) => m = b /\ pc[b] = "finish"
    /\ pc[b] = "finish" => "info" \in wr[b] /\ view[b] # None /\ view[b].initdb_done

(* A manager that a server uses, or is going to use, is not built again,   *)
(* and it is aware of the end of initdb or counted among the unaware       *)
InUse(s, t) ==
  /\ flag[s]
  /\ pc[<<s, t>>] \notin {"checked", "building"}
  /\ <<s, t>> \in unaware \/ initDone[<<s, t>>]

AwareInv ==
  /\ \A s \in Server : gate[s] # None => InUse(s, gate[s])
  /\ \A b \in Backend : mgr[b] # None => InUse(b[1], mgr[b])
  /\ \A b \in Backend : pc[b] = "building" => flag[b[1]]
  /\ \A b \in Backend : pc[b] = "wrote" =>
       <<b[1], mgr[b]>> \in unaware \/ view[b].initdb_done

Kept == (\E b \in Boot : pc[b] = "ok") /\ ~overwrote => Recorded

KeptInv == OneMaker /\ NotYet /\ AwareInv /\ Kept

LEMMA KeptInit == Init => KeptInv
  <1> SUFFICES ASSUME Init PROVE KeptInv
    OBVIOUS
  <1>1. \A b \in Boot : pc[b] = "down"
    BY Managers DEF Init
  <1>2. \A b \in Boot : ~Past(b)
    BY <1>1 DEF Past
  <1>3. \A b \in Backend : pc[b] # "wrote"
    BY Managers DEF Init
  <1> QED
    BY <1>1, <1>2, <1>3, Managers
       DEF Init, KeptInv, OneMaker, NotYet, AwareInv, Kept

LEMMA MakerStep == ASSUME IInv, KeptInv, [Next]_vars PROVE OneMaker'
  <1>0. TypeOK /\ DoneInv /\ OneMaker
    BY DEF IInv, KeptInv
  <1> USE Managers, StartUpAssumption
          DEF OneMaker, Past, store, gates, managers, txns, Goto
  <1>1. CASE UNCHANGED vars
    BY <1>0, <1>1 DEF vars, TypeOK
  <1>2. ASSUME NEW b \in Boot, BootUp(b) PROVE OneMaker'
    BY <1>0, <1>2 DEF BootUp, LoadAndList, Load, LoadFails, TypeOK
  <1>3. ASSUME NEW b \in Boot, BootFails(b) PROVE OneMaker'
    BY <1>0, <1>3 DEF BootFails, Exit, EndTxn, TypeOK
  <1>4. ASSUME NEW b \in Boot, MakePrimary(b) PROVE OneMaker'
    BY <1>0, <1>4 DEF MakePrimary, CreateCollection, IsNew, TypeOK
  <1>5. ASSUME NEW b \in Boot, SkipPrimary(b) PROVE OneMaker'
    BY <1>0, <1>5 DEF SkipPrimary, TypeOK
  <1>6. ASSUME NEW b \in Boot, CreateClusterSchema(b) PROVE OneMaker'
    BY <1>0, <1>6 DEF CreateClusterSchema, TypeOK
  <1>7. ASSUME NEW b \in Boot, InitClusterInfo(b) PROVE OneMaker'
    BY <1>0, <1>7 DEF InitClusterInfo, TypeOK
  <1>8. ASSUME NEW b \in Boot, InitDatabaseTable(b) PROVE OneMaker'
    BY <1>0, <1>8 DEF InitDatabaseTable, IsNew, TypeOK
  <1>9. ASSUME NEW b \in Boot, StartAgain(b) PROVE OneMaker'
    BY <1>0, <1>9 DEF StartAgain, LoadAndList, Load, TypeOK
  <1>10. ASSUME NEW b \in Boot, MakeTemplate(b) PROVE OneMaker'
    <2>1. ~initDone[b]
      BY <1>0, <1>10 DEF MakeTemplate, CreateCollection, IsNew, DoneInv, Complete, Objects
    <2> QED
      BY <1>0, <1>10, <2>1 DEF MakeTemplate, CreateCollection, TypeOK
  <1>11. ASSUME NEW b \in Boot, NameTemplate(b) PROVE OneMaker'
    BY <1>0, <1>11 DEF NameTemplate, TypeOK
  <1>12. ASSUME NEW b \in Boot, CommitTemplate(b) PROVE OneMaker'
    BY <1>0, <1>12 DEF CommitTemplate, CommitTxn, TypeOK
  <1>13. ASSUME NEW b \in Boot, CheckInitDbDone(b) PROVE OneMaker'
    BY <1>0, <1>13 DEF CheckInitDbDone, TypeOK
  <1>14. ASSUME NEW b \in Boot, BootCommand(b) PROVE OneMaker'
    BY <1>0, <1>14 DEF BootCommand, TypeOK
  <1>15. ASSUME NEW b \in Boot, FinishInitDB(b) PROVE OneMaker'
    BY <1>0, <1>15 DEF FinishInitDB, AllRun, TypeOK
  <1>16. ASSUME NEW b \in Boot, CommitFinish(b) PROVE OneMaker'
    BY <1>0, <1>16 DEF CommitFinish, CommitTxn, Exit, TypeOK
  <1>17. ASSUME NEW b \in Boot, CommitReplyLost(b) PROVE OneMaker'
    BY <1>0, <1>17 DEF CommitReplyLost, CommitTxn, Exit, TypeOK
  <1>18. ASSUME NEW b \in Backend, CheckFlag(b) PROVE OneMaker'
    BY <1>0, <1>18 DEF CheckFlag, TypeOK
  <1>19. ASSUME NEW b \in Backend, SetFlag(b) PROVE OneMaker'
    BY <1>0, <1>19 DEF SetFlag, TypeOK
  <1>20. ASSUME NEW b \in Backend, MakeGate(b) PROVE OneMaker'
    BY <1>0, <1>20 DEF MakeGate, Load, LoadFails, TypeOK
  <1>21. ASSUME NEW b \in Backend, CheckEnabled(b) PROVE OneMaker'
    BY <1>0, <1>21 DEF CheckEnabled, Enabled, TypeOK
  <1>22. ASSUME NEW b \in Backend, InitSession(b) PROVE OneMaker'
    BY <1>0, <1>22 DEF InitSession, TypeOK
  <1>23. ASSUME NEW b \in Backend, EndSession(b) PROVE OneMaker'
    BY <1>0, <1>23 DEF EndSession, TypeOK
  <1>24. ASSUME NEW b \in Backend, Begin(b) PROVE OneMaker'
    BY <1>0, <1>24 DEF Begin, TypeOK
  <1>25. ASSUME NEW b \in Backend, IncrementCatalogVersion(b) PROVE OneMaker'
    BY <1>0, <1>25 DEF IncrementCatalogVersion, TypeOK
  <1>26. ASSUME NEW b \in Backend, Commit(b) PROVE OneMaker'
    BY <1>0, <1>26 DEF Commit, CommitTxn, TypeOK
  <1>27. ASSUME NEW b \in Backend, Abort(b) PROVE OneMaker'
    BY <1>0, <1>27 DEF Abort, EndTxn, TypeOK
  <1>28. ASSUME NEW s \in Server, Crash(s) PROVE OneMaker'
    BY <1>0, <1>28 DEF Crash, TypeOK
  <1>29. ASSUME NEW b \in Boot, LocalMode(b) PROVE OneMaker'
    BY <1>0, <1>29 DEF LocalMode, TypeOK
  <1>30. ASSUME NEW b \in Boot, LocalEnd(b) PROVE OneMaker'
    BY <1>0, <1>30 DEF LocalEnd, AllRun, Exit, TypeOK
  <1> QED
    BY <1>1, <1>2, <1>3, <1>4, <1>5, <1>6, <1>7, <1>8, <1>9, <1>10,
       <1>11, <1>12, <1>13, <1>14, <1>15, <1>16, <1>17, <1>18, <1>19,
       <1>20, <1>21, <1>22, <1>23, <1>24, <1>25, <1>26, <1>27, <1>28, <1>29,
       <1>30 DEF Next

LEMMA NotYetStep == ASSUME IInv, IInv', KeptInv, [Next]_vars PROVE NotYet'
  <1>0. TypeOK /\ DoneInv /\ SessionInv /\ OneMaker /\ NotYet
    BY DEF IInv, KeptInv
  <1> USE Managers, StartUpAssumption
          DEF NotYet, Says, Recorded, Past, store, gates, managers, txns, Goto
  <1>1. CASE UNCHANGED vars
    BY <1>0, <1>1 DEF vars, TypeOK
  <1>2. ASSUME NEW b \in Boot, BootUp(b) PROVE NotYet'
    BY <1>0, <1>2 DEF BootUp, LoadAndList, Load, LoadFails, TypeOK
  <1>3. ASSUME NEW b \in Boot, BootFails(b) PROVE NotYet'
    BY <1>0, <1>3 DEF BootFails, Exit, EndTxn, TypeOK
  <1>4. ASSUME NEW b \in Boot, MakePrimary(b) PROVE NotYet'
    <2>1. ~Complete
      BY <1>4 DEF MakePrimary, CreateCollection, IsNew, Complete, Objects
    <2>2. ~Recorded /\ \A m \in Manager : ~Says(m)
      BY <1>0, <2>1 DEF DoneInv
    <2>3. ~Recorded' /\ \A m \in Manager : ~Says(m)'
      BY <1>4, <2>2 DEF MakePrimary
    <2>4. \A c \in Boot : pc'[c] = "finish" => pc[c] = "finish"
      BY <1>0, <1>4 DEF MakePrimary, TypeOK
    <2>5. \A c \in Boot : ~Past(c)
      BY <1>0, <1>4 DEF MakePrimary, CreateCollection, IsNew, OneMaker
    <2>6. \A c \in Boot : pc'[c] # "finish"
      BY <2>4, <2>5
    <2> QED
      BY <2>3, <2>6
  <1>5. ASSUME NEW b \in Boot, SkipPrimary(b) PROVE NotYet'
    BY <1>0, <1>5 DEF SkipPrimary, TypeOK
  <1>6. ASSUME NEW b \in Boot, CreateClusterSchema(b) PROVE NotYet'
    BY <1>0, <1>6 DEF CreateClusterSchema, TypeOK
  <1>7. ASSUME NEW b \in Boot, InitClusterInfo(b) PROVE NotYet'
    BY <1>0, <1>7 DEF InitClusterInfo, TypeOK
  <1>8. ASSUME NEW b \in Boot, InitDatabaseTable(b) PROVE NotYet'
    BY <1>0, <1>8 DEF InitDatabaseTable, IsNew, TypeOK
  <1>9. ASSUME NEW b \in Boot, StartAgain(b) PROVE NotYet'
    BY <1>0, <1>9 DEF StartAgain, LoadAndList, Load, TypeOK
  <1>10. ASSUME NEW b \in Boot, MakeTemplate(b) PROVE NotYet'
    <2>1. ~initDone[b]
      BY <1>0, <1>10 DEF MakeTemplate, CreateCollection, IsNew, DoneInv, Complete, Objects
    <2>2. Past(b)
      BY <1>10, <2>1 DEF MakeTemplate
    <2> QED
      BY <1>0, <1>10, <2>1, <2>2 DEF MakeTemplate, TypeOK
  <1>11. ASSUME NEW b \in Boot, NameTemplate(b) PROVE NotYet'
    BY <1>0, <1>11 DEF NameTemplate, TypeOK
  <1>12. ASSUME NEW b \in Boot, CommitTemplate(b) PROVE NotYet'
    BY <1>0, <1>12 DEF CommitTemplate, CommitTxn, TypeOK
  <1>13. ASSUME NEW b \in Boot, CheckInitDbDone(b) PROVE NotYet'
    BY <1>0, <1>13 DEF CheckInitDbDone, TypeOK
  <1>14. ASSUME NEW b \in Boot, BootCommand(b) PROVE NotYet'
    BY <1>0, <1>14 DEF BootCommand, TypeOK
  <1>15. ASSUME NEW b \in Boot, FinishInitDB(b) PROVE NotYet'
    <2>1. Past(b) /\ pc[b] # "ok" /\ pc[b] # "finish"
      BY <1>15 DEF FinishInitDB
    <2>2. ~info.initdb_done /\ ~initDone[b] /\ \A m \in Manager : ~Says(m)
      BY <1>0, <1>15, <2>1 DEF FinishInitDB
    <2> DEFINE r == [info EXCEPT !.initdb_done = TRUE]
    <2>3. r \in ClusterInfo /\ r.initdb_done
      BY <1>0, <1>15 DEF FinishInitDB, TypeOK, ClusterInfo
    <2>4. r # None
      BY <2>3
    <2>5. view' = [view EXCEPT ![b] = r]
      BY <1>15 DEF FinishInitDB
    <2> HIDE DEF r
    <2>6. view'[b] # None /\ view'[b].initdb_done
      BY <1>0, <2>3, <2>4, <2>5 DEF TypeOK
    <2>7. "info" \in wr'[b] /\ pc'[b] = "finish"
      BY <1>0, <1>15, <2>2 DEF FinishInitDB, TypeOK
    <2>8. \A m \in Manager : m # b => ~Says(m)'
      BY <1>0, <1>15, <2>2, <2>5 DEF FinishInitDB, TypeOK
    <2>9. ~Recorded'
      BY <1>15, <2>2 DEF FinishInitDB
    <2>10. \A c \in Boot : c # b => ~Past(c)'
      BY <1>0, <1>15, <2>1 DEF FinishInitDB, OneMaker, TypeOK
    <2> QED
      BY <2>6, <2>7, <2>8, <2>9, <2>10
  <1>16. ASSUME NEW b \in Boot, CommitFinish(b) PROVE NotYet'
    BY <1>0, <1>16 DEF CommitFinish, CommitTxn, Exit, TypeOK
  <1>17. ASSUME NEW b \in Boot, CommitReplyLost(b) PROVE NotYet'
    BY <1>0, <1>17 DEF CommitReplyLost, CommitTxn, Exit, TypeOK
  <1>18. ASSUME NEW b \in Backend, CheckFlag(b) PROVE NotYet'
    BY <1>0, <1>18 DEF CheckFlag, TypeOK
  <1>19. ASSUME NEW b \in Backend, SetFlag(b) PROVE NotYet'
    BY <1>0, <1>19 DEF SetFlag, TypeOK
  <1>20. ASSUME NEW b \in Backend, MakeGate(b) PROVE NotYet'
    BY <1>0, <1>20 DEF MakeGate, Load, LoadFails, TypeOK
  <1>21. ASSUME NEW b \in Backend, CheckEnabled(b) PROVE NotYet'
    BY <1>0, <1>21 DEF CheckEnabled, Enabled, TypeOK
  <1>22. ASSUME NEW b \in Backend, InitSession(b) PROVE NotYet'
    BY <1>0, <1>22 DEF InitSession, TypeOK
  <1>23. ASSUME NEW b \in Backend, EndSession(b) PROVE NotYet'
    BY <1>0, <1>23 DEF EndSession, TypeOK
  <1>24. ASSUME NEW b \in Backend, Begin(b) PROVE NotYet'
    BY <1>0, <1>24 DEF Begin, TypeOK
  <1>25. ASSUME NEW b \in Backend, IncrementCatalogVersion(b) PROVE NotYet'
    <2>1. /\ <<b[1], mgr[b]>> \in Manager
          /\ view' = [view EXCEPT ![b] = view'[b]]
          /\ view'[b].initdb_done = initDone[<<b[1], mgr[b]>>]
      BY <1>0, <1>25, IncrementedRecord
    <2>2. ASSUME NEW c \in Boot, Past(c)', pc'[c] # "ok"
          PROVE  Past(c) /\ pc[c] # "ok" /\ c # b /\ pc'[c] = pc[c]
      BY <1>0, <1>25, <2>2 DEF IncrementCatalogVersion, TypeOK
    <2>3. ASSUME NEW c \in Boot, Past(c), pc[c] # "ok", c # b
          PROVE  ~Says(b)'
      <3>1. ~initDone[b]
        BY <1>0, <2>3
      <3>2. <<b[1], mgr[b]>> # c
        BY <1>0, <1>25 DEF IncrementCatalogVersion, SessionInv, TypeOK
      <3>3. ~initDone[<<b[1], mgr[b]>>]
        BY <1>0, <2>1, <2>3, <3>2
      <3> QED
        BY <1>25, <2>1, <3>1, <3>3 DEF IncrementCatalogVersion
    <2>4. \A m \in Manager : m # b => (Says(m)' <=> Says(m)) /\ view'[m] = view[m] /\ wr'[m] = wr[m]
      BY <1>0, <1>25, <2>1 DEF IncrementCatalogVersion, TypeOK
    <2>5. Recorded' <=> Recorded
      BY <1>25 DEF IncrementCatalogVersion
    <2> HIDE DEF Says, Recorded, Past
    <2> QED
      BY <1>0, <2>2, <2>3, <2>4, <2>5
  <1>26. ASSUME NEW b \in Backend, Commit(b) PROVE NotYet'
    BY <1>0, <1>26 DEF Commit, CommitTxn, TypeOK
  <1>27. ASSUME NEW b \in Backend, Abort(b) PROVE NotYet'
    BY <1>0, <1>27 DEF Abort, EndTxn, TypeOK
  <1>28. ASSUME NEW s \in Server, Crash(s) PROVE NotYet'
    BY <1>0, <1>28 DEF Crash, TypeOK
  <1>29. ASSUME NEW b \in Boot, LocalMode(b) PROVE NotYet'
    BY <1>0, <1>29 DEF LocalMode, TypeOK
  <1>30. ASSUME NEW b \in Boot, LocalEnd(b) PROVE NotYet'
    BY <1>0, <1>30 DEF LocalEnd, AllRun, Exit, TypeOK
  <1> QED
    BY <1>1, <1>2, <1>3, <1>4, <1>5, <1>6, <1>7, <1>8, <1>9, <1>10,
       <1>11, <1>12, <1>13, <1>14, <1>15, <1>16, <1>17, <1>18, <1>19,
       <1>20, <1>21, <1>22, <1>23, <1>24, <1>25, <1>26, <1>27, <1>28, <1>29,
       <1>30 DEF Next

(* What a bootstrap process does leaves the servers as they are *)
OthersStay ==
  /\ UNCHANGED gates
  /\ \A m \in Backend :
       /\ pc'[m] = pc[m] /\ view'[m] = view[m] /\ initDone'[m] = initDone[m]
       /\ m \in unaware' <=> m \in unaware

LEMMA AwareStays == ASSUME TypeOK, SessionInv, AwareInv, OthersStay PROVE AwareInv'
  <1>1. UNCHANGED <<flag, gate, mgr>>
    BY DEF OthersStay, gates
  <1>2. \A s \in Server, t \in Thread : InUse(s, t) => InUse(s, t)'
    BY <1>1, Managers DEF InUse, OthersStay
  <1>3. \A s \in Server : gate[s] # None => InUse(s, gate[s])'
    BY <1>1, <1>2 DEF AwareInv, TypeOK, InUse
  <1>4. \A b \in Backend : mgr[b] # None => InUse(b[1], mgr[b])'
    BY <1>1, <1>2, Managers DEF AwareInv, TypeOK, InUse
  <1>5. \A b \in Backend : pc'[b] = "building" => flag'[b[1]]
    BY <1>1 DEF AwareInv, OthersStay
  <1>6. \A b \in Backend : pc[b] = "wrote" /\ mgr[b] # None =>
          (<<b[1], mgr[b]>> \in unaware' <=> <<b[1], mgr[b]>> \in unaware)
    BY Managers DEF OthersStay, TypeOK
  <1>7. \A b \in Backend : pc'[b] = "wrote" =>
          <<b[1], mgr'[b]>> \in unaware' \/ view'[b].initdb_done
    BY <1>1, <1>6 DEF AwareInv, OthersStay, SessionInv
  <1> QED
    BY <1>1, <1>3, <1>4, <1>5, <1>7 DEF AwareInv, InUse

LEMMA AwareStep == ASSUME IInv, KeptInv, [Next]_vars PROVE AwareInv'
  <1>0. TypeOK /\ SessionInv /\ AwareInv
    BY DEF IInv, KeptInv
  <1> USE Managers, StartUpAssumption
          DEF AwareInv, InUse, store, gates, managers, txns, Goto
  <1>1. CASE UNCHANGED vars
    BY <1>0, <1>1 DEF vars, TypeOK
  <1>2. ASSUME NEW b \in Boot, BootUp(b) PROVE AwareInv'
    <2>1. OthersStay
      BY <1>0, <1>2 DEF BootUp, LoadAndList, Load, LoadFails, OthersStay, TypeOK
    <2> QED
      BY <1>0, <2>1, AwareStays
  <1>3. ASSUME NEW b \in Boot, BootFails(b) PROVE AwareInv'
    <2>1. OthersStay
      BY <1>0, <1>3 DEF BootFails, Exit, EndTxn, OthersStay, TypeOK
    <2> QED
      BY <1>0, <2>1, AwareStays
  <1>4. ASSUME NEW b \in Boot, MakePrimary(b) PROVE AwareInv'
    BY <1>0, <1>4 DEF MakePrimary, CreateCollection, IsNew, TypeOK
  <1>5. ASSUME NEW b \in Boot, SkipPrimary(b) PROVE AwareInv'
    BY <1>0, <1>5 DEF SkipPrimary, TypeOK
  <1>6. ASSUME NEW b \in Boot, CreateClusterSchema(b) PROVE AwareInv'
    BY <1>0, <1>6 DEF CreateClusterSchema, TypeOK
  <1>7. ASSUME NEW b \in Boot, InitClusterInfo(b) PROVE AwareInv'
    BY <1>0, <1>7 DEF InitClusterInfo, TypeOK
  <1>8. ASSUME NEW b \in Boot, InitDatabaseTable(b) PROVE AwareInv'
    BY <1>0, <1>8 DEF InitDatabaseTable, IsNew, TypeOK
  <1>9. ASSUME NEW b \in Boot, StartAgain(b) PROVE AwareInv'
    <2>1. OthersStay
      BY <1>0, <1>9 DEF StartAgain, LoadAndList, Load, OthersStay, TypeOK
    <2> QED
      BY <1>0, <2>1, AwareStays
  <1>10. ASSUME NEW b \in Boot, MakeTemplate(b) PROVE AwareInv'
    BY <1>0, <1>10 DEF MakeTemplate, CreateCollection, IsNew, TypeOK
  <1>11. ASSUME NEW b \in Boot, NameTemplate(b) PROVE AwareInv'
    BY <1>0, <1>11 DEF NameTemplate, TypeOK
  <1>12. ASSUME NEW b \in Boot, CommitTemplate(b) PROVE AwareInv'
    BY <1>0, <1>12 DEF CommitTemplate, CommitTxn, TypeOK
  <1>13. ASSUME NEW b \in Boot, CheckInitDbDone(b) PROVE AwareInv'
    BY <1>0, <1>13 DEF CheckInitDbDone, TypeOK
  <1>14. ASSUME NEW b \in Boot, BootCommand(b) PROVE AwareInv'
    BY <1>0, <1>14 DEF BootCommand, TypeOK
  <1>15. ASSUME NEW b \in Boot, FinishInitDB(b) PROVE AwareInv'
    BY <1>0, <1>15 DEF FinishInitDB, AllRun, TypeOK
  <1>16. ASSUME NEW b \in Boot, CommitFinish(b) PROVE AwareInv'
    <2>1. \A m \in Backend : m \in Manager /\ m # b
      OBVIOUS
    <2>2. \A m \in Backend : pc'[m] = pc[m] /\ initDone'[m] = initDone[m]
      BY <1>0, <1>16, <2>1 DEF CommitFinish, Exit, TypeOK
    <2>3. \A m \in Backend : view'[m] = view[m]
      BY <1>0, <1>16, <2>1 DEF CommitFinish, CommitTxn, TypeOK
    <2>4. \A m \in Backend : m \in unaware' <=> m \in unaware
      BY <1>16, <2>1 DEF CommitFinish, Exit
    <2>5. UNCHANGED gates
      BY <1>16 DEF CommitFinish
    <2>6. OthersStay
      BY <2>2, <2>3, <2>4, <2>5 DEF OthersStay
    <2> QED
      BY <1>0, <2>6, AwareStays
  <1>17. ASSUME NEW b \in Boot, CommitReplyLost(b) PROVE AwareInv'
    <2>1. \A m \in Backend : m \in Manager /\ m # b
      OBVIOUS
    <2>2. \A m \in Backend : pc'[m] = pc[m] /\ initDone'[m] = initDone[m]
      BY <1>0, <1>17, <2>1 DEF CommitReplyLost, Exit, TypeOK
    <2>3. \A m \in Backend : view'[m] = view[m]
      BY <1>0, <1>17, <2>1 DEF CommitReplyLost, CommitTxn, TypeOK
    <2>4. \A m \in Backend : m \in unaware' <=> m \in unaware
      BY <1>17, <2>1 DEF CommitReplyLost, Exit
    <2>5. UNCHANGED gates
      BY <1>17 DEF CommitReplyLost
    <2>6. OthersStay
      BY <2>2, <2>3, <2>4, <2>5 DEF OthersStay
    <2> QED
      BY <1>0, <2>6, AwareStays
  <1>18. ASSUME NEW b \in Backend, CheckFlag(b) PROVE AwareInv'
    BY <1>0, <1>18 DEF CheckFlag, TypeOK
  <1>19. ASSUME NEW b \in Backend, SetFlag(b) PROVE AwareInv'
    BY <1>0, <1>19 DEF SetFlag, TypeOK
  <1>20. ASSUME NEW b \in Backend, MakeGate(b) PROVE AwareInv'
    <2>1. b \in unaware' \/ initDone'[b]
      BY <1>0, <1>20 DEF MakeGate, Load, LoadFails, TypeOK
    <2>2. \A m \in Manager : m # b =>
            /\ pc'[m] = pc[m] /\ view'[m] = view[m] /\ initDone'[m] = initDone[m]
            /\ m \in unaware' <=> m \in unaware
      BY <1>0, <1>20 DEF MakeGate, Load, LoadFails, TypeOK
    <2>3. pc'[b] = "ready" /\ b = <<b[1], b[2]>>
      BY <1>0, <1>20 DEF MakeGate, TypeOK, Backend
    <2>4. flag'[b[1]]
      BY <1>0, <1>20 DEF MakeGate, AwareInv
    <2>5. \A t \in Thread : InUse(b[1], t) => t # b[2]
      BY <1>20, <2>3 DEF MakeGate
    <2>6. \A t \in Thread, r \in Server : InUse(r, t) => InUse(r, t)'
      <3> SUFFICES ASSUME NEW t \in Thread, NEW r \in Server, InUse(r, t)
                   PROVE  InUse(r, t)'
        OBVIOUS
      <3>1. <<r, t>> \in Manager /\ <<r, t>> # b /\ flag' = flag
        BY <1>20, <2>5 DEF MakeGate
      <3> QED
        BY <2>2, <3>1
    <2>7. \A c \in Backend : mgr[c] # None => InUse(c[1], mgr[c]) /\ mgr[c] \in Thread
      BY <1>0 DEF TypeOK
    <2>8. \A r \in Server : gate[r] # None => InUse(r, gate[r]) /\ gate[r] \in Thread
      BY <1>0 DEF TypeOK
    <2>9. InUse(b[1], b[2])'
      BY <2>1, <2>3, <2>4
    <2>10. /\ mgr' = mgr /\ flag' = flag /\ b[2] \in Thread /\ b[1] \in Server
           /\ gate' = [gate EXCEPT ![b[1]] = b[2]]
      BY <1>20 DEF MakeGate
    <2>11. \A c \in Backend : mgr'[c] # None => InUse(c[1], mgr[c])'
      BY <2>6, <2>7, <2>10
    <2>12. \A r \in Server : gate'[r] # None => InUse(r, gate[r])'
      BY <1>0, <2>6, <2>8, <2>9, <2>10 DEF TypeOK
    <2>13. \A c \in Backend : pc'[c] = "building" => flag'[c[1]]
      BY <1>0, <2>2, <2>3, <2>10
    <2>14. \A c \in Backend : pc'[c] = "wrote" =>
             <<c[1], mgr'[c]>> \in unaware' \/ view'[c].initdb_done
      <3> SUFFICES ASSUME NEW c \in Backend, pc'[c] = "wrote"
                   PROVE  <<c[1], mgr[c]>> \in unaware' \/ view[c].initdb_done
        BY <2>2, <2>3, <2>10
      <3>1. pc[c] = "wrote" /\ mgr[c] # None
        BY <1>0, <2>2, <2>3 DEF SessionInv
      <3>2. <<c[1], mgr[c]>> \in Manager /\ <<c[1], mgr[c]>> # b
        BY <2>5, <2>7, <3>1
      <3> QED
        BY <1>0, <2>2, <3>1, <3>2
    <2> QED
      BY <2>11, <2>12, <2>13, <2>14
  <1>21. ASSUME NEW b \in Backend, CheckEnabled(b) PROVE AwareInv'
    BY <1>0, <1>21 DEF CheckEnabled, Enabled, TypeOK
  <1>22. ASSUME NEW b \in Backend, InitSession(b) PROVE AwareInv'
    BY <1>0, <1>22 DEF InitSession, TypeOK
  <1>23. ASSUME NEW b \in Backend, EndSession(b) PROVE AwareInv'
    BY <1>0, <1>23 DEF EndSession, TypeOK
  <1>24. ASSUME NEW b \in Backend, Begin(b) PROVE AwareInv'
    BY <1>0, <1>24 DEF Begin, TypeOK
  <1>25. ASSUME NEW b \in Backend, IncrementCatalogVersion(b) PROVE AwareInv'
    <2>1. /\ view' = [view EXCEPT ![b] = view'[b]]
          /\ view'[b].initdb_done = initDone[<<b[1], mgr[b]>>]
      BY <1>0, <1>25, IncrementedRecord
    <2>2. \A m \in Manager : m # b => view'[m] = view[m] /\ pc'[m] = pc[m]
      BY <1>0, <1>25, <2>1 DEF IncrementCatalogVersion, TypeOK
    <2>3. pc[b] = "begun" /\ pc'[b] = "wrote" /\ mgr[b] # None
      BY <1>0, <1>25 DEF IncrementCatalogVersion, TypeOK, SessionInv
    <2>4. UNCHANGED <<flag, gate, mgr, unaware, initDone>>
      BY <1>25 DEF IncrementCatalogVersion
    <2>5. \A m \in Manager :
            pc'[m] \in {"checked", "building"} <=> pc[m] \in {"checked", "building"}
      BY <2>2, <2>3
    <2> QED
      BY <1>0, <2>1, <2>2, <2>3, <2>4, <2>5 DEF TypeOK
  <1>26. ASSUME NEW b \in Backend, Commit(b) PROVE AwareInv'
    BY <1>0, <1>26 DEF Commit, CommitTxn, TypeOK
  <1>27. ASSUME NEW b \in Backend, Abort(b) PROVE AwareInv'
    BY <1>0, <1>27 DEF Abort, EndTxn, TypeOK
  <1>28. ASSUME NEW s \in Server, Crash(s) PROVE AwareInv'
    BY <1>0, <1>28 DEF Crash, TypeOK
  <1>29. ASSUME NEW b \in Boot, LocalMode(b) PROVE AwareInv'
    BY <1>0, <1>29 DEF LocalMode, TypeOK
  <1>30. ASSUME NEW b \in Boot, LocalEnd(b) PROVE AwareInv'
    <2>1. OthersStay
      BY <1>0, <1>30 DEF LocalEnd, AllRun, Exit, OthersStay, TypeOK
    <2> QED
      BY <1>0, <2>1, AwareStays
  <1> QED
    BY <1>1, <1>2, <1>3, <1>4, <1>5, <1>6, <1>7, <1>8, <1>9, <1>10,
       <1>11, <1>12, <1>13, <1>14, <1>15, <1>16, <1>17, <1>18, <1>19,
       <1>20, <1>21, <1>22, <1>23, <1>24, <1>25, <1>26, <1>27, <1>28, <1>29,
       <1>30 DEF Next

LEMMA KeptStep == ASSUME IInv, KeptInv, [Next]_vars PROVE Kept'
  <1>0. TypeOK /\ SessionInv /\ OneMaker /\ NotYet /\ AwareInv /\ Kept
    BY DEF IInv, KeptInv
  <1> USE Managers, StartUpAssumption
          DEF Kept, Recorded, store, gates, managers, txns, Goto
  <1>1. CASE UNCHANGED vars
    BY <1>0, <1>1 DEF vars, TypeOK
  <1>2. ASSUME NEW b \in Boot, BootUp(b) PROVE Kept'
    BY <1>0, <1>2 DEF BootUp, LoadAndList, Load, LoadFails, TypeOK
  <1>3. ASSUME NEW b \in Boot, BootFails(b) PROVE Kept'
    BY <1>0, <1>3 DEF BootFails, Exit, EndTxn, TypeOK
  <1>4. ASSUME NEW b \in Boot, MakePrimary(b) PROVE Kept'
    BY <1>0, <1>4 DEF MakePrimary, CreateCollection, IsNew, TypeOK
  <1>5. ASSUME NEW b \in Boot, SkipPrimary(b) PROVE Kept'
    BY <1>0, <1>5 DEF SkipPrimary, TypeOK
  <1>6. ASSUME NEW b \in Boot, CreateClusterSchema(b) PROVE Kept'
    BY <1>0, <1>6 DEF CreateClusterSchema, TypeOK
  <1>7. ASSUME NEW b \in Boot, InitClusterInfo(b) PROVE Kept'
    BY <1>0, <1>7 DEF InitClusterInfo, TypeOK
  <1>8. ASSUME NEW b \in Boot, InitDatabaseTable(b) PROVE Kept'
    BY <1>0, <1>8 DEF InitDatabaseTable, IsNew, TypeOK
  <1>9. ASSUME NEW b \in Boot, StartAgain(b) PROVE Kept'
    BY <1>0, <1>9 DEF StartAgain, LoadAndList, Load, TypeOK
  <1>10. ASSUME NEW b \in Boot, MakeTemplate(b) PROVE Kept'
    BY <1>0, <1>10 DEF MakeTemplate, CreateCollection, IsNew, TypeOK
  <1>11. ASSUME NEW b \in Boot, NameTemplate(b) PROVE Kept'
    BY <1>0, <1>11 DEF NameTemplate, TypeOK
  <1>12. ASSUME NEW b \in Boot, CommitTemplate(b) PROVE Kept'
    <2>1. Past(b) /\ pc[b] # "ok"
      BY <1>12 DEF CommitTemplate, Past
    <2>2. \A c \in Boot : pc[c] # "ok"
      BY <1>0, <2>1 DEF OneMaker, Past
    <2> QED
      BY <1>0, <1>12, <2>2 DEF CommitTemplate, TypeOK
  <1>13. ASSUME NEW b \in Boot, CheckInitDbDone(b) PROVE Kept'
    BY <1>0, <1>13 DEF CheckInitDbDone, TypeOK
  <1>14. ASSUME NEW b \in Boot, BootCommand(b) PROVE Kept'
    BY <1>0, <1>14 DEF BootCommand, TypeOK
  <1>15. ASSUME NEW b \in Boot, FinishInitDB(b) PROVE Kept'
    BY <1>0, <1>15 DEF FinishInitDB, AllRun, TypeOK
  <1>16. ASSUME NEW b \in Boot, CommitFinish(b) PROVE Kept'
    <2>1. Past(b) /\ pc[b] = "finish"
      BY <1>16 DEF CommitFinish, Past
    <2>2. "info" \in wr[b] /\ view[b] # None /\ view[b].initdb_done
      BY <1>0, <2>1 DEF NotYet
    <2> QED
      BY <1>16, <2>2 DEF CommitFinish, CommitTxn
  <1>17. ASSUME NEW b \in Boot, CommitReplyLost(b) PROVE Kept'
    <2>1. Past(b) /\ pc[b] # "ok"
      BY <1>17 DEF CommitReplyLost, Past
    <2>2. \A c \in Boot : pc[c] # "ok"
      BY <1>0, <2>1 DEF OneMaker, Past
    <2> QED
      BY <1>0, <1>17, <2>2 DEF CommitReplyLost, Exit, TypeOK
  <1>18. ASSUME NEW b \in Backend, CheckFlag(b) PROVE Kept'
    BY <1>0, <1>18 DEF CheckFlag, TypeOK
  <1>19. ASSUME NEW b \in Backend, SetFlag(b) PROVE Kept'
    BY <1>0, <1>19 DEF SetFlag, TypeOK
  <1>20. ASSUME NEW b \in Backend, MakeGate(b) PROVE Kept'
    BY <1>0, <1>20 DEF MakeGate, Load, LoadFails, TypeOK
  <1>21. ASSUME NEW b \in Backend, CheckEnabled(b) PROVE Kept'
    BY <1>0, <1>21 DEF CheckEnabled, Enabled, TypeOK
  <1>22. ASSUME NEW b \in Backend, InitSession(b) PROVE Kept'
    BY <1>0, <1>22 DEF InitSession, TypeOK
  <1>23. ASSUME NEW b \in Backend, EndSession(b) PROVE Kept'
    BY <1>0, <1>23 DEF EndSession, TypeOK
  <1>24. ASSUME NEW b \in Backend, Begin(b) PROVE Kept'
    BY <1>0, <1>24 DEF Begin, TypeOK
  <1>25. ASSUME NEW b \in Backend, IncrementCatalogVersion(b) PROVE Kept'
    BY <1>0, <1>25 DEF IncrementCatalogVersion, TypeOK
  <1>26. ASSUME NEW b \in Backend, Commit(b) PROVE Kept'
    <2>1. \A c \in Boot : pc'[c] = "ok" => pc[c] = "ok"
      BY <1>0, <1>26 DEF Commit, TypeOK
    <2>2. (view[b] # None /\ view[b].initdb_done) \/ <<b[1], mgr[b]>> \in unaware
      BY <1>0, <1>26 DEF Commit, AwareInv, SessionInv
    <2>3. view[b] # None
      BY <1>0, <1>26 DEF Commit, SessionInv
    <2>4. info' = info \/ info' = view[b]
      BY <1>26 DEF Commit, CommitTxn
    <2> QED
      BY <1>0, <1>26, <2>1, <2>2, <2>3, <2>4 DEF Commit
  <1>27. ASSUME NEW b \in Backend, Abort(b) PROVE Kept'
    BY <1>0, <1>27 DEF Abort, EndTxn, TypeOK
  <1>28. ASSUME NEW s \in Server, Crash(s) PROVE Kept'
    BY <1>0, <1>28 DEF Crash, TypeOK
  <1>29. ASSUME NEW b \in Boot, LocalMode(b) PROVE Kept'
    BY <1>0, <1>29 DEF LocalMode, TypeOK
  <1>30. ASSUME NEW b \in Boot, LocalEnd(b) PROVE Kept'
    BY <1>0, <1>30 DEF LocalEnd, AllRun, Exit, TypeOK
  <1> QED
    BY <1>1, <1>2, <1>3, <1>4, <1>5, <1>6, <1>7, <1>8, <1>9, <1>10,
       <1>11, <1>12, <1>13, <1>14, <1>15, <1>16, <1>17, <1>18, <1>19,
       <1>20, <1>21, <1>22, <1>23, <1>24, <1>25, <1>26, <1>27, <1>28, <1>29,
       <1>30 DEF Next

LEMMA KeptInductive == Spec => []KeptInv
  <1>1. IInv /\ IInv' /\ KeptInv /\ [Next]_vars => KeptInv'
    BY MakerStep, NotYetStep, AwareStep, KeptStep DEF KeptInv
  <1> QED
    BY Inductive, KeptInit, <1>1, PTL DEF Spec

(* Once a run of initdb has ended well, the cluster record says so for as  *)
(* long as no session commits it through a manager that came up without    *)
(* hearing of it, for any number of runs, servers and threads.             *)
THEOREM DoneIsKept == Spec => []DoneKeptByTheAware
  <1>1. KeptInv => DoneKeptByTheAware
    BY DEF KeptInv, Kept, Recorded, DoneKeptByTheAware
  <1> QED
    BY KeptInductive, <1>1, PTL
=============================================================================
