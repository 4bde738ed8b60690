------------------------------- MODULE StartUp -------------------------------
(***************************************************************************)
(* How a K2 cluster and the gaussdb processes on it come up.               *)
(*                                                                         *)
(* initdb starts a bootstrap process (bootstrap.cpp).  It makes the        *)
(* primary collection, the cluster record and template1, fills the system  *)
(* catalogs command by command, and sets initdb_done.  Collections and     *)
(* schemas are not transactional, the records are; the process may fail    *)
(* after every call, and initdb may be run again, or twice at once.  With  *)
(* K2PG_LOCAL_NODE_INITDB set it leaves the cluster alone.                 *)
(*                                                                         *)
(* In a server every thread calls PgGate_InitPgGate and then opens its     *)
(* session (k2pg_aux.cpp).  The gate holds the SqlCatalogManager, which    *)
(* reads the cluster record when it starts and writes it with every change *)
(* of the catalog.                                                         *)
(***************************************************************************)
EXTENDS Naturals

CONSTANTS
  Boot,        \* bootstrap processes, one for each run of initdb
  Server,      \* gaussdb servers
  Thread,      \* threads of a server
  Commands,    \* number of commands in the bootstrap file
  MaxVersion,  \* bound on the catalog version
  None

Backend == Server \X Thread

(* A manager belongs to a bootstrap process, or to the thread that made it *)
Manager == Boot \cup Backend

(* collections and schemas: of the primary cluster and of template1 *)
Objects == {"primary", "cluster_info", "database_info", "template1", "meta"}

ClusterInfo == [catalog_version : 0..MaxVersion, initdb_done : BOOLEAN]

ASSUME StartUpAssumption ==
  /\ Commands \in Nat \ {0}
  /\ MaxVersion \in Nat
  /\ None \notin Thread \cup ClusterInfo
  /\ Boot \cap Backend = {}

VARIABLES
  made,      \* objects that exist
  info,      \* the committed cluster record
  tdb,       \* is the DatabaseInfo record of template1 committed
  rows,      \* bootstrap commands whose rows are committed
  flag,      \* flag[s]: pg_gate_initialized
  gate,      \* gate[s]: pg_gate, by the thread that made it
  pc,        \* where a bootstrap process, or a thread, is
  step,      \* step[b]: bootstrap commands b has run
  initDone,  \* init_db_done_ of a manager
  version,   \* of the manager of a bootstrap process: catalog_version_,
  started,   \*   initted_,
  cached,    \*   and whether template1 is in its caches
  mgr,       \* mgr[t]: the thread whose manager the session of t uses
  view,      \* the cluster record as an open transaction sees it
  wr,        \* the records it has written
  behind,    \* has another one committed the cluster record since it began
  unaware,   \* managers whose Start did not find initdb_done set
  overwrote  \* has a session of such a manager committed the cluster record

store == <<made, info, tdb, rows>>
gates == <<flag, gate, mgr>>
managers == <<initDone, version, started, cached, unaware>>
txns == <<view, wr, behind>>
vars == <<made, info, tdb, rows, flag, gate, pc, step, initDone, version,
          started, cached, mgr, view, wr, behind, unaware, overwrote>>

BootStates == {"down", "up", "collection", "schema", "record", "tables", "init",
               "template", "named", "check", "boot", "finish", "ok", "already", "failed",
               "local", "localboot", "ran"}
ThreadStates == {"new", "checked", "building", "ready", "enabled", "session",
                 "begun", "wrote", "dead"}

TypeOK ==
  /\ made \subseteq Objects
  /\ info \in ClusterInfo \cup {None}
  /\ tdb \in BOOLEAN
  /\ rows \subseteq 1..Commands
  /\ flag \in [Server -> BOOLEAN]
  /\ gate \in [Server -> Thread \cup {None}]
  /\ pc \in [Manager -> BootStates \cup ThreadStates]
  /\ step \in [Boot -> 0..Commands]
  /\ initDone \in [Manager -> BOOLEAN]
  /\ version \in [Boot -> 0..MaxVersion]
  /\ started \in [Boot -> BOOLEAN]
  /\ cached \in [Boot -> BOOLEAN]
  /\ mgr \in [Backend -> Thread \cup {None}]
  /\ view \in [Manager -> ClusterInfo \cup {None}]
  /\ wr \in [Manager -> SUBSET {"info", "tdb"}]
  /\ behind \in [Manager -> BOOLEAN]
  /\ unaware \subseteq Manager
  /\ overwrote \in BOOLEAN

(* An empty store; every process is yet to start *)
Init ==
  /\ made = {} /\ info = None /\ tdb = FALSE /\ rows = {}
  /\ flag = [s \in Server |-> FALSE]
  /\ gate = [s \in Server |-> None]
  /\ pc = [m \in Manager |-> IF m \in Boot THEN "down" ELSE "new"]
  /\ step = [b \in Boot |-> 0]
  /\ initDone = [m \in Manager |-> FALSE]
  /\ version = [b \in Boot |-> 0]
  /\ started = [b \in Boot |-> FALSE]
  /\ cached = [b \in Boot |-> FALSE]
  /\ mgr = [t \in Backend |-> None]
  /\ view = [m \in Manager |-> None]
  /\ wr = [m \in Manager |-> {}]
  /\ behind = [m \in Manager |-> FALSE]
  /\ unaware = {} /\ overwrote = FALSE

Goto(m, l) == pc' = [pc EXCEPT ![m] = l]

-----------------------------------------------------------------------------
(* SKV *)

(* the cluster record may be written *)
CanWrite(m) ==
  /\ ~behind[m]
  /\ \A r \in Manager \ {m} : "info" \notin wr[r]

(* the transaction of m is gone *)
EndTxn(m) ==
  /\ view' = [view EXCEPT ![m] = None]
  /\ wr' = [wr EXCEPT ![m] = {}]
  /\ behind' = [behind EXCEPT ![m] = FALSE]

CommitTxn(m) ==
  /\ info' = IF "info" \in wr[m] THEN view[m] ELSE info
  /\ tdb' = (tdb \/ "tdb" \in wr[m])
  /\ view' = [view EXCEPT ![m] = None]
  /\ wr' = [wr EXCEPT ![m] = {}]
  /\ behind' = [r \in Manager |->
       r # m /\ (behind[r] \/ ("info" \in wr[m] /\ view[r] # None))]

(* mutant: what is there already is as good as new *)
IsNewAlways(x) == TRUE

(* createCollection fails, and getSchema succeeds, for what is there *)
IsNew(x) == x \notin made

CreateCollection(c) ==
  /\ IsNew(c)
  /\ made' = made \cup {c}

-----------------------------------------------------------------------------
(* SqlCatalogManager::Start.  What a server keeps of the databases and of  *)
(* the catalog version is in Databases and in CatalogVersion.              *)

(* mutant: initdb_done is not taken over *)
LoadVersionOnly(m, r) ==
  /\ r # None
  /\ unaware' = IF r.initdb_done THEN unaware \ {m} ELSE unaware \cup {m}
  /\ UNCHANGED initDone

(* the cluster record r is read *)
Load(m, r) ==
  /\ r # None
  /\ initDone' = [initDone EXCEPT ![m] = r.initdb_done]
  /\ unaware' = IF r.initdb_done THEN unaware \ {m} ELSE unaware \cup {m}

(* it is not there, or cannot be read *)
LoadFails(m) ==
  /\ unaware' = unaware \cup {m}
  /\ UNCHANGED initDone

(* In a bootstrap process: then the databases are listed, or that fails *)
LoadAndList(b, r) ==
  /\ Load(b, r)
  /\ version' = [version EXCEPT ![b] = r.catalog_version]
  /\ \/ /\ "database_info" \in made
        /\ started' = [started EXCEPT ![b] = TRUE]
        /\ cached' = [cached EXCEPT ![b] = tdb]
     \/ UNCHANGED <<started, cached>>

-----------------------------------------------------------------------------
(* The bootstrap process *)

BootUp(b) ==
  /\ pc[b] = "down"
  /\ \/ LoadAndList(b, info)
     \/ LoadFails(b) /\ UNCHANGED <<version, started, cached>>
  /\ Goto(b, "up")
  /\ UNCHANGED <<store, gates, step, txns, overwrote>>

(* the process ends *)
Exit(b, l) ==
  /\ Goto(b, l)
  /\ initDone' = [initDone EXCEPT ![b] = FALSE]
  /\ version' = [version EXCEPT ![b] = 0]
  /\ started' = [started EXCEPT ![b] = FALSE]
  /\ cached' = [cached EXCEPT ![b] = FALSE]
  /\ unaware' = unaware \ {b}

(* An ERROR or a crash; what the process has made stays *)
BootFails(b) ==
  /\ pc[b] \notin {"down", "ok", "already", "failed", "ran"}
  /\ Exit(b, "failed")
  /\ EndTxn(b)
  /\ UNCHANGED <<store, gates, step, overwrote>>

(* InitPrimaryCluster, if initdb is not known to be done *)
MakePrimary(b) ==
  /\ pc[b] = "up" /\ ~initDone[b]
  /\ CreateCollection("primary")
  /\ Goto(b, "collection")
  /\ UNCHANGED <<info, tdb, rows, gates, step, managers, txns, overwrote>>

SkipPrimary(b) ==
  /\ pc[b] = "up" /\ initDone[b]
  /\ Goto(b, "init")
  /\ UNCHANGED <<store, gates, step, managers, txns, overwrote>>

(* InitClusterInfo: the schema, and the record in a transaction *)
CreateClusterSchema(b) ==
  /\ pc[b] = "collection"
  /\ made' = made \cup {"cluster_info"}
  /\ Goto(b, "schema")
  /\ UNCHANGED <<info, tdb, rows, gates, step, managers, txns, overwrote>>

InitClusterInfo(b) ==
  /\ pc[b] = "schema"
  /\ CanWrite(b)
  /\ view' = [view EXCEPT ![b] = [catalog_version |-> version[b], initdb_done |-> FALSE]]
  /\ wr' = [wr EXCEPT ![b] = {"info"}]
  /\ Goto(b, "record")
  /\ UNCHANGED <<store, gates, step, managers, behind, overwrote>>

InitDatabaseTable(b) ==
  /\ pc[b] = "record"
  /\ IsNew("database_info")
  /\ made' = made \cup {"database_info"}
  /\ Goto(b, "tables")
  /\ UNCHANGED <<info, tdb, rows, gates, step, managers, txns, overwrote>>

(* the manager starts again and reads its own record, or BootFails *)
StartAgain(b) ==
  /\ pc[b] = "tables"
  /\ LoadAndList(b, view[b])
  /\ started'[b]
  /\ Goto(b, "init")
  /\ UNCHANGED <<store, gates, step, txns, overwrote>>

(* CreateDatabase of template1, which has no source.  It is refused if the *)
(* caches, or the list of databases, have it; a list that fails has nothing *)
MakeTemplate(b) ==
  /\ pc[b] = "init" /\ ~cached[b]
  /\ CreateCollection("template1")
  /\ Goto(b, "template")
  /\ UNCHANGED <<info, tdb, rows, gates, step, managers, txns, overwrote>>

NameTemplate(b) ==
  /\ pc[b] = "template"
  /\ made' = made \cup {"meta"}
  /\ wr' = [wr EXCEPT ![b] = @ \cup {"tdb"}]
  /\ cached' = [cached EXCEPT ![b] = TRUE]
  /\ Goto(b, "named")
  /\ UNCHANGED <<info, tdb, rows, gates, step, initDone, version, started,
                 view, behind, unaware, overwrote>>

CommitTemplate(b) ==
  /\ pc[b] = "named"
  /\ CommitTxn(b)
  /\ Goto(b, "check")
  /\ UNCHANGED <<made, rows, gates, step, managers, overwrote>>

(* IsK2PgLocalNodeInitdbMode: nothing is made.  initdb sends the file if   *)
(* the variable is "true", which it does not take for the local mode, and  *)
(* an empty one if it is "1"                                               *)
LocalMode(b) ==
  /\ pc[b] = "up"
  /\ Goto(b, "local")
  /\ UNCHANGED <<store, gates, step, managers, txns, overwrote>>

(* k2pg_check_if_initdb_is_already_done, the first command of the file *)
CheckInitDbDone(b) ==
  /\ pc[b] \in {"check", "local"}
  /\ info # None
  /\ initDone' = [initDone EXCEPT ![b] = @ \/ info.initdb_done]
  /\ version' = [version EXCEPT ![b] =
       IF ~initDone[b] /\ info.catalog_version > @ THEN info.catalog_version ELSE @]
  /\ Goto(b, IF initDone'[b] THEN "already"
             ELSE IF pc[b] = "local" THEN "localboot" ELSE "boot")
  /\ UNCHANGED <<store, gates, step, started, cached, txns, unaware, overwrote>>

(* mutant: goes on after the end of the file *)
BootCommandNoEnd(b) ==
  /\ pc[b] \in {"boot", "localboot"}
  /\ tdb
  /\ step' = [step EXCEPT ![b] = @ + 1]
  /\ rows' = rows \cup {step'[b]}
  /\ UNCHANGED <<made, info, tdb, gates, pc, managers, txns, overwrote>>

(* every command is a transaction of its own, in template1 *)
BootCommand(b) ==
  /\ pc[b] \in {"boot", "localboot"} /\ step[b] < Commands
  /\ tdb
  /\ step' = [step EXCEPT ![b] = @ + 1]
  /\ rows' = rows \cup {step'[b]}
  /\ UNCHANGED <<made, info, tdb, gates, pc, managers, txns, overwrote>>

(* mutant: initdb_done is set when the file is begun *)
AllRunNot(b) == step[b] >= 0

AllRun(b) == step[b] = Commands

(* nothing is written if initdb is known, or found, to be done *)
FinishInitDB(b) ==
  /\ pc[b] = "boot" /\ AllRun(b)
  /\ info # None
  /\ CanWrite(b)
  /\ view' = [view EXCEPT ![b] = [info EXCEPT !.initdb_done = TRUE]]
  /\ wr' = [wr EXCEPT ![b] = IF initDone[b] \/ info.initdb_done THEN {} ELSE {"info"}]
  /\ initDone' = [initDone EXCEPT ![b] = TRUE]
  /\ Goto(b, "finish")
  /\ UNCHANGED <<store, gates, step, version, started, cached, behind, unaware, overwrote>>

(* the local mode ends after the file, or the empty one, without           *)
(* FinishInitDB                                                            *)
LocalEnd(b) ==
  /\ \/ pc[b] = "localboot" /\ AllRun(b)
     \/ pc[b] = "local"
  /\ Exit(b, "ran")
  /\ UNCHANGED <<store, gates, step, txns, overwrote>>

CommitFinish(b) ==
  /\ pc[b] = "finish"
  /\ CommitTxn(b)
  /\ Exit(b, "ok")
  /\ UNCHANGED <<made, rows, gates, step, overwrote>>

(* K2PgCommitTxn is told of a failure although the commit went through *)
CommitReplyLost(b) ==
  /\ pc[b] \in {"named", "finish"}
  /\ CommitTxn(b)
  /\ Exit(b, "failed")
  /\ UNCHANGED <<made, rows, gates, step, overwrote>>

-----------------------------------------------------------------------------
(* PgGate_InitPgGate and the sessions of a server.  b = <<server, thread>> *)

CheckFlag(b) ==
  /\ pc[b] = "new"
  /\ Goto(b, IF flag[b[1]] THEN "ready" ELSE "checked")
  /\ UNCHANGED <<store, gates, step, managers, txns, overwrote>>

(* The flag is set.  The assertion that there is no gate yet may fail, and *)
(* that ends the server (Crash), or is not compiled in                     *)
SetFlag(b) ==
  /\ pc[b] = "checked"
  /\ flag' = [flag EXCEPT ![b[1]] = TRUE]
  /\ Goto(b, "building")
  /\ UNCHANGED <<store, gate, step, managers, mgr, txns, overwrote>>

(* mutant: the constructor throws if the manager cannot start *)
MakeGateOrThrow(b) ==
  /\ pc[b] = "building"
  /\ \/ /\ Load(b, info)
        /\ gate' = [gate EXCEPT ![b[1]] = b[2]]
        /\ Goto(b, "ready")
     \/ LoadFails(b) /\ Goto(b, "dead") /\ UNCHANGED gate
  /\ UNCHANGED <<store, flag, step, version, started, cached, mgr, txns, overwrote>>

(* the constructor of PgGate, which does not look at the status of Start *)
MakeGate(b) ==
  /\ pc[b] = "building"
  /\ Load(b, info) \/ LoadFails(b)
  /\ gate' = [gate EXCEPT ![b[1]] = b[2]]
  /\ Goto(b, "ready")
  /\ UNCHANGED <<store, flag, step, version, started, cached, mgr, txns, overwrote>>

(* mutant: the flag alone *)
EnabledByFlag(s) == flag[s]

(* PgGate_IsK2PgEnabled *)
Enabled(s) == flag[s] /\ gate[s] # None

(* K2PgInitSession: an ERROR, or PgGate_InitSession *)
CheckEnabled(b) ==
  /\ pc[b] = "ready"
  /\ Goto(b, IF Enabled(b[1]) THEN "enabled" ELSE "dead")
  /\ UNCHANGED <<store, gates, step, managers, txns, overwrote>>

InitSession(b) ==
  /\ pc[b] = "enabled"
  /\ mgr' = [mgr EXCEPT ![b] = gate[b[1]]]
  /\ Goto(b, "session")
  /\ UNCHANGED <<store, flag, gate, step, managers, txns, overwrote>>

(* the session ends; another thread takes its place *)
EndSession(b) ==
  /\ pc[b] \in {"session", "dead"}
  /\ mgr' = [mgr EXCEPT ![b] = None]
  /\ Goto(b, "new")
  /\ UNCHANGED <<store, flag, gate, step, managers, txns, overwrote>>

Crash(s) ==
  LET Its(m) == m \in Backend /\ m[1] = s
      Reset(f, v) == [m \in Manager |-> IF Its(m) THEN v ELSE f[m]]
  IN
  /\ flag' = [flag EXCEPT ![s] = FALSE]
  /\ gate' = [gate EXCEPT ![s] = None]
  /\ pc' = Reset(pc, "new")
  /\ initDone' = Reset(initDone, FALSE)
  /\ mgr' = [b \in Backend |-> IF Its(b) THEN None ELSE mgr[b]]
  /\ view' = Reset(view, None)
  /\ wr' = Reset(wr, {})
  /\ behind' = Reset(behind, FALSE)
  /\ unaware' = {m \in unaware : ~Its(m)}
  /\ UNCHANGED <<store, step, version, started, cached, overwrote>>

-----------------------------------------------------------------------------
(* A session changes the catalog, once there is one *)

Begin(b) ==
  /\ pc[b] = "session"
  /\ rows = 1..Commands
  /\ view' = [view EXCEPT ![b] = info]
  /\ Goto(b, "begun")
  /\ UNCHANGED <<store, gates, step, managers, wr, behind, overwrote>>

IncrementCatalogVersion(b) ==
  LET m == <<b[1], mgr[b]>>
      next == view[b].catalog_version + 1 IN
  /\ pc[b] = "begun"
  /\ next <= MaxVersion
  /\ CanWrite(b)
  /\ view' = [view EXCEPT ![b] = [catalog_version |-> next, initdb_done |-> initDone[m]]]
  /\ wr' = [wr EXCEPT ![b] = {"info"}]
  /\ Goto(b, "wrote")
  /\ UNCHANGED <<store, gates, step, managers, behind, overwrote>>

Commit(b) ==
  /\ pc[b] = "wrote"
  /\ CommitTxn(b)
  /\ overwrote' = (overwrote \/ <<b[1], mgr[b]>> \in unaware)
  /\ Goto(b, "session")
  /\ UNCHANGED <<made, rows, gates, step, managers>>

(* ROLLBACK, or the write is refused *)
Abort(b) ==
  /\ pc[b] \in {"begun", "wrote"}
  /\ EndTxn(b)
  /\ Goto(b, "session")
  /\ UNCHANGED <<store, gates, step, managers, overwrote>>

-----------------------------------------------------------------------------
Next ==
  \/ \E b \in Boot :
       \/ BootUp(b) \/ BootFails(b) \/ MakePrimary(b) \/ SkipPrimary(b)
       \/ CreateClusterSchema(b) \/ InitClusterInfo(b) \/ InitDatabaseTable(b)
       \/ StartAgain(b) \/ MakeTemplate(b) \/ NameTemplate(b) \/ CommitTemplate(b)
       \/ CheckInitDbDone(b) \/ BootCommand(b) \/ FinishInitDB(b) \/ CommitFinish(b)
       \/ CommitReplyLost(b) \/ LocalMode(b) \/ LocalEnd(b)
  \/ \E b \in Backend :
       \/ CheckFlag(b) \/ SetFlag(b) \/ MakeGate(b) \/ CheckEnabled(b)
       \/ InitSession(b) \/ EndSession(b) \/ Begin(b)
       \/ IncrementCatalogVersion(b) \/ Commit(b) \/ Abort(b)
  \/ \E s \in Server : Crash(s)

Spec == Init /\ [][Next]_vars

(* a thread that has set the flag goes on to make the gate *)
FairSpec == Spec /\ \A b \in Backend : WF_vars(MakeGate(b))

-----------------------------------------------------------------------------
(* Properties *)

(* initdb_done in the cluster record means that the collections, the       *)
(* schemas, template1 and the rows of every bootstrap command are there,   *)
(* however many runs of initdb met and wherever they failed.               *)
DoneMeansComplete ==
  info # None /\ info.initdb_done =>
    made = Objects /\ tdb /\ rows = 1..Commands

(* The assertions of Start and InitPrimaryCluster hold: the manager is not *)
(* started twice ("Already started"), because a run of initdb that finds   *)
(* anything of another one does not get that far, and it is started after  *)
(* InitPrimaryCluster ("Not initialized").                                 *)
StartedOnce ==
  \A b \in Boot :
    /\ pc[b] = "tables" => ~started[b] /\ view[b] # None
    /\ pc[b] = "init" => started[b] \/ initDone[b]

(* No session is initialised without a gate ("PgGate must be initialized"), *)
(* although a thread sets the flag long before the gate is there and others *)
(* find it set.                                                             *)
SessionsHaveGate ==
  \A b \in Backend : pc[b] = "enabled" => gate[b[1]] # None

(* initdb_done, once set, is cleared by nobody but a session of a manager  *)
(* whose Start failed or came before the end of initdb: FinishInitDB and   *)
(* all increments read and write the record without losing it.             *)
DoneKeptByTheAware ==
  (\E b \in Boot : pc[b] = "ok") /\ ~overwrote => info.initdb_done

(* Where the flag is set the gate follows, so that new threads get their   *)
(* sessions, unless the server crashes: threads that find the flag without *)
(* the gate do not try again.                                              *)
FlagBringsGate ==
  \A s \in Server : flag[s] ~> (gate[s] # None \/ ~flag[s])
=============================================================================
