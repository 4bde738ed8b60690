----------------------------- MODULE Databases -----------------------------
(***************************************************************************)
(* CREATE, DROP and ALTER ... RENAME DATABASE (dbcommands.cpp) on K2.  A   *)
(* database is a row of pg_database with an entry in its index by name, a  *)
(* DatabaseInfo record of the catalog manager (sql_catalog_manager.cpp),   *)
(* an SKV collection with its meta tables, and the tables copied from the  *)
(* template.  Collections are not transactional; every instance caches the *)
(* records by id and by name; CREATE DATABASE ends its SKV transaction in  *)
(* the middle and does the rest in a second one.                           *)
(*                                                                         *)
(* The store is K23SI: a transaction reads what was committed before its   *)
(* timestamp and its own writes; it may not write a record that a later    *)
(* one has read or written, and pending writes of an earlier one keep it   *)
(* from reading.  (SKV aborts one of the two, which is Abort of either.)   *)
(* A row of pg_database is never read without the index by name, nor       *)
(* written without its entry there, so reads of rows need no record.       *)
(***************************************************************************)
EXTENDS Naturals

CONSTANTS
  Inst,      \* gaussdb instances
  Session,   \* their backends
  Id,        \* OIDs of databases; the uuid and the collection name are made of it
  Template,  \* template1, the source of new databases
  Name,      \* names of databases
  TemplateName,
  None       \* "no value"

ASSUME DatabasesAssumption ==
  /\ Template \in Id
  /\ TemplateName \in Name
  /\ None \notin Id \cup Name \cup (Id \X Name)

(* The records: rows of pg_database and their index by name, DatabaseInfo, *)
(* and the databases whose tables have been copied                         *)
Store == [row : [Id -> Name \cup {None}], idx : [Name -> Id \cup {None}],
          rec : [Id -> Name \cup {None}], tab : SUBSET Id]

RowKey(d) == <<"row", d>>
IdxKey(n) == <<"idx", n>>
RecKey(d) == <<"rec", d>>
TabKey(d) == <<"tab", d>>
AllIdx == {IdxKey(n) : n \in Name}
AllRec == {RecKey(d) : d \in Id}
Key == {RowKey(d) : d \in Id} \cup AllIdx \cup AllRec \cup {TabKey(d) : d \in Id}

VARIABLES
  at,       \* at[s]: the instance s is a backend of
  db,       \* the committed records
  coll,     \* SKV collections that exist and have their meta tables
  byId,     \* byId[i]: keys of database_id_map_ of instance i
  byName,   \* byName[i][n]: database_name_map_
  st,       \* st[s]: how far the transaction of s is, see States
  target,   \* target[s]: the database it is making, and its name
  conn,     \* conn[s]: MyDatabaseId
  view,     \* view[s]: the records as its transaction sees them
  wr,       \* wr[s]: the records it has written
  before,   \* before[s]: open transactions with an earlier timestamp
  late,     \* late[s]: records a later transaction has read or committed
  waiting,  \* sessions at the end of ReservePgOid, before they take lock_
  used,     \* OIDs handed out
  touched,  \* names that were dropped, renamed, or failed to be created
  blind     \* has a failed ListDatabases been taken for "no such database"

store == <<at, db, coll>>
caches == <<byId, byName>>
txn == <<view, wr, before, late>>
history == <<used, touched, blind>>
vars == <<at, db, coll, byId, byName, st, target, conn,
          view, wr, before, late, waiting, used, touched, blind>>

(* "idle": no transaction; "open": begun; "block": has run statements that *)
(* rule out CREATE and DROP DATABASE; "named": the record is written;      *)
(* "between": the first transaction has ended; "copied": the tables are    *)
(* copied in the second; "done": only the commit is left                   *)
States == {"idle", "open", "block", "named", "between", "copied", "done"}

Open == {s \in Session : st[s] \notin {"idle", "between"}}

Empty == [row |-> [d \in Id |-> None], idx |-> [n \in Name |-> None],
          rec |-> [d \in Id |-> None], tab |-> {}]

TypeOK ==
  /\ at \in [Session -> Inst]
  /\ db \in Store
  /\ coll \subseteq Id
  /\ byId \in [Inst -> SUBSET Id]
  /\ byName \in [Inst -> [Name -> Id \cup {None}]]
  /\ st \in [Session -> States]
  /\ target \in [Session -> (Id \X Name) \cup {None}]
  /\ conn \in [Session -> Id]
  /\ view \in [Session -> Store]
  /\ wr \in [Session -> SUBSET Key]
  /\ before \in [Session -> SUBSET Open]
  /\ late \in [Session -> SUBSET Key]
  /\ waiting \subseteq Session
  /\ used \subseteq Id
  /\ touched \subseteq Name
  /\ blind \in BOOLEAN

(* After initdb: template1 alone, every instance started *)
Init ==
  /\ at \in [Session -> Inst]
  /\ db = [row |-> [d \in Id |-> IF d = Template THEN TemplateName ELSE None],
           idx |-> [n \in Name |-> IF n = TemplateName THEN Template ELSE None],
           rec |-> [d \in Id |-> IF d = Template THEN TemplateName ELSE None],
           tab |-> {Template}]
  /\ coll = {Template}
  /\ byId = [i \in Inst |-> {Template}]
  /\ byName = [i \in Inst |-> [n \in Name |->
                 IF n = TemplateName THEN Template ELSE None]]
  /\ st = [s \in Session |-> "idle"]
  /\ target = [s \in Session |-> None]
  /\ conn = [s \in Session |-> Template]
  /\ view = [s \in Session |-> Empty]
  /\ wr = [s \in Session |-> {}]
  /\ before = [s \in Session |-> {}]
  /\ late = [s \in Session |-> {}]
  /\ waiting = {}
  /\ used = {Template}
  /\ touched = {} /\ blind = FALSE

-----------------------------------------------------------------------------
(* K23SI *)

(* the records of v with what s has written *)
Apply(v, s) ==
  LET w == view[s] IN
  [row |-> [d \in Id |-> IF RowKey(d) \in wr[s] THEN w.row[d] ELSE v.row[d]],
   idx |-> [n \in Name |-> IF IdxKey(n) \in wr[s] THEN w.idx[n] ELSE v.idx[n]],
   rec |-> [d \in Id |-> IF RecKey(d) \in wr[s] THEN w.rec[d] ELSE v.rec[d]],
   tab |-> v.tab \cup {d \in Id : TabKey(d) \in wr[s]}]

CanRead(s, R) == \A r \in before[s] : wr[r] \cap R = {}

CanWrite(s, W) ==
  /\ W \cap late[s] = {}
  /\ \A r \in Session \ {s} : wr[r] \cap W = {}

(* those before s may no longer write what s has read *)
Reads(s, R) == [r \in Session |-> IF r \in before[s] THEN late[r] \cup R ELSE late[r]]

(* a transaction that begins now reads R and ends *)
ReadNow(R) == [r \in Session |-> IF r \in Open THEN late[r] \cup R ELSE late[r]]

(* s reads R, writes W and then sees v *)
Access(s, R, W, v) ==
  /\ CanRead(s, R) /\ CanWrite(s, W)
  /\ view' = [view EXCEPT ![s] = v]
  /\ wr' = [wr EXCEPT ![s] = @ \cup W]
  /\ late' = Reads(s, R)
  /\ UNCHANGED before

BeginTxn(s) ==
  /\ view' = [view EXCEPT ![s] = db]
  /\ before' = [before EXCEPT ![s] = Open]
  /\ UNCHANGED <<wr, late>>

(* what s has written is there for everyone later than s *)
CommitTxn(s) ==
  /\ db' = Apply(db, s)
  /\ view' = [r \in Session |-> IF r = s THEN Empty
                                ELSE IF s \in before[r] THEN Apply(view[r], s)
                                ELSE view[r]]
  /\ wr' = [wr EXCEPT ![s] = {}]
  /\ before' = [r \in Session |-> IF r = s THEN {} ELSE before[r] \ {s}]
  /\ late' = [r \in Session |-> IF r = s THEN {}
                                ELSE IF r \in before[s] THEN late[r] \cup wr[s]
                                ELSE late[r]]

(* the transactions of S are gone; l is what is late for the others *)
DropTxns(S, l) ==
  /\ view' = [r \in Session |-> IF r \in S THEN Empty ELSE view[r]]
  /\ wr' = [r \in Session |-> IF r \in S THEN {} ELSE wr[r]]
  /\ before' = [r \in Session |-> IF r \in S THEN {} ELSE before[r] \ S]
  /\ late' = [r \in Session |-> IF r \in S THEN {} ELSE l[r]]

-----------------------------------------------------------------------------
(* The catalog manager's caches *)

(* names of two records that are the same go to either of the two *)
MapsOf(v) ==
  {m \in [Name -> Id \cup {None}] :
     \A n \in Name : IF \E d \in Id : v.rec[d] = n
                     THEN m[n] \in Id /\ v.rec[m[n]] = n
                     ELSE m[n] = None}

(* mutant: the caches are believed, the list is not read *)
LookupCachedOnly(s, n) ==
  {[ids |-> byId[at[s]], map |-> byName[at[s]], scan |-> FALSE, fails |-> FALSE]}

(* What CheckAndLoadDatabaseByName may leave: the caches as they are if    *)
(* they have the name; else what ListDatabases finds or, when it fails,    *)
(* the caches as they are again.  "scan": was the list read                *)
Lookup(s, n) ==
  LET i == at[s] IN
  IF byName[i][n] # None
  THEN {[ids |-> byId[i], map |-> byName[i], scan |-> FALSE, fails |-> FALSE]}
  ELSE {[ids |-> {d \in Id : view[s].rec[d] # None}, map |-> m, scan |-> TRUE,
         fails |-> FALSE] : m \in MapsOf(view[s])}
       \cup {[ids |-> byId[i], map |-> byName[i], scan |-> FALSE, fails |-> TRUE]}

SetCaches(i, ids, map) ==
  /\ byId' = [byId EXCEPT ![i] = ids]
  /\ byName' = [byName EXCEPT ![i] = map]

(* lock_ of the catalog manager: CreateDatabase keeps it to its end *)
MutexFree(s) ==
  \A r \in Session \ {s} : at[r] = at[s] => st[r] \notin {"named", "between"}

(* The databases s has locked exclusively in its instance: those it drops, *)
(* renames or makes, and the source of the one it makes                    *)
Held(s) ==
  {d \in Id : RowKey(d) \in wr[s] \/ (d = Template /\ target[s] # None)}

HeldByOthers(s) ==
  UNION {Held(r) : r \in {r \in Session \ {s} : at[r] = at[s]}}

(* LockDatabaseObject and CountOtherDBBackends: s may have d for itself,   *)
(* as far as the backends of its own instance go                           *)
Alone(s, d) ==
  /\ d \notin HeldByOthers(s)
  /\ \A r \in Session \ {s} : at[r] = at[s] => conn[r] # d

-----------------------------------------------------------------------------
(* Transactions *)

Begin(s) ==
  /\ st[s] = "idle"
  /\ BeginTxn(s)
  /\ st' = [st EXCEPT ![s] = "open"]
  /\ UNCHANGED <<store, caches, target, conn, history>>

Leave(S) ==
  /\ st' = [s \in Session |-> IF s \in S THEN "idle" ELSE st[s]]
  /\ target' = [s \in Session |-> IF s \in S THEN None ELSE target[s]]

(* names of the databases that those in S were making *)
Making(S) == {n \in Name : \E s \in S, d \in Id : target[s] = <<d, n>>}

(* a committed DROP or RENAME touches the names whose entries it wrote *)
Commit(s) ==
  /\ st[s] \in {"open", "block", "done"}
  /\ CommitTxn(s)
  /\ Leave({s})
  /\ touched' = touched \cup
       {n \in Name : target[s] = None /\ IdxKey(n) \in wr[s]}
  /\ UNCHANGED <<at, coll, caches, conn, used, blind>>

(* the ERROR of a statement that has read R *)
RollBack(s, R) ==
  /\ DropTxns({s}, Reads(s, R))
  /\ Leave({s})

(* mutant: the session forgets its transaction and does not end it *)
AbortKeepsTxn(s) ==
  /\ st[s] # "idle"
  /\ Leave({s})
  /\ touched' = touched \cup Making({s})
  /\ UNCHANGED <<store, caches, conn, txn, used, blind>>

(* ROLLBACK, a push, or a failure at any point, such as that of CopyTable  *)
(* or of the commit; what the first transaction of CREATE DATABASE has     *)
(* committed stays                                                         *)
Abort(s) ==
  /\ st[s] # "idle"
  /\ RollBack(s, {})
  /\ touched' = touched \cup Making({s})
  /\ UNCHANGED <<store, caches, conn, used, blind>>

(* A backend connects to d: InitPostgres finds it in pg_database *)
Connect(s, d) ==
  /\ st[s] = "idle"
  /\ d # conn[s]
  /\ d \notin HeldByOthers(s)
  /\ \E n \in Name :
       /\ db.idx[n] = d /\ db.row[d] = n
       /\ \A r \in Open : IdxKey(n) \notin wr[r]
       /\ late' = ReadNow({IdxKey(n)})
  /\ conn' = [conn EXCEPT ![s] = d]
  /\ UNCHANGED <<store, caches, st, target, view, wr, before, history>>

(* The instance goes down and starts again: SqlCatalogManager::Start loads *)
(* the databases, in a transaction of its own                              *)
Restart(i) ==
  LET S == {s \in Session : at[s] = i} IN
  /\ \A r \in Open \ S : wr[r] \cap AllRec = {}
  /\ DropTxns(S, ReadNow(AllRec))
  /\ Leave(S)
  /\ conn' = [s \in Session |-> IF s \in S THEN Template ELSE conn[s]]
  /\ \E m \in MapsOf(db) : SetCaches(i, {d \in Id : db.rec[d] # None}, m)
  /\ touched' = touched \cup Making(S)
  /\ UNCHANGED <<store, used, blind>>

-----------------------------------------------------------------------------
(* CREATE DATABASE *)

(* the checks of createdb before it calls the catalog manager *)
CanCreate(s, n) ==
  /\ st[s] = "open"
  /\ view[s].idx[n] = None
  /\ Alone(s, Template)
  /\ MutexFree(s)

(* the records a lookup l by name, with the check of pg_database, has read *)
LookedAt(l, n) == {IdxKey(n)} \cup (IF l.scan THEN AllRec ELSE {})

(* mutant: the row of pg_database is inserted first *)
CreateDatabaseAfterRow(s, d, n) ==
  /\ CanCreate(s, n)
  /\ d \notin used
  /\ \E l \in Lookup(s, n) :
       /\ l.map[n] = None
       /\ Access(s, LookedAt(l, n), {RecKey(d), RowKey(d), IdxKey(n)},
                 [view[s] EXCEPT !.rec[d] = n, !.row[d] = n, !.idx[n] = d])
       /\ SetCaches(at[s], l.ids \cup {d}, [l.map EXCEPT ![n] = d])
       /\ blind' = (blind \/ l.fails)
  /\ coll' = coll \cup {d}
  /\ st' = [st EXCEPT ![s] = "named"]
  /\ target' = [target EXCEPT ![s] = <<d, n>>]
  /\ used' = used \cup {d}
  /\ UNCHANGED <<at, db, conn, touched>>

(* CreateDatabase as far as the end of its first transaction *)
CreateDatabase(s, d, n) ==
  /\ CanCreate(s, n)
  /\ d \notin used
  /\ \E l \in Lookup(s, n) :
       /\ l.map[n] = None
       /\ Template \in l.ids
       /\ Access(s, LookedAt(l, n), {RecKey(d)}, [view[s] EXCEPT !.rec[d] = n])
       /\ SetCaches(at[s], l.ids \cup {d}, [l.map EXCEPT ![n] = d])
       /\ blind' = (blind \/ l.fails)
  /\ coll' = coll \cup {d}
  /\ st' = [st EXCEPT ![s] = "named"]
  /\ target' = [target EXCEPT ![s] = <<d, n>>]
  /\ used' = used \cup {d}
  /\ UNCHANGED <<at, db, conn, touched>>

(* createCollection, UpsertDatabase or CreateMetaTables fails; in the last *)
(* case the caches have the database already                               *)
CreateFails(s, d, n) ==
  /\ CanCreate(s, n)
  /\ d \notin used
  /\ \E l \in Lookup(s, n) :
       /\ l.map[n] = None
       /\ CanRead(s, LookedAt(l, n))
       /\ \/ SetCaches(at[s], l.ids, l.map)
          \/ SetCaches(at[s], l.ids \cup {d}, [l.map EXCEPT ![n] = d])
       /\ RollBack(s, LookedAt(l, n))
       /\ blind' = (blind \/ l.fails)
  /\ used' = used \cup {d}
  /\ touched' = touched \cup {n}
  /\ UNCHANGED <<store, conn>>

(* "Database {} has already existed" *)
CreateRefused(s, n) ==
  /\ CanCreate(s, n)
  /\ \E l \in Lookup(s, n) :
       /\ l.map[n] # None
       /\ CanRead(s, LookedAt(l, n))
       /\ SetCaches(at[s], l.ids, l.map)
       /\ RollBack(s, LookedAt(l, n))
  /\ UNCHANGED <<store, conn, history>>

(* "Commit txn so that operations on new collection are done with a        *)
(* timestamp > collection create time"                                     *)
EndFirst(s) ==
  /\ st[s] = "named"
  /\ CommitTxn(s)
  /\ st' = [st EXCEPT ![s] = "between"]
  /\ UNCHANGED <<at, coll, caches, target, conn, history>>

(* ListTableIds begins the second transaction; every table is copied *)
Copy(s) ==
  LET d == target[s][1] IN
  /\ st[s] = "between"
  /\ view' = [view EXCEPT ![s] = [db EXCEPT !.tab = @ \cup {d}]]
  /\ wr' = [wr EXCEPT ![s] = {TabKey(d)}]
  /\ before' = [before EXCEPT ![s] = Open]
  /\ st' = [st EXCEPT ![s] = "copied"]
  /\ UNCHANGED <<store, caches, target, conn, late, history>>

(* simple_heap_insert and CatalogUpdateIndexes, which looks through the    *)
(* index for entries of the row first and upserts the new one              *)
InsertRow(s) ==
  LET d == target[s][1]
      n == target[s][2] IN
  /\ st[s] = "copied"
  /\ Access(s, AllIdx, {RowKey(d), IdxKey(n)},
            [view[s] EXCEPT !.row[d] = n, !.idx[n] = d])
  /\ st' = [st EXCEPT ![s] = "done"]
  /\ UNCHANGED <<store, caches, target, conn, history>>

-----------------------------------------------------------------------------
(* DROP DATABASE *)

(* get_db_info: the name leads to d *)
Finds(s, n, d) == view[s].idx[n] = d /\ view[s].row[d] = n

(* K2PgDeleteIndexRowsByBaseK2Pgctid *)
EntriesOf(v, d) == {m \in Name : v.idx[m] = d}

(* CatalogTupleDelete: the row and the entries that lead to it *)
WithoutRow(v, d) ==
  [v EXCEPT !.row[d] = None,
            !.idx = [m \in Name |-> IF m \in EntriesOf(v, d) THEN None ELSE @[m]]]

CanDrop(s, d, n) ==
  /\ st[s] = "open"
  /\ Finds(s, n, d)
  /\ d # Template
  /\ d # conn[s]
  /\ Alone(s, d)
  /\ MutexFree(s)
  /\ view[s].rec[d] # None

(* mutant: the record stays *)
DropRowOnly(s, d, n) ==
  /\ CanDrop(s, d, n)
  /\ Access(s, AllIdx \cup {RecKey(d)},
            {RowKey(d)} \cup {IdxKey(m) : m \in EntriesOf(view[s], d)},
            WithoutRow(view[s], d))
  /\ st' = [st EXCEPT ![s] = "done"]
  /\ UNCHANGED <<store, caches, target, conn, history>>

(* The row goes first, then DeleteDatabase deletes the record.  It takes   *)
(* the success for a failure and leaves the caches alone                   *)
Drop(s, d, n) ==
  /\ CanDrop(s, d, n)
  /\ Access(s, AllIdx \cup {RecKey(d)},
            {RowKey(d), RecKey(d)} \cup {IdxKey(m) : m \in EntriesOf(view[s], d)},
            [WithoutRow(view[s], d) EXCEPT !.rec[d] = None])
  /\ st' = [st EXCEPT ![s] = "done"]
  /\ UNCHANGED <<store, caches, target, conn, history>>

(* The record cannot be deleted: the caches forget the database, and the   *)
(* failed status becomes an ERROR                                          *)
DropFails(s, d, n) ==
  LET i == at[s] IN
  /\ CanDrop(s, d, n)
  /\ SetCaches(i, byId[i] \ {d}, [byName[i] EXCEPT ![view[s].rec[d]] = None])
  /\ RollBack(s, {})
  /\ UNCHANGED <<store, conn, history>>

-----------------------------------------------------------------------------
(* ALTER DATABASE ... RENAME: the row and its entry, never the record *)
Rename(s, d, n, m) ==
  /\ st[s] \in {"open", "block"}
  /\ Finds(s, n, d)
  /\ view[s].idx[m] = None
  /\ d # conn[s]
  /\ Alone(s, d)
  /\ Access(s, AllIdx,
            {RowKey(d), IdxKey(m)} \cup {IdxKey(k) : k \in EntriesOf(view[s], d)},
            [WithoutRow(view[s], d) EXCEPT !.row[d] = m, !.idx[m] = d])
  /\ st' = [st EXCEPT ![s] = "block"]
  /\ UNCHANGED <<store, caches, target, conn, history>>

-----------------------------------------------------------------------------
(* What else uses the caches *)

(* CREATE TABLE or INDEX asks for the current database by its name.  If it *)
(* is not found the statement fails; else it goes to the collection found  *)
CreateTable(s) ==
  LET n == view[s].row[conn[s]] IN
  /\ st[s] \in {"open", "block"}
  /\ n # None
  /\ MutexFree(s)
  /\ \E l \in Lookup(s, n) :
       LET R == IF l.scan THEN AllRec ELSE {} IN
       /\ CanRead(s, R)
       /\ SetCaches(at[s], l.ids, l.map)
       /\ \/ /\ l.map[n] # None
             /\ st' = [st EXCEPT ![s] = "block"]
             /\ late' = Reads(s, R)
             /\ UNCHANGED <<target, view, wr, before>>
          \/ /\ l.map[n] = None
             /\ RollBack(s, R)
  /\ UNCHANGED <<store, conn, history>>

(* CheckAndLoadDatabaseById, for a table that is opened: the list is read  *)
(* if the current database is not cached                                   *)
OpenTable(s) ==
  /\ st[s] \in {"open", "block"}
  /\ conn[s] \notin byId[at[s]]
  /\ MutexFree(s)
  /\ Access(s, AllRec, {}, view[s])
  /\ \E m \in MapsOf(view[s]) :
       SetCaches(at[s], {d \in Id : view[s].rec[d] # None}, m)
  /\ UNCHANGED <<store, st, target, conn, history>>

(* ReservePgOid: the record of the current database is read and written    *)
(* back, without lock_                                                     *)
Reserve(s) ==
  LET d == conn[s] IN
  /\ st[s] \in {"open", "block"}
  /\ view[s].rec[d] # None
  /\ Access(s, {RecKey(d)}, {RecKey(d)}, view[s])
  /\ UNCHANGED <<store, caches, st, target, conn, history>>

(* then it goes into the caches, with lock_ *)
CacheReserved(s) ==
  LET d == conn[s]
      i == at[s]
      n == view[s].rec[d] IN
  /\ st[s] \in {"open", "block"}
  /\ n # None
  /\ MutexFree(s)
  /\ SetCaches(i, byId[i] \cup {d}, [byName[i] EXCEPT ![n] = d])
  /\ UNCHANGED <<store, st, target, conn, txn, history>>

-----------------------------------------------------------------------------
(* what a session that does not wait may do *)
Step(s) ==
  \/ Begin(s) \/ Commit(s) \/ Abort(s)
  \/ EndFirst(s) \/ Copy(s) \/ InsertRow(s)
  \/ CreateTable(s) \/ OpenTable(s)
  \/ \E d \in Id : Connect(s, d)
  \/ \E n \in Name : CreateRefused(s, n)
  \/ \E d \in Id, n \in Name :
       \/ CreateDatabase(s, d, n) \/ CreateFails(s, d, n)
       \/ Drop(s, d, n) \/ DropFails(s, d, n)
  \/ \E d \in Id, n, m \in Name : Rename(s, d, n, m)

Next ==
  \/ \E s \in Session \ waiting :
       \/ Step(s) /\ UNCHANGED waiting
       \/ Reserve(s) /\ waiting' = waiting \cup {s}
  \/ \E s \in waiting : CacheReserved(s) /\ waiting' = waiting \ {s}
  \/ \E i \in Inst : Restart(i) /\ waiting' = {s \in waiting : at[s] # i}

Spec == Init /\ [][Next]_vars

-----------------------------------------------------------------------------
(* Properties *)

(* all that makes a database usable is there *)
Whole(v, d) == v.rec[d] # None /\ d \in v.tab /\ d \in coll

(* Who is making d *)
Maker(d) == {s \in Session : \E n \in Name : target[s] = <<d, n>>}

(* What readers of pg_database may find d to be *)
Seen == [d \in Id |->
  IF db.row[d] # None THEN IF Whole(db, d) THEN db.row[d] ELSE "broken"
  ELSE IF d \notin used THEN "free"
  ELSE IF Maker(d) # {} THEN "coming"
  ELSE "gone"]

Atomic ==
  INSTANCE AtomicDatabases WITH
    Id <- Id, Name <- Name, Free <- "free", Coming <- "coming", Gone <- "gone",
    named <- Seen

(* Although CREATE DATABASE is two transactions and several operations     *)
(* that are none, and may fail or be cut short after each, whoever reads   *)
(* pg_database sees a database with its record, its collection and all its *)
(* tables, or does not see it; and a dropped one stays away.               *)
ImplementsAtomicDatabases == Atomic!Spec

(* DROP DATABASE on one instance, RENAME and OID reservations on others:   *)
(* when the row goes, the DatabaseInfo record goes in the same step, and   *)
(* none of the others, each of which may have read it before, writes it    *)
(* back.                                                                   *)
RecordGoesWithRow ==
  [][\A d \in Id :
       /\ db.row[d] # None /\ db'.row[d] = None => db'.rec[d] = None
       /\ d \in used /\ Maker(d) = {} /\ db.rec[d] = None => db'.rec[d] = None]_vars

(* Two instances that create databases of one name at the same time: the   *)
(* list of records that CheckAndLoadDatabaseByName reads keeps all but one *)
(* from committing, unless a list that could not be read was taken for an  *)
(* empty one.                                                              *)
OneRecordPerName ==
  blind \/ \A d, e \in Id : d # e /\ db.rec[d] # None => db.rec[d] # db.rec[e]

(* The collection CREATE TABLE finds by the name of the current database   *)
(* is that of the current database, whatever the caches have gone through, *)
(* if the name has never been dropped, renamed or left over.               *)
TablesAtHome ==
  \A s \in Session :
    LET n == view[s].row[conn[s]] IN
    (st[s] \in {"open", "block"} /\ n # None /\ n \notin touched /\ ~blind)
      => \A l \in Lookup(s, n) : l.map[n] \in {None, conn[s]}
=============================================================================
