---------------------------- MODULE TableCatalog ----------------------------
(***************************************************************************)
(* Tables and secondary indexes of one database, as SqlCatalogManager      *)
(* (sql_catalog_manager.cpp) and TableInfoHandler (table_info_handler.cpp) *)
(* keep them: records in three meta tables of SKV, written in the caller's *)
(* transaction; SKV schemas, which are not transactional; and, in every    *)
(* instance, caches by table uuid, by table name and by index uuid.        *)
(*                                                                         *)
(* A session <<i, b>> is backend b of instance i.  One manager call is one *)
(* step: it runs under the manager's lock_, and the store shows a          *)
(* transaction nothing but its snapshot and its own writes.  Table and     *)
(* index identities are OIDs, so a CREATE always brings a fresh one.       *)
(***************************************************************************)
EXTENDS Naturals

CONSTANTS
  Inst,     \* gaussdb instances
  Backend,  \* backends of each instance
  Tab,      \* OIDs of tables
  Idx,      \* OIDs of secondary indexes
  Name,     \* table names
  None      \* "no value"

ASSUME CatalogAssumption ==
  /\ None \notin Tab
  /\ None \notin Name
  /\ None \notin [name : Name, idx : SUBSET Idx]
  /\ Tab \cap Idx = {}

Session == Inst \X Backend
InstOf(s) == s[1]

TableInfo == [name : Name, idx : SUBSET Idx]

(* The meta tables: head and ibase are the tablemeta records of tables and *)
(* indexes, cols and icols say whose column records are complete           *)
Store == [head : [Tab -> Name \cup {None}], cols : SUBSET Tab,
          ibase : [Idx -> Tab \cup {None}], icols : SUBSET Idx]

VARIABLES
  db,         \* the committed meta tables
  schemas,    \* SKV schemas that exist
  info,       \* info[i][t]: table_uuid_map_ of instance i
  byName,     \* byName[i][n]: table_name_map_
  idxBase,    \* idxBase[i][x]: base table of x in index_uuid_map_
  open,       \* sessions with a transaction under way
  view,       \* view[s]: the meta tables as its transaction sees them
  wr,         \* wr[s]: tables and indexes it has written records of
  used,       \* OIDs handed out
  caught,     \* has an exception block caught a failed statement
  disturbed   \* disturbed[i]: DDL was rolled back in i, or overlapped a statement
              \* of another backend of i, or was committed by another instance
              \* or behind the snapshot of a backend of i

caches == <<info, byName, idxBase>>
vars == <<db, schemas, info, byName, idxBase, open, view, wr, used,
          caught, disturbed>>

Empty == [head |-> [t \in Tab |-> None], cols |-> {},
          ibase |-> [x \in Idx |-> None], icols |-> {}]

TypeOK ==
  /\ db \in Store
  /\ schemas \subseteq Tab \cup Idx
  /\ info \in [Inst -> [Tab -> TableInfo \cup {None}]]
  /\ byName \in [Inst -> [Name -> Tab \cup {None}]]
  /\ idxBase \in [Inst -> [Idx -> Tab \cup {None}]]
  /\ open \subseteq Session
  /\ view \in [Session -> Store]
  /\ wr \in [Session -> SUBSET (Tab \cup Idx)]
  /\ used \subseteq Tab \cup Idx
  /\ caught \in BOOLEAN
  /\ disturbed \in [Inst -> BOOLEAN]

Init ==
  /\ db = Empty
  /\ schemas = {}
  /\ info = [i \in Inst |-> [t \in Tab |-> None]]
  /\ byName = [i \in Inst |-> [n \in Name |-> None]]
  /\ idxBase = [i \in Inst |-> [x \in Idx |-> None]]
  /\ open = {}
  /\ view = [s \in Session |-> Empty]
  /\ wr = [s \in Session |-> {}]
  /\ used = {}
  /\ caught = FALSE
  /\ disturbed = [i \in Inst |-> FALSE]

-----------------------------------------------------------------------------
(* The caches *)

(* UpdateTableCache: both maps of tables, and the index map made to agree *)
UpdateTableCache(i, t, ti) ==
  /\ info' = [info EXCEPT ![i][t] = ti]
  /\ byName' = [byName EXCEPT ![i][ti.name] = t]
  /\ idxBase' = [idxBase EXCEPT ![i] =
       [x \in Idx |-> IF x \in ti.idx THEN t ELSE IF @[x] = t THEN None ELSE @[x]]]

(* mutant: the indexes of the table stay in the index map *)
ClearTableCacheOnly(i, t, ti) ==
  /\ info' = [info EXCEPT ![i][t] = None]
  /\ byName' = [byName EXCEPT ![i][ti.name] = None]
  /\ UNCHANGED idxBase

(* ClearTableCache: the name is forgotten whatever table it stands for *)
ClearTableCache(i, t, ti) ==
  /\ info' = [info EXCEPT ![i][t] = None]
  /\ byName' = [byName EXCEPT ![i][ti.name] = None]
  /\ idxBase' = [idxBase EXCEPT ![i] =
       [x \in Idx |-> IF @[x] = t THEN None ELSE @[x]]]

-----------------------------------------------------------------------------
(* The meta tables *)

(* FetchIndexMetaSKVRecords: the indexes on t *)
IndexesOn(v, t) == {x \in Idx : v.ibase[x] = t}

(* BuildTableInfo, from a tablemeta record and the columns *)
BuildTableInfo(n, X) == [name |-> n, idx |-> X]

(* TableInfoHandler::GetTable *)
GetTable(v, t) == BuildTableInfo(v.head[t], IndexesOn(v, t))

(* The records DeriveTableMetaRecord, DeriveTableColumnMetaRecords and     *)
(* their counterparts for an index make, once they are written             *)
WithTableMeta(v, t, n) == [v EXCEPT !.head[t] = n]

WithTableColumns(v, t) == [v EXCEPT !.cols = @ \cup {t}]

WithIndexMeta(v, x, t) == [v EXCEPT !.ibase[x] = t]

WithIndexColumns(v, x) == [v EXCEPT !.icols = @ \cup {x}]

(* the columns FetchTableColumnMetaSKVRecords finds, erased *)
WithoutTableColumns(v, t) == [v EXCEPT !.cols = @ \ {t}]

(* mutant: the column records are not written *)
PersistTableMetaHead(v, t, n) == WithTableMeta(v, t, n)

(* PersistTableMeta when every write succeeds *)
PersistTableMeta(v, t, n) == WithTableColumns(WithTableMeta(v, t, n), t)

(* what a failing CreateOrUpdateTable may leave: nothing, the head with    *)
(* some columns, or everything but the SKV schema                          *)
PersistTableMetaFails(v, t, n) ==
  {v, WithTableMeta(v, t, n), PersistTableMeta(v, t, n)}

(* PersistIndexMeta, and what it leaves when it or the schema fails *)
PersistIndexMeta(v, x, t) == WithIndexColumns(WithIndexMeta(v, x, t), x)

PersistIndexMetaFails(v, x, t) ==
  {v, WithIndexMeta(v, x, t), PersistIndexMeta(v, x, t)}

(* DeleteTableMetadata of a table without indexes: columns, then the head *)
DeleteTableMetadata(v, t) == [WithoutTableColumns(v, t) EXCEPT !.head[t] = None]

DeleteTableMetadataFails(v, t) == {v, WithoutTableColumns(v, t)}

(* CreateTableSKVSchema and CreateIndexSKVSchema: not transactional *)
CreateSKVSchema(o) == schemas' = schemas \cup {o}

(* K23SI lets s write the records of o *)
NoConflict(s, o) ==
  /\ \A r \in Session \ {s} : o \notin wr[r]
  /\ o \in Tab \ wr[s] => db.head[o] = view[s].head[o]

-----------------------------------------------------------------------------
(* Transactions *)

Begin(s) ==
  /\ s \notin open
  /\ open' = open \cup {s}
  /\ view' = [view EXCEPT ![s] = db]
  /\ UNCHANGED <<db, schemas, caches, wr, used, caught, disturbed>>

End(S) ==
  /\ open' = open \ S
  /\ view' = [s \in Session |-> IF s \in S THEN Empty ELSE view[s]]
  /\ wr' = [s \in Session |-> IF s \in S THEN {} ELSE wr[s]]

(* another backend of the instance has DDL that is not committed *)
Overlaps(s) == \E r \in open \ {s} : InstOf(r) = InstOf(s) /\ wr[r] # {}

(* The records written become the committed ones; no other instance hears  *)
(* of it                                                                   *)
Commit(s) ==
  LET v == view[s] IN
  /\ s \in open
  /\ db' = [head |-> [t \in Tab |-> IF t \in wr[s] THEN v.head[t] ELSE db.head[t]],
            cols |-> (db.cols \ wr[s]) \cup (v.cols \cap wr[s]),
            ibase |-> [x \in Idx |-> IF x \in wr[s] THEN v.ibase[x] ELSE db.ibase[x]],
            icols |-> (db.icols \ wr[s]) \cup (v.icols \cap wr[s])]
  /\ End({s})
  /\ disturbed' = [i \in Inst |-> disturbed[i] \/
       (wr[s] # {} /\ (i # InstOf(s) \/ \E r \in open \ {s} : InstOf(r) = i))]
  /\ UNCHANGED <<schemas, caches, used, caught>>

(* The ABORT callback: what was written is gone, the caches stay *)
RollBack(s) ==
  /\ End({s})
  /\ disturbed' = [disturbed EXCEPT ![InstOf(s)] = @ \/ wr[s] # {} \/ Overlaps(s)]

(* ROLLBACK, a commit that failed, or a push: once SKV has aborted the     *)
(* transaction its statements fail without effect until it is rolled back  *)
Abort(s) ==
  /\ s \in open
  /\ RollBack(s)
  /\ UNCHANGED <<db, schemas, caches, used, caught>>

(* A statement fails after it has made the meta tables v.  The ERROR rolls *)
(* the transaction back, unless an exception block catches it: then what   *)
(* was written stays written                                               *)
Fail(s, o, v) ==
  \/ RollBack(s) /\ UNCHANGED caught
  \/ /\ view' = [view EXCEPT ![s] = v]
     /\ wr' = [wr EXCEPT ![s] = IF v = view[s] THEN @ ELSE @ \cup {o}]
     /\ caught' = TRUE
     /\ UNCHANGED <<open, disturbed>>

Succeed(s, o, v) ==
  /\ view' = [view EXCEPT ![s] = v]
  /\ wr' = [wr EXCEPT ![s] = @ \cup {o}]
  /\ disturbed' = [disturbed EXCEPT ![InstOf(s)] = @ \/ Overlaps(s)]
  /\ UNCHANGED <<open, caught>>

-----------------------------------------------------------------------------
(* CREATE TABLE *)

Names(v) == {v.head[t] : t \in Tab}

(* GetNewObjectId, and PostgreSQL's own check of the name *)
CanCreateTable(s, t, n) ==
  /\ s \in open
  /\ t \notin used
  /\ n \notin Names(view[s])
  /\ used' = used \cup {t}

(* "check if the Table has already existed or not", in the cache *)
CreateTableRefused(s, t, n) ==
  /\ CanCreateTable(s, t, n)
  /\ byName[InstOf(s)][n] # None
  /\ Fail(s, t, view[s])
  /\ UNCHANGED <<db, schemas, caches>>

CreateTable(s, t, n) ==
  /\ CanCreateTable(s, t, n)
  /\ byName[InstOf(s)][n] = None
  /\ NoConflict(s, t)
  /\ Succeed(s, t, PersistTableMeta(view[s], t, n))
  /\ schemas' = schemas \cup {t}
  /\ UpdateTableCache(InstOf(s), t, [name |-> n, idx |-> {}])
  /\ UNCHANGED db

CreateTableFails(s, t, n) ==
  /\ CanCreateTable(s, t, n)
  /\ byName[InstOf(s)][n] = None
  /\ \E v \in PersistTableMetaFails(view[s], t, n) :
       Fail(s, t, v)
  /\ UNCHANGED <<db, schemas, caches>>

-----------------------------------------------------------------------------
(* CREATE INDEX *)

CanCreateIndex(s, x, t) ==
  /\ s \in open
  /\ x \notin used
  /\ view[s].head[t] # None
  /\ used' = used \cup {x}

(* the base table, from the cache if it is there *)
BaseTable(s, t) ==
  IF info[InstOf(s)][t] # None THEN info[InstOf(s)][t] ELSE GetTable(view[s], t)

(* mutant: the base table is cached without its new index *)
WithIndexNot(ti, x) == ti

(* base_table_info->add_secondary_index *)
WithIndex(ti, x) == [ti EXCEPT !.idx = @ \cup {x}]

CreateIndexTable(s, x, t) ==
  /\ CanCreateIndex(s, x, t)
  /\ NoConflict(s, x)
  /\ Succeed(s, x, PersistIndexMeta(view[s], x, t))
  /\ schemas' = schemas \cup {x}
  /\ UpdateTableCache(InstOf(s), t, WithIndex(BaseTable(s, t), x))
  /\ UNCHANGED db

(* the base table cannot be read, or it was, and then it stays cached *)
CreateIndexTableFails(s, x, t) ==
  /\ CanCreateIndex(s, x, t)
  /\ \/ Fail(s, x, view[s]) /\ UNCHANGED caches
     \/ /\ \E v \in PersistIndexMetaFails(view[s], x, t) : Fail(s, x, v)
        /\ IF info[InstOf(s)][t] # None THEN UNCHANGED caches
           ELSE UpdateTableCache(InstOf(s), t, BaseTable(s, t))
  /\ UNCHANGED <<db, schemas>>

-----------------------------------------------------------------------------
(* GetTableSchema, for a table or for an index *)

OwnerOf(v, o) == IF o \in Tab THEN o ELSE v.ibase[o]

Cached(i, o) ==
  IF o \in Tab THEN info[i][o] # None
  ELSE idxBase[i][o] # None /\ info[i][idxBase[i][o]] # None

(* mutant: that no record was found is not noticed *)
FoundAny(v, t) == t # None

(* FetchTableMetaSKVRecord finds the record *)
Found(v, t) == t # None /\ v.head[t] # None

(* a table that is in no cache is read in the caller's transaction *)
GetTableSchema(s, o) ==
  LET t == OwnerOf(view[s], o) IN
  /\ s \in open
  /\ ~Cached(InstOf(s), o)
  /\ Found(view[s], t)
  /\ UpdateTableCache(InstOf(s), t, GetTable(view[s], t))
  /\ disturbed' = [disturbed EXCEPT ![InstOf(s)] = @ \/ Overlaps(s)]
  /\ UNCHANGED <<db, schemas, open, view, wr, used, caught>>

-----------------------------------------------------------------------------
(* DROP TABLE.  PostgreSQL drops the indexes first, and PgGate_NewDropIndex *)
(* is not supported: a table with an index cannot be dropped                *)

CanDropTable(s, t) ==
  /\ s \in open
  /\ view[s].head[t] # None

DeleteTable(s, t) ==
  /\ CanDropTable(s, t)
  /\ IndexesOn(view[s], t) = {}
  /\ NoConflict(s, t)
  /\ Succeed(s, t, DeleteTableMetadata(view[s], t))
  /\ ClearTableCache(InstOf(s), t, BaseTable(s, t))
  /\ UNCHANGED <<db, schemas, used>>

DeleteTableFails(s, t) ==
  /\ CanDropTable(s, t)
  /\ \E v \in DeleteTableMetadataFails(view[s], t) :
       Fail(s, t, IF NoConflict(s, t) /\ IndexesOn(view[s], t) = {} THEN v ELSE view[s])
  /\ UNCHANGED <<db, schemas, caches, used>>

-----------------------------------------------------------------------------
(* The instance dies and starts again with empty caches *)
Restart(i) ==
  /\ info' = [info EXCEPT ![i] = [t \in Tab |-> None]]
  /\ byName' = [byName EXCEPT ![i] = [n \in Name |-> None]]
  /\ idxBase' = [idxBase EXCEPT ![i] = [x \in Idx |-> None]]
  /\ End({s \in Session : InstOf(s) = i})
  /\ disturbed' = [disturbed EXCEPT ![i] = FALSE]
  /\ UNCHANGED <<db, schemas, used, caught>>

Step(s) ==
  \/ Begin(s) \/ Commit(s) \/ Abort(s)
  \/ \E t \in Tab, n \in Name :
       CreateTable(s, t, n) \/ CreateTableRefused(s, t, n) \/ CreateTableFails(s, t, n)
  \/ \E x \in Idx, t \in Tab :
       CreateIndexTable(s, x, t) \/ CreateIndexTableFails(s, x, t)
  \/ \E o \in Tab \cup Idx : GetTableSchema(s, o)
  \/ \E t \in Tab : DeleteTable(s, t) \/ DeleteTableFails(s, t)

Next ==
  \/ \E s \in Session : Step(s)
  \/ \E i \in Inst : Restart(i)

Spec == Init /\ [][Next]_vars

-----------------------------------------------------------------------------
(* The three maps of an instance agree with each other whatever was rolled *)
(* back, caught or done elsewhere: a name leads to a cached table of that  *)
(* name, and the index map holds exactly the indexes of cached tables.     *)
CachesAgree ==
  \A i \in Inst :
    /\ \A n \in Name : LET t == byName[i][n] IN
         t # None => info[i][t] # None /\ info[i][t].name = n
    /\ \A x \in Idx, t \in Tab :
         idxBase[i][x] = t <=> info[i][t] # None /\ x \in info[i][t].idx

(* Metadata commits whole: unless an exception block hid a failed          *)
(* statement, a committed table or index has all its columns and its SKV   *)
(* schema, wherever the writes of a CREATE or a DROP were interrupted.     *)
MetadataWhole ==
  ~caught =>
    /\ \A t \in Tab : db.head[t] # None => t \in db.cols /\ t \in schemas
    /\ \A x \in Idx : db.ibase[x] # None => x \in db.icols /\ x \in schemas

(* However many backends share the maps of an instance: as long as it was  *)
(* not disturbed (relation locks, which keep backends off a table another  *)
(* one is changing, are not modelled) and none of its backends has DDL     *)
(* under way, a cached table is the committed one, with its indexes.       *)
CacheCurrent ==
  \A i \in Inst, t \in Tab :
    /\ ~disturbed[i] /\ ~caught
    /\ \A s \in open : InstOf(s) = i => wr[s] = {}
    /\ info[i][t] # None
    => db.head[t] # None /\ info[i][t] = GetTable(db, t)

=============================================================================
