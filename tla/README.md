# Verification of the K2 integration of openGauss

This directory holds TLA+ models of the code that puts openGauss on top of the
K2 transactional key-value store (SKV, protocol K23SI), the TLC configurations
that check them on small instances, and TLAPS proofs of the properties that
hold for every instance. Paths below are relative to the repository;
`k2/` stands for `src/gausskernel/storage/access/k2/`.

## The system

A cluster is a set of gaussdb instances (processes with many backend threads)
over one external SKV store. An instance keeps no table data: rows, indexes,
the system catalog and the cluster's own metadata are SKV records. What is the
repository's own, beside the openGauss kernel it inherits, is the layer below.

| component | state it keeps | operations | talks to |
|---|---|---|---|
| `TxnManager` (`k2/session.cpp`) | one SKV transaction handle per thread | `beginTxn`, `endTxn`, read, write, query, which begin on demand; the START/COMMIT/ABORT callback | called by `xact.cpp` and by everything below; calls SKV |
| OID reservation (`varsup.cpp`, `SqlCatalogManager::ReservePgOid`) | `nextOid`, `oidCount` in shared memory under `OidGenLock`; `next_pg_oid` of a database in SKV; a cache of it | `GetNewObjectId`, `ReservePgOid`, checkpoint, recovery | runs in the caller's transaction |
| catalog version (`IncrementCatalogVersion`, `postgres.cpp`) | version in the cluster record, in the manager, and next to the caches; refresh flag | increment with every catalog change, check before a command, refresh, error path | runs in the caller's transaction |
| query building (`k2/storage.cpp`, `PgGate_ExecSelect`) | start and end key, leftover conditions | one step per condition; conversion to a full scan | prepares a query |
| fetching (`PgGate_DmlFetch`) | page buffer, page in flight, reads in flight | one fetch per row | awaits SKV |
| table and index catalog (`k2/catalog/sql_catalog_manager.cpp`, `table_info_handler.cpp`) | three meta tables per database, caches by uuid, name and index | create, read and delete tables and indexes | runs in the caller's transaction |
| databases (`dbcommands.cpp`, `SqlCatalogManager`, `database_info_handler.cpp`) | rows of `pg_database` with their index, `DatabaseInfo` records, SKV collections, caches by id and name | CREATE, DROP, RENAME, look up | two transactions of its own (CREATE), or the caller's |
| DML and index maintenance (`k2_table_ops.cpp`, `k2_index_ops.cpp`) | none | row and index entry writes | `TxnManager`, catalog version |
| catalog scans, FK cache (`k2catam.cpp`, `pg_session.cpp`) | scan descriptors, checked references | begin, next, rescan, end | fetching |
| sessions, memory contexts, table descriptors | process-wide maps | create, look up, destroy | all of PgGate |
| start-up, initdb (`pg_gate_api.cpp`, `k2pg_aux.cpp`, `bootstrap.cpp`) | `pg_gate` and its flag; the cluster record with `initdb_done`; collections and schemas | the bootstrap process, init of the gate and of sessions | catalog manager |
| foreign data wrapper, DDL glue, identifiers, conversion | none | translation | PgGate |

### What is hard about it

* The PostgreSQL transaction and the SKV transaction are two things. The second
  can be aborted by the store, lose a request, lose an answer, be ended in the
  middle by CREATE DATABASE, or be left open by reads outside any PostgreSQL
  transaction.
* Recovery from an error calls SKV too, and may fail in turn.
* Shared memory and caches of an instance are changed while the SKV records
  behind them are not committed, and nothing takes the change back.
* Two instances race for the same counters; their only common ground is the
  conflict check of K23SI.
* Versions that mean "up to date" are kept at three places with different
  lifetimes: the cluster, the process, the session.
* Which key field a condition bounds depends on how many values were appended
  before it.
* Pages and parallel reads are in flight while rows are handed out.
* CREATE DATABASE and initdb mix transactional and other changes, and are more
  than one transaction; both may stop anywhere.
* A flag tells the threads of a server that the gate is there, long before it is.

The list of hazards, each with its line and the properties that would catch it,
is in `PROJECT.json`.

### What makes each component correct

* Transactions: an acknowledged commit is durable; a roll back leaves nothing;
  a PostgreSQL transaction reads and writes in one SKV transaction that it began
  itself; ending a transaction always succeeds in the end.
* OIDs: no number twice in one database, none below `FirstNormalObjectId`,
  no wraparound; nobody waits for ever for `OidGenLock`.
* Catalog version: no increment is lost; caches at the master's version miss
  nothing (they may, see below); caches that miss something are reloaded eventually.
* Scans: the key range holds every wanted row, the filters leave only wanted
  rows; every row is handed out once, in order, and the end is the end.
* Table catalog: an object commits with all its records and its SKV schema; the
  three maps of an instance agree with each other, and with the meta tables as
  long as nobody else has changed them.
* Databases: one appears with its record, its collection and its tables or not at
  all; two of one name do not exist; a table goes to the collection of the database
  its session is connected to.
* Start-up: `initdb_done` says that initdb is done; no session works without a
  gate, and every thread gets one in the end.
* Rows and indexes: every row can be found through every index, and every index
  entry leads to a row with its value.

## Modules

| module | models | extends |
|---|---|---|
| `K2Txn` | `TxnManager` and the xact callback, savepoints, CREATE DATABASE, error recursion, crash | |
| `K2TxnProofs` | theorems | `K2Txn` |
| `OidReserve` | `GetNewObjectId`, `ReservePgOid`, `OidGenLock`, checkpoint and recovery | |
| `OidReserveProofs` | theorems | `OidReserve` |
| `CatalogVersion` | increments, checks, refreshes and the error path of the catalog version | |
| `CatalogVersionProofs` | theorems | `CatalogVersion` |
| `TableCatalog` | `SqlCatalogManager` and `TableInfoHandler`: tables and indexes in SKV and in the caches | |
| `TableCatalogProofs` | theorems | `TableCatalog` |
| `RowIndex` | rows and secondary index entries: executor, COPY, index build, catalog updates | |
| `RowIndexProofs` | theorems | `RowIndex` |
| `Databases` | CREATE, DROP and RENAME DATABASE over records, collections and caches; implements `AtomicDatabases` | instance of `AtomicDatabases` |
| `DatabasesProofs` | theorems, and that `Databases` implements `AtomicDatabases` | `Databases` |
| `AtomicDatabases` | what these commands promise readers of `pg_database` (abstract) | |
| `StartUp` | initdb's bootstrap process, the gate and the sessions of a server, the cluster record | |
| `StartUpProofs` | theorems | `StartUp` |
| `RangeScan` | `BuildRangeRecords` and the full scan conversion | |
| `OrderedScan` | what a scan promises its caller (abstract) | |
| `ScanFetch` | `PgGate_DmlFetch`; implements `OrderedScan` | instance of `OrderedScan` |
| `ScanProofs` | theorems about both halves of a scan | `ScanFetch`, `RangeScan` |
| `MC*` | the same for TLC, with symmetry where no liveness is checked | |

The definitions and the lines they stand for are listed under `map` in
`PROJECT.json`. SKV is external and always an environment: what it may do is
taken from how the code uses it.

### K2Txn

`txn[s]` is `_txn` of thread `s`; `skv`, `late` are the store; `pg`, `pgx`,
`sub`, `errs` are the part of `xact.cpp` and `elog.cpp` that drives the
callbacks; `wrote`, `opened`, `verdict`, `split` record history.
`EndTxn` and `BeginTxn` answer with the set of replies the caller may see, each
with the store it leaves behind, so lost requests, lost answers and commits
executed after the client gave up are all replies. `CallbackStart`,
`CommitTransaction` and `AbortTransaction` are the three events of
`K2XactCallback`. `WriteOk` and `WriteFails` stand for all operations that begin
on demand; reads differ only in leaving no write. A failed statement raises, or
an open exception block catches it (`AbortSub`), which calls nothing in K2. An
ERROR inside the recovery re-enters `AbortTransaction`; at
`ERRORDATA_STACK_SIZE` the process dies.

### OidReserve

A session is `<<instance, database, backend>>`. `GetNewObjectId` is one atomic
step when the range is not empty (all of it happens under the lock) and three
when it is: `LockForReserve`, `ReserveRead`, `ReserveWrite`, between which
others run. An Oid has `OidMod` values, and addition and subtraction wrap as
unsigned arithmetic does. `AbortTxn` leaves `OidGenLock` alone, as
`AbortTransaction` does under K2; `ReleaseAll` is the error handler's own
`LWLockReleaseAll`. `lost` remembers that a reservation in use was rolled back, and
`from` in which database's record the range of an instance was reserved: sessions of
all its databases are served from it.

### CatalogVersion

`master`, `mgr` and `cacheVer` are the three copies; the first is the cluster's, the
others belong to an instance and are shared by its sessions (`home`). `st` follows the
loop of `PostgresMain`: the check before a command, the refresh in three steps (fetch
the manager's version, reload this session's caches, publish the version for the
process), the statement, and the error path with its two ways to refresh.
`CatalogChange` raises the record and the manager's copy. `K2PgExecuteInsert`,
`K2PgExecuteDelete` and `K2PgExecuteUpdate` then raise the process-wide copy, whose
`+= 1` takes two steps (`AddRead`, `AddWrite`) because it holds no lock;
`K2PgUpdateSysCatalogTuple` and `K2PgDeleteSysCatalogTuple` do not.
`CatalogChangeFails` is a row that was written before `IncrementCatalogVersion` failed.
The transaction goes on if an exception block catches that, and the change may commit
uncounted (`missed`); the manager's copy goes back to what was read, not to what it was
(`Reverted`). `stale[s]` says that the caches of `s` miss a committed change; it is set
by other instances' commits and cleared by a reload. Within an instance PostgreSQL's
own invalidation messages work, except that a session with an open transaction, that
of a refresh included, may read on in its old snapshot after it has taken them.

### TableCatalog

`db` holds the committed records of the three meta tables of one database,
`schemas` the SKV schemas, which are not transactional. `info`, `byName` and
`idxBase` are `table_uuid_map_`, `table_name_map_` and `index_uuid_map_` of each
instance. `view[s]` is what the transaction of `s` sees (its snapshot and its own
writes) and `wr[s]` what it has written. One manager call is one step: it runs
under `lock_`, and nothing another session does in the meantime is visible to its
transaction. A call that fails half way leaves one of the prefixes of its writes
(`PersistTableMetaFails` and its like); the ERROR then rolls the transaction back,
or an exception block catches it (`caught`) and the prefix stays. A transaction
SKV has aborted is rolled back in the same step (`Abort`), as its later
statements fail without effect. PostgreSQL drops the indexes of a table before
the table, and `PgGate_NewDropIndex` is not supported, so a DROP of a table with
an index always fails. `disturbed[i]` says that the caches of `i` have a reason
to differ from the meta tables: DDL was rolled back in `i`, or overlapped a statement
of another of its backends, or was committed elsewhere or behind the snapshot of one
of its backends. Renaming changes only
PostgreSQL's own catalog.

### RowIndex

One table with one secondary index; `kind` says whether it is a user table or a
system catalog, `unique` whether the index is unique. `db.row` maps a primary key
to the value of the indexed column, `db.idx` an index key to the base row its
record names; `KeyOf` is `PrepareIndexWriteStmt`, with the base row in the key
unless the index is unique and the value not null. Transactions have a snapshot
with their own writes (`view`), the records they wrote (`wr`) and those committed
behind their snapshot (`newer`), which K23SI does not let them write. One
statement on one row is one step, as others see nothing of it before the commit;
`ExecCaught` and `CatalogCaught` are the statements that fail half way inside an
exception block, `Abort` those that fail outside. The executor never deletes index
entries of a K2 table; the catalog functions delete all entries of a row and
insert the new one. `CatalogUpdateGone` updates a row taken from a cache after it
was deleted. Catalog changes also write the version record `Ver`, so two of them
that overlap conflict, except inserts into catalogs without cached lists.
`NotInUse` is the lookup by name that CREATE and RENAME make through the syscache,
which under K2 keeps next to no negative entries (`SearchCatCacheMiss`) and so reads
the catalog; nothing in the index itself refuses a duplicate.

### Databases and AtomicDatabases

`db` holds the committed records: `row` and `idx` are `pg_database` and its index
by name, `rec` the `DatabaseInfo` records, `tab` the databases whose tables have
been copied. `coll` are the SKV collections with their meta tables, which are not
transactional. `byId` and `byName` are `database_id_map_` and `database_name_map_`
of each instance. The store is modelled closer than in the other modules, because
what keeps two CREATE DATABASE apart is only that one of them has *read* the list
of records: a transaction has its timestamp when it begins, may not write what a
later one has read or written (`late`), and does not read past pending writes of an
earlier one (`before`). Timestamps are orders among open transactions, so the state
space is finite without a bound on their number. A row is never read without its
index entry nor written without it, so reads of rows need no record of their own.

CREATE DATABASE is `CreateDatabase` (up to the commit in the middle), `EndFirst`,
`Copy`, `InsertRow` and `Commit`; `CreateFails`, `CreateRefused` and `Abort` are
the ways it ends early. `Lookup` is `CheckAndLoadDatabaseByName`: it believes the
cache if it has the name, reads the list otherwise, and takes a list that cannot be
read for one without the name (`blind`). DROP deletes row, entries and record and,
because of `!!status.is2xxOK()`, leaves the caches alone when it succeeds and cleans
them when it fails. RENAME changes row and entry and never the record. Locks and the
count of backends (`Alone`) reach as far as the instance. `CreateTable`, `OpenTable`
and `Reserve` are the other callers of the caches; `ReservePgOid` takes the manager's
`lock_` only at its end, so others run between `Reserve` and `CacheReserved`. `touched` are the names whose
database was dropped, renamed or not finished.

`AtomicDatabases` has one variable: an OID is free, coming, gone, or names a
database. The mapping calls a database whose row is committed without record,
collection or tables "broken", which no abstract step produces.

### StartUp

A bootstrap process `b` runs `BootStrapProcessMain` and `BootstrapModeMain` call by
call; `pc[b]` names what it has behind it. `made` are collections and schemas, `info`
the committed cluster record, `tdb` the record of template1, `rows` the commands of
the bootstrap file that have committed. The manager's own fields are `initDone`
(`init_db_done_`), `version`, `started` (`initted_`) and `cached`. The manager's
`CommitTransaction` and `AbortTransaction` are empty functions, so all of
`InitPrimaryCluster` and the creation of template1 are one SKV transaction that
`K2PgCommitTxn` ends. The process may fail after every call, and a commit may go
through although it is told otherwise (`CommitReplyLost`). That createCollection
fails for a collection that exists is assumed of SKV.

With `K2PG_LOCAL_NODE_INITDB` set the process makes nothing and does not call
`FinishInitDB` (`LocalMode`, `LocalEnd`). The two sides read the variable differently:
for "1" initdb sends no line of the bootstrap file (`initdb.cpp:1516`), and the process
ends at once; "true" is the local mode to the bootstrap process only
(`k2pg_aux.cpp:591`), which gets the whole file: it stops at the check for
`initdb_done` ("already") or runs the commands on what another run has made.

A thread of a server goes through `PgGate_InitPgGate` in three steps: it reads the
flag, sets it, and assigns `pg_gate` when the constructor, which asks SKV, returns.
Then `K2PgInitSession` checks both, and the session takes the gate it finds. A gate
is named after the thread that made it, as two threads may each make one. Sessions
that run `IncrementCatalogVersion` write the cluster record with the `initdb_done`
of their gate's manager; `unaware` are the managers whose `Start` failed or came too
early. The constructor ignores the status of `Start`, and `initted_` is checked
nowhere else. Sessions change the catalog only once all its rows are there.

### RangeScan

One action per operator class; the state is the loop's. Rows are tuples of small
numbers. A list may have more conditions than the key has columns, two bounds on one
column among them. `Scanned` is what SKV does with the two keys; it is external. A key
with more values than columns, which only lists that are not orderly lead to, runs into
fields of other columns; where the type differs SKV refuses it and the query fails, and
the model lets it through.

### ScanFetch and OrderedScan

Rows are numbered. A page holds any number of the next rows, none included. `OrderedScan`
hands out rows in order, then the end, or fails. `PgGate_DmlFetch` takes a page
without rows for the end of the data, so the end that `OrderedScan` allows is: all rows
sent were handed out, and these are all there are or the store has just sent an empty
page while rows remain (`hole`). `ScanFetch` implements it with the identity mapping.

## Runs

| run | what it asks | bounds |
|---|---|---|
| `k2txn` | durability, atomicity, snapshots and handles under every failure | two threads, three SKV transactions, one PostgreSQL transaction each, an error stack of two |
| `k2txn_abort_raises` | does the recovery from an error raise again (it does) | one thread |
| `oid_reserve` | do ranges and OIDs stay apart up to the end of the OID space and across a crash, does `OidGenLock` come free | two instances in one database, or two backends of one instance in two databases with checkpoints and one crash; 6 OIDs, ranges of two |
| `catalog_version` | counting, how far the manager gets ahead, catching up with own changes | two sessions, of one instance or of two, two versions |
| `catalog_caches` | do caches at the master's version miss nothing (they may) | three sessions of one instance or of two, three versions |
| `table_catalog` | do tables and indexes commit whole, do the caches agree | one backend in each of two instances, or two in one; two tables of one name, one index |
| `row_index` | is a catalog's index exact, does a user table's index miss a row | two backends, two rows, one value and null, three transactions |
| `row_index_dangling` | does every entry of a user index lead to a row (it does not after DELETE and UPDATE) | one backend, two rows |
| `range_scan` | every list of up to four conditions on a key of three columns | values 0..1 |
| `scan_fetch` | do pages, empty ones too, and parallel reads implement the ordered scan | ten rows, three reads |
| `databases` | does a database appear and go whole, under one name, and do its tables go home | two sessions on one or two instances, template1 and two more databases, one name besides template1's |
| `start_up` | what does `initdb_done` mean, who has a gate | two runs of initdb, two commands, one server with two threads, three catalog versions |

Why the bounds are enough. Three SKV transactions let a thread leave one behind,
begin another, and a second thread hold a third. An error stack of two is the
smallest on which recursion, recovery and overflow all happen. Six OIDs with
ranges of two give two reservations, the last of them cut by the end of the
space; the race for a record and the life of a shared range over a restart
are two families of initial states (`part`) of one run. Two
sessions race for the version of one instance or of two, whichever `home` says, and two
versions let one count while the other reads, conflicts, reverts or publishes. One
backend in each of two instances, or two in one, are the two ways in which caches are
shared or not (`part`). Two tables that
take turns with one name are the least for a name to lead to the wrong table, and
one index moves between no base table, a cached and an uncached one. Two rows and
one value besides null are enough for two rows to meet at one index key and for a
row to move between two; three transactions let two overlap and a third commit in
between. Lists of four conditions on three columns show everything the loop
distinguishes: first, same, next and later column, and the longest orderly list
that has two equalities and both bounds. Ten rows and three reads fill
the reads, leave rows over in the page, and empty both. Two databases that compete
for one name, or take it in turn, are the least for a stale cache entry, and two
sessions for one to act between the two transactions of the other. Two runs of initdb
meet in every state of the first; two commands give a catalog that is half full; with
two threads one finds the flag and not the gate, or both make one.

The runs of `RangeScan`, `ScanFetch` and `RowIndex` switch off the deadlock check:
a query is built, a scan ends, or the `MaxTxn` transactions that clients send are
over, and nothing follows. Everywhere else the system may not stop.

### Fairness

`OidReserve!FairSpec`: a backend inside `GetNewObjectId` or in the error handler
goes on, because every SKV call answers or times out (`op_timeout_ms`). Nothing
else is fair: clients may stop. `CatalogVersion!FairSpec`: clients keep sending
commands and end their transactions (the property says "at some later command"), every
command ends, and a refresh that is tried again and again does not fail every time
(strong fairness of `RefreshLoad`, a failure of SKV being transient). `StartUp!FairSpec`: a thread
that has set the flag goes on to `MakeGate`, because the constructor waits only for
SKV calls, each of which answers or times out.

### What the violated properties show

Each states what a comment or a document says; `findings` in `PROJECT.json`
quotes it.

* The ABORT callback raises on every status but 2xx. After a failed commit
  the handle is gone, so it always gets 410.
* `k2pg_catalog_cache_version` may be the master's while caches are stale. A backend
  raises the version, another one of its instance fetches it, reloads the catalog as it
  still is, and publishes the version after the first has committed. Another way is
  longer: another instance changes the catalog, one backend learns of it and refreshes,
  and what it publishes counts for all backends, whose caches nobody reloads.
* UPDATE and DELETE of a user table leave the old index entry behind:
  `ExecDeleteIndexTuples` returns at once for tables not in ustore format.

### What the properties exclude

Some properties hold only outside a case that the code does get into. The case is
named in the property, and dropping it makes TLC find the trace:

* `NodesDistinctUnlessLost` without `~lost`: a reserved OID range is used at once
  and committed with the caller. After a roll back another instance reserves it
  again, and one OID is handed out on two nodes, although `varsup.cpp:540` says that
  "OIDs are generated by a cluster-wide counter".
* `OrderlyLosesNothing` without `Orderly`: a value is appended to a key by count,
  not by column. `a >= 0 AND b = 0` builds an end key that stops before the rows with
  `a > 0`; the comment at `storage.cpp:434` counts on filtering afterwards, which
  needs a superset.
* `TablesAtHome` without `touched`: DROP leaves the name in the caches
  (`sql_catalog_manager.cpp:437`), a failed CREATE too (`:325`), and RENAME does not
  change them. A free name is refused from then on as "already existed", or, after
  another instance has made a database of that name or one was renamed to it, CREATE
  TABLE goes to the collection of the old one.
* `OneRecordPerName` is about records. For *rows* it fails: CREATE commits in the
  middle (`:340`), so a RENAME to the same name by another session may come between
  its check and its insert; index entries are upserted, and one of the two databases
  can no longer be found. The comment at `dbcommands.cpp:508` counts on a unique index.
* `OneRecordPerName` without `blind`: `LoadDatabases` ignores a list that fails.
* `DoneKeptByTheAware` without `overwrote`: a server that was started before initdb
  finished, or whose `Start` failed, clears `initdb_done` with its first catalog
  change (`:256`), although `:47` says that only `InitPrimaryCluster` is allowed then.

Further divergences were seen on these models with other constants or
properties, and are not kept as runs: a CREATE TABLE that is rolled back leaves
its name in `table_name_map_`, and the instance refuses the name from then on; a unique
index of a user table does not keep values unique, because `K2PgExecuteInsertIndex`
always upserts; COPY into a table with an index adds no entries; updating a catalog
row that another transaction has deleted writes an index entry that leads nowhere;
the ranges of two databases' records may overlap, and an instance serves sessions of
both from the one it has, so one OID may be handed out twice in one database without
any roll back; the manager's and the process-wide version stay ahead after a roll back,
and another instance's commit may reach their number; the cached `next_pg_oid` stays ahead of the record; ROLLBACK
TO a savepoint, and an exception block, undo nothing in SKV (`session.cpp` says
so); and nothing updates the manager's version from SKV (the background task is
commented out in `SqlCatalogManager::Start`), so a change made elsewhere is never
noticed by an instance that changes nothing itself.

Seen while reading, and not modelled: the key of `table_name_map_` lacks the
PostgreSQL schema, so two schemas cannot hold tables of one name; `DeleteIndex` and
`DeleteIndexMetadata` are reached by no caller; `CreateDatabase` computes the
source's `next_pg_oid` ("generate new", `:286`) and does not use it; collections are
never dropped; a CREATE DATABASE cut short after its first transaction leaves a record
that keeps its name for ever; initdb run again on a finished cluster fails in
`CreateDatabase` of template1, before the bootstrap file's check for
`initdb_done` that would end it quietly (`bootparse.y:453`), so the state "already" of
`StartUp` is reached only in the local mode; the callers of `simple_heap_delete` on
a catalog, DROP FUNCTION among them, get an error; the cache of checked foreign
keys is never cleared (`PgGate_ClearForeignKeyReferenceCache` has no caller), so it
outlives a roll back; COPY fires no foreign key trigger.

## Proofs

`tlapm` checks the eight proof modules to the last leaf. Every safety invariant and
action property of the passing runs is stated by a theorem, and so are both
refinements. They need no hypothesis beyond the named `ASSUME`s of the modules.

**K2TxnProofs.** `TxnTypes`, `CommittedIsDurable` (`AckedCommitDurable`),
`RollbackIsClean` (`RolledBackLeavesNothing`), `WritesInOwnSnapshot` (`OwnSnapshot`),
`OneUnit` (`AtomicUnit`) and `HandlesLive` (`HandleLive`), for any number of threads,
SKV transactions and PostgreSQL transactions and any size of the error stack. Two
things outlive the operation that caused them: a commit request nobody waits for
(`late`), and the handle in `_txn`. So the invariant says who may still change a
transaction: one that a thread holds is neither committed nor about to be, and held
by nobody else (`Handles`); one that was not begun is unknown (`Begun`); a running
PostgreSQL transaction holds one of its own (`Running`) and wrote through no other,
but for the half CREATE DATABASE has committed (`OneHandle`); what an open or rolled
back transaction wrote is not committed and no request for it is under way
(`Unsettled`). The operations are first summed up as kinds of steps (begin, end,
work, the two halves of CREATE DATABASE, crash), and each kind keeps the invariant.

**CatalogVersionProofs.** `TypeCorrect` and `MasterCountsIncrements`:
the committed version is one plus the increments of committed transactions, for
any number of instances and backends. The property alone is not inductive: a
commit adds `bumped[s]` on one side and takes `pend[s]` on the other, so the
invariant has to say what an open transaction has pending. `PendingCounts`:
a pending version is the master's plus the transaction's own increments;
`NothingPending`: no pending version, not killed, no increments; `OnePending`:
at most one transaction has a pending version.
`ManagerBehindRecord` (`ManagerNotAhead`) adds that no snapshot is ahead of the master.
So `IncrementCatalogVersion` reads at most the master's version plus what its own
transaction has added (`ReadBound`), and neither an increment nor a failed one takes the
manager's copy further; a commit moves the master by what the transaction had added.

**OidReserveProofs.** Four theorems: types (the wrapped arithmetic never leaves
the width of an Oid), `RangesDisjoint`, `NoRepeat` and `NormalOids`, for any
number of instances, databases and backends and any prefetch. The inductive
invariant adds: who holds `OidGenLock` and what the others may be doing
(`LockInv`), what a reserving session has read and computed (`WriteInv`),
what an open transaction has written (`PendInv`), that at most one transaction
has an intent on a record (`OneIntent`), that the ranges an open transaction
holds lie between what it read and what it wrote, apart from each other
(`HeldInv`), that committed ranges lie below the record (`DoneInv`), and that
what was handed out lies below the instance's counter (`IssueInv`).
`NodesDistinct` (`NodesDistinctUnlessLost`): an instance has one range for all its
databases, so the invariant follows the database whose record it came from (`from`).
Whatever was handed out, and what is left in any instance's range, lies below an end that
is reserved in that record or written by an open transaction; what is left was not handed
out from the same record and lies in one of its ranges only (`NodesInv`).
This survives a roll back only where nothing of the range is in use, which is what
`lost` records.

**TableCatalogProofs.** `TypeCorrect`, `MapsAgree` (`CachesAgree`) and
`CommitsWhole` (`MetadataWhole`), for any number of instances, backends, tables,
indexes and names. A table leaves all maps
together only if every place that knows it, the committed records, the views and
the maps of all instances, knows it under one name (`OneName`), and an index under
one base table (`OneBase`); this holds because OIDs are not handed out again.
`MetadataWhole` is about committed records; `AllWhole` says it of
every open transaction's view, so that a commit keeps it.
`CachesCurrent` (`CacheCurrent`), for any number of backends in an instance: undisturbed,
they see the committed records outside what they wrote, at most one of them has DDL under
way, and every cached table is as that one sees it, or as it is committed when there is
none (`UpToDate`). A statement of another backend during that DDL counts as a
disturbance: it could read and cache a table that is dropped and not yet committed. In
PostgreSQL relation locks prevent that for the same table; they are not modelled.

**RowIndexProofs.** `TypeCorrect`, `CatalogIndexesExact` and
`UserIndexesComplete`, for any number of backends, rows, values and transactions.
For a catalog the invariant says that every view is exact as well, that every key
an entry is found under is one its row can have, that a transaction sees the
committed records outside what it wrote and what was committed behind its snapshot
(`Isolated`), and that the records belonging to one row, before and after, are
written together or not at all (`Together`); a commit then merges two exact stores
along a set of records that cuts through no row (`ExactMerge`). For a user table
the entries that hold their base row are never erased, so completeness needs
neither isolation nor conflicts (`UserInv`).

**StartUpProofs.** `TypeCorrect`, `DoneIsComplete` (`DoneMeansComplete`),
`ManagerStartedOnce` (`StartedOnce`) and `GateForEverySession` (`SessionsHaveGate`),
for any number of runs of initdb, servers and threads and a bootstrap file of any
length. A committed `initdb_done` is copied to managers, from them to records that
sessions write, and back, so the invariant says of all three that they are right
(`DoneInv`). That the process which finishes has made everything itself follows from
how far it is (`BootInv`); a process that took the short cut over `initdb_done` finds
template1 made and does not get that far. Nothing that was made goes away
(`StoreGrows`). `StartInv` and `SessionInv` say who is started and who has a gate and
a record to increment.
`DoneIsKept` (`DoneKeptByTheAware`) adds that the primary collection is made once, so one
run at most gets past it (`OneMaker`); that until this run has ended nobody has heard that
initdb is done, so no earlier copy can be written back (`NotYet`); and that every manager
a session works with knows it or is counted among the unaware, and stays the manager as
long as it is used (`AwareInv`).

**ScanProofs.** About `ScanFetch`: `ScanTypes`, and `FetchRefines`, that
`PgGate_DmlFetch` implements `OrderedScan`, for any number of rows, any page sizes and
any limit on parallel reads. The rows the store has sent are cut into three runs of
consecutive rows, handed out, being read from the base table, and waiting (`Cut`); a page
is under way as long as rows remain and the scan has not ended (`Flow`).
About `RangeScan`: `KeyTypes`, `RangeLosesNothing` (`OrderlyLosesNothing`) and
`RangeIsExact` (`OrderlyIsExact`), for keys of any number of columns, lists of any number
of conditions and any values.
For an orderly query the two keys are a common prefix of EQ values, one per column, then
at most one value each, a lower and an upper bound on the next column; every condition
outside the prefix is a filter as well, and the loop is at the column after the prefix as
long as it has neither bounds nor branched (`Shape`). A row between two such keys has the
prefix.

**DatabasesProofs.** `DatabasesTypes`, `NameHasOneRecord` (`OneRecordPerName`),
`TablesGoHome` (`TablesAtHome`), `RecordsGoWithRows` (`RecordGoesWithRow`) and
`DatabasesRefine` (`ImplementsAtomicDatabases`), for any number of instances, backends,
OIDs and names. The invariant has three layers. *Transactions*: two open ones are ordered
(`InOrder`), write apart (`Exclusive`), write nothing a later one has read (`NotLate`)
and see what is committed but for their own writes and those of later ones (`Agree`).
*What is written*: CREATE DATABASE has a target of its own that nobody else sees
(`Targets`, `Unused`, `Hidden`), how far it is says what is there (`Stages`), and a row
or record is written by one of the three commands and by no other (`RowWrites`,
`RecWrites`), so a committed row is whole (`WholeRows`). *Names*: what views and
caches say of a name that was never dropped or renamed has a source, a record or a
creator (`Mentions`), and one only (`OneSource`). That two creators cannot both find
their name free is not visible in any single state: it needs `Fenced` (whoever is before
a creator can write no record any more, because the creator has read them all) and
`NewSince` (nor can those who do not see a record that is new).
In the refinement the first write of CREATE DATABASE is `Pick`, its last commit
`Appear`, the other commits `Drop` or `Rename`, giving up `GiveUp`, and every other step
a stutter.

Assumptions are the named `ASSUME`s of the modules: constants are naturals, the
OID space has room for one normal OID, a range is shorter than the space, a run of
initdb is not a thread of a server. The value `None` is none of the others.

Only model-checked: liveness (`LockReleased`, `OwnChangesSeen`, `FlagBringsGate`),
because the prover does not handle fairness.

## Plan

1. `ScanFetch` composed with `K2Txn`, once it is known where boost runs the
   continuations of requests that nobody waits for.
2. Relation locks in `TableCatalog`, so that backends that change different tables at
   once need not count as disturbing each other.

## Not modelled

* Conversion of values between PostgreSQL datums and SKV fields, schemas,
  configuration, status texts and the foreign data wrapper's planner glue have no
  state of their own. A catalog scan is a query and a fetch per row, and both are
  modelled.
* The cache of checked foreign keys (`pg_session.cpp:108`). It is filled by
  `RI_FKey_check` for K2 tables only, and that does not get as far: the trigger's row
  is looked up by a `t_self` that K2 rows do not have (`trigger.cpp:4925`), so the
  check is not made for them.
* The process-wide map of memory contexts (`pg_memctx.cpp:50`) is a
  `std::unordered_map` changed by all threads without a lock. This is undefined
  behaviour with every outcome, and nothing in the repository says what should hold.
* The thread pool: a session is bound to a thread. `TxnManager` registers its callback
  once per thread, for the session that happens to be there.
* The openGauss kernel is modelled only where the integration drives it or changed it.
