------------------------------ MODULE RowIndex ------------------------------
(***************************************************************************)
(* The rows of one table and the entries of its secondary index, as        *)
(* k2_table_ops.cpp and k2_index_ops.cpp write them.  Both are SKV records *)
(* of their own, written one after the other in the caller's transaction.  *)
(*                                                                         *)
(* A user table is changed by the executor (nodeModifyTable.cpp, COPY,     *)
(* CREATE INDEX); a system catalog by CatalogTupleInsert and its like      *)
(* (indexing.cpp).  The two maintain the index in different ways.          *)
(*                                                                         *)
(* A statement on one row is one step: the store shows its transaction     *)
(* nothing but the snapshot and its own writes.  If it fails half way an   *)
(* exception block may catch the error and what was written stays written. *)
(***************************************************************************)
EXTENDS Naturals

CONSTANTS
  Sess,     \* backends
  Row,      \* primary keys, k2pgctid
  Val,      \* values of the indexed column
  Null,     \* SQL's null
  Ver,      \* the record of the catalog version
  Kinds,    \* kinds of table to consider: "user", "catalog"
  MaxTxn,   \* bound on the number of transactions
  None      \* "no value"

ASSUME RowAssumption ==
  /\ None \notin Row
  /\ None \notin Val \cup {Null}
  /\ Null \notin Val
  /\ Ver \notin Row
  /\ Ver \notin (Val \cup {Null}) \X (Row \cup {None})
  /\ Row \cap ((Val \cup {Null}) \X (Row \cup {None})) = {}
  /\ Kinds \subseteq {"user", "catalog"}
  /\ MaxTxn \in Nat

Field == Val \cup {Null}

(* Index records: the indexed column, and the base row if it is in the key *)
IdxKey == Field \X (Row \cup {None})

Store == [row : [Row -> Field \cup {None}], idx : [IdxKey -> Row \cup {None}]]

Rec == Row \cup IdxKey \cup {Ver}

VARIABLES
  kind,     \* what kind of table it is
  unique,   \* is the index unique
  built,    \* does the index exist
  db,       \* the committed records
  begun,    \* number of transactions so far
  open,     \* backends with a transaction under way
  view,     \* view[s]: the records as its transaction sees them
  wr,       \* wr[s]: the records it has written
  newer,    \* newer[s]: the records others have committed behind its snapshot
  once,     \* rows that have been committed
  caught,   \* has an exception block caught a statement that failed half way
  stale,    \* has a catalog row been updated that was no longer there
  copied    \* has COPY been used on a table with an index

table == <<kind, unique>>
history == <<once, caught, stale, copied>>
vars == <<kind, unique, built, db, begun, open, view, wr, newer, once, caught, stale, copied>>

Empty == [row |-> [r \in Row |-> None], idx |-> [k \in IdxKey |-> None]]

TypeOK ==
  /\ kind \in Kinds
  /\ unique \in BOOLEAN
  /\ built \in BOOLEAN
  /\ db \in Store
  /\ begun \in 0..MaxTxn
  /\ open \subseteq Sess
  /\ view \in [Sess -> Store]
  /\ wr \in [Sess -> SUBSET Rec]
  /\ newer \in [Sess -> SUBSET Rec]
  /\ once \subseteq Row
  /\ caught \in BOOLEAN /\ stale \in BOOLEAN /\ copied \in BOOLEAN

(* System catalogs have their indexes from the start *)
Init ==
  /\ kind \in Kinds
  /\ unique \in BOOLEAN
  /\ built = (kind = "catalog")
  /\ db = Empty
  /\ begun = 0
  /\ open = {}
  /\ view = [s \in Sess |-> Empty]
  /\ wr = [s \in Sess |-> {}]
  /\ newer = [s \in Sess |-> {}]
  /\ once = {}
  /\ caught = FALSE /\ stale = FALSE /\ copied = FALSE

-----------------------------------------------------------------------------
(* Transactions *)

Begin(s) ==
  /\ s \notin open
  /\ begun < MaxTxn
  /\ begun' = begun + 1
  /\ open' = open \cup {s}
  /\ view' = [view EXCEPT ![s] = db]
  /\ UNCHANGED <<table, built, db, wr, newer, history>>

End(s) ==
  /\ open' = open \ {s}
  /\ view' = [view EXCEPT ![s] = Empty]
  /\ wr' = [wr EXCEPT ![s] = {}]

Commit(s) ==
  LET v == view[s] IN
  /\ s \in open
  /\ db' = [row |-> [r \in Row |-> IF r \in wr[s] THEN v.row[r] ELSE db.row[r]],
            idx |-> [k \in IdxKey |-> IF k \in wr[s] THEN v.idx[k] ELSE db.idx[k]]]
  /\ End(s)
  /\ newer' = [q \in Sess |-> IF q = s THEN {}
                              ELSE IF q \in open THEN newer[q] \cup wr[s] ELSE {}]
  /\ once' = once \cup {r \in Row : db'.row[r] # None}
  /\ UNCHANGED <<table, built, begun, caught, stale, copied>>

(* ROLLBACK, a failed commit, a push, or the ERROR of a failed statement *)
Abort(s) ==
  /\ s \in open
  /\ End(s)
  /\ newer' = [newer EXCEPT ![s] = {}]
  /\ UNCHANGED <<table, built, db, begun, history>>

(* K23SI lets s write the records W *)
NoConflict(s, W) ==
  /\ W \cap newer[s] = {}
  /\ \A q \in Sess \ {s} : W \cap wr[q] = {}

(* s has written the records W and now sees v *)
Write(s, W, v) ==
  /\ NoConflict(s, W)
  /\ view' = [view EXCEPT ![s] = v]
  /\ wr' = [wr EXCEPT ![s] = @ \cup W]
  /\ UNCHANGED <<table, db, begun, open, newer, once>>

-----------------------------------------------------------------------------
(* Records *)

(* PrepareIndexWriteStmt: the base row is part of the key, except in a     *)
(* unique index without nulls                                              *)
KeyOf(x, r) == IF unique /\ x # Null THEN <<x, None>> ELSE <<x, r>>

WithRow(v, r, x) == [v EXCEPT !.row[r] = x]

(* mutant: the entry holds the value in place of the base row *)
WithEntryOfValue(v, x, r) == [v EXCEPT !.idx[KeyOf(x, r)] = x]

(* K2PgExecuteInsertIndex: always an upsert *)
WithEntry(v, x, r) == [v EXCEPT !.idx[KeyOf(x, r)] = r]

EntriesOf(v, r) == {k \in IdxKey : v.idx[k] = r}

(* mutant: the old entries stay *)
WithoutEntriesNot(v, r) == v

(* K2PgDeleteIndexRowsByBaseK2Pgctid *)
WithoutEntries(v, r) ==
  [v EXCEPT !.idx = [k \in IdxKey |-> IF @[k] = r THEN None ELSE @[k]]]

-----------------------------------------------------------------------------
(* A user table *)

(* ExecInsert.  The row must not exist (NotExists); nothing is asked of    *)
(* the index                                                               *)
CanInsert(s, r) ==
  /\ s \in open
  /\ kind = "user"
  /\ view[s].row[r] = None

ExecInsert(s, r, x) ==
  LET v == WithRow(view[s], r, x) IN
  /\ CanInsert(s, r)
  /\ IF built THEN Write(s, {r, KeyOf(x, r)}, WithEntry(v, x, r))
              ELSE Write(s, {r}, v)
  /\ UNCHANGED <<built, caught, stale, copied>>

(* COPY calls K2PgExecuteInsert and no more *)
CopyFrom(s, r, x) ==
  /\ CanInsert(s, r)
  /\ Write(s, {r}, WithRow(view[s], r, x))
  /\ copied' = (copied \/ built)
  /\ UNCHANGED <<built, caught, stale>>

CanModify(s, r) ==
  /\ s \in open
  /\ kind = "user"
  /\ view[s].row[r] # None

(* mutant: the new entry is not added *)
ExecUpdateRowOnly(s, r, x) ==
  /\ CanModify(s, r)
  /\ Write(s, {r}, WithRow(view[s], r, x))
  /\ UNCHANGED <<built, caught, stale, copied>>

(* ExecUpdate.  ExecDeleteIndexTuples returns at once, as the table is not *)
(* in ustore format; the new entry is added                                *)
ExecUpdate(s, r, x) ==
  LET v == WithRow(view[s], r, x) IN
  /\ CanModify(s, r)
  /\ IF built THEN Write(s, {r, KeyOf(x, r)}, WithEntry(v, x, r))
              ELSE Write(s, {r}, v)
  /\ UNCHANGED <<built, caught, stale, copied>>

(* ExecDelete, the same *)
ExecDelete(s, r) ==
  /\ CanModify(s, r)
  /\ Write(s, {r}, WithRow(view[s], r, None))
  /\ UNCHANGED <<built, caught, stale, copied>>

(* The row is written and its index entry is not; the error is caught.     *)
(* Bound: this happens once                                                *)
ExecCaught(s, r, x) ==
  /\ ~caught
  /\ built
  /\ CanInsert(s, r) \/ CanModify(s, r)
  /\ Write(s, {r}, WithRow(view[s], r, x))
  /\ caught' = TRUE
  /\ UNCHANGED <<built, stale, copied>>

(* CREATE INDEX: k2inbuild inserts an entry for every row.  A ShareLock    *)
(* keeps writers out.  If two rows of a unique index have one value, one   *)
(* entry overwrites the other                                              *)
BuildIndex ==
  /\ ~built
  /\ open = {}
  /\ built' = TRUE
  /\ \E f \in [IdxKey -> Row \cup {None}] :
       /\ \A k \in IdxKey : LET R == {r \in Row : db.row[r] # None /\ KeyOf(db.row[r], r) = k}
                            IN IF R = {} THEN f[k] = None ELSE f[k] \in R
       /\ db' = [db EXCEPT !.idx = f]
  /\ UNCHANGED <<table, begun, open, view, wr, newer, history>>

-----------------------------------------------------------------------------
(* A system catalog *)

(* callers look a name up before they use it in a unique index *)
NotInUse(v, x, r) == unique /\ x # Null => \A q \in Row \ {r} : v.row[q] # x

(* CatalogUpdateIndexes: the entries of the row are deleted and its new    *)
(* one is inserted                                                         *)
CatalogUpdateIndexes(v, x, r) == WithEntry(WithoutEntries(v, r), x, r)

Reindexed(v, x, r) == EntriesOf(v, r) \cup {KeyOf(x, r)}

(* simple_heap_insert, CatalogUpdateIndexes.  The catalog version is       *)
(* incremented with the row if RelationHasCachedLists                      *)
CatalogInsert(s, r, x) ==
  LET v == WithRow(view[s], r, x) IN
  /\ s \in open
  /\ kind = "catalog"
  /\ view[s].row[r] = None
  /\ NotInUse(view[s], x, r)
  /\ \E V \in {{}, {Ver}} :
       Write(s, {r} \cup V \cup Reindexed(v, x, r), CatalogUpdateIndexes(v, x, r))
  /\ UNCHANGED <<built, caught, stale, copied>>

(* simple_heap_update, CatalogUpdateIndexes *)
CatalogUpdate(s, r, x) ==
  LET v == WithRow(view[s], r, x) IN
  /\ s \in open
  /\ kind = "catalog"
  /\ view[s].row[r] # None
  /\ NotInUse(view[s], x, r)
  /\ Write(s, {r, Ver} \cup Reindexed(v, x, r), CatalogUpdateIndexes(v, x, r))
  /\ UNCHANGED <<built, caught, stale, copied>>

(* The tuple came from a cache and its row is gone: "412 Precondition      *)
(* failed is not an error for PG in this case", and the index is updated   *)
CatalogUpdateGone(s, r, x) ==
  LET v == view[s] IN
  /\ s \in open
  /\ kind = "catalog"
  /\ v.row[r] = None
  /\ r \in once
  /\ NotInUse(v, x, r)
  /\ Write(s, {Ver} \cup Reindexed(v, x, r), CatalogUpdateIndexes(v, x, r))
  /\ stale' = TRUE
  /\ UNCHANGED <<built, caught, copied>>

(* CatalogTupleDelete: the row, and then its entries.  Deleting a row that *)
(* is gone is no error either                                              *)
CatalogTupleDelete(s, r) ==
  LET v == WithRow(view[s], r, None) IN
  /\ s \in open
  /\ kind = "catalog"
  /\ r \in once \/ view[s].row[r] # None
  /\ Write(s, {Ver} \cup {q \in {r} : view[s].row[r] # None} \cup EntriesOf(v, r),
           WithoutEntries(v, r))
  /\ UNCHANGED <<built, caught, stale, copied>>

(* A statement on a catalog, a DELETE if x is None, fails after the row or *)
(* after the old entries; the error is caught.  Bound: this happens once   *)
CatalogCaught(s, r, x) ==
  LET v == WithRow(view[s], r, x) IN
  /\ ~caught
  /\ s \in open
  /\ kind = "catalog"
  /\ view[s].row[r] # None \/ x # None
  /\ \/ Write(s, {r, Ver}, v)
     \/ Write(s, {r, Ver} \cup EntriesOf(v, r), WithoutEntries(v, r))
  /\ caught' = TRUE
  /\ UNCHANGED <<built, stale, copied>>

Next ==
  \/ \E s \in Sess :
       \/ Begin(s) \/ Commit(s) \/ Abort(s)
       \/ \E r \in Row, x \in Field :
            \/ ExecInsert(s, r, x) \/ CopyFrom(s, r, x) \/ ExecUpdate(s, r, x)
            \/ CatalogInsert(s, r, x) \/ CatalogUpdate(s, r, x) \/ CatalogUpdateGone(s, r, x)
            \/ ExecCaught(s, r, x)
       \/ \E r \in Row, x \in Field \cup {None} : CatalogCaught(s, r, x)
       \/ \E r \in Row : ExecDelete(s, r) \/ CatalogTupleDelete(s, r)
  \/ BuildIndex

Spec == Init /\ [][Next]_vars

-----------------------------------------------------------------------------
(* The index of a system catalog is exact: its entries are those of the    *)
(* committed rows, one each, also for transactions that overlap, as long   *)
(* as no failed statement was hidden and no deleted row updated.  With a   *)
(* unique index no two rows have one value, although nothing checks it.    *)
CatalogIndexExact ==
  kind = "catalog" /\ ~caught /\ ~stale =>
    \A r \in Row, x \in Field : db.row[r] = x <=> db.idx[KeyOf(x, r)] = r

(* Every committed row of a user table is found through the index, unless  *)
(* it has a value in a unique index, where another row may have            *)
(* overwritten its entry, or came with COPY.                               *)
UserIndexComplete ==
  kind = "user" /\ built /\ ~caught /\ ~copied =>
    \A r \in Row, x \in Field :
      db.row[r] = x /\ (~unique \/ x = Null) => db.idx[KeyOf(x, r)] = r

(* "Delete index entries of the old tuple": an index entry of a user table *)
(* leads to a row with that value.  If it does not, an index scan that     *)
(* meets it reads a row that is not there, and PgGate_DmlFetch fails.      *)
UserEntriesLeadToRows ==
  kind = "user" /\ ~caught =>
    \A r \in Row, x \in Field : db.idx[KeyOf(x, r)] = r => db.row[r] = x

=============================================================================
