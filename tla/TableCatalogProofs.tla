------------------------- MODULE TableCatalogProofs -------------------------
(***************************************************************************)
(* Proofs about TableCatalog for any number of instances, backends, tables,*)
(* indexes and names.                                                      *)
(*                                                                         *)
(* The maps of one instance agree only because every source the manager    *)
(* fills them from tells the same story: a table has one name and an index *)
(* one base table, in the committed records, in every transaction's view   *)
(* and in every cache.  That is the strengthening (OneName, OneBase); it   *)
(* holds because a CREATE brings an OID nobody has used.  Metadata commits *)
(* whole because it is whole in every view.                                *)
(***************************************************************************)
EXTENDS TableCatalog, TLAPS

KnownName(t, n) ==
  \/ db.head[t] = n
  \/ \E s \in Session : view[s].head[t] = n
  \/ \E i \in Inst : info[i][t] # None /\ info[i][t].name = n

KnownBase(x, t) ==
  \/ db.ibase[x] = t
  \/ \E s \in Session : view[s].ibase[x] = t
  \/ \E i \in Inst : info[i][t] # None /\ x \in info[i][t].idx

OneName ==
  \A t \in Tab, n \in Name : KnownName(t, n) =>
    t \in used /\ \A m \in Name : KnownName(t, m) => m = n

OneBase ==
  \A x \in Idx, t \in Tab : KnownBase(x, t) =>
    x \in used /\ \A u \in Tab : KnownBase(x, u) => u = t

IsWhole(v) ==
  /\ \A t \in Tab : v.head[t] # None => t \in v.cols /\ t \in schemas
  /\ \A x \in Idx : v.ibase[x] # None => x \in v.icols /\ x \in schemas

AllWhole == ~caught => IsWhole(db) /\ \A s \in Session : IsWhole(view[s])

(* Two parts of TypeOK, named for the lemmas *)
MapTypeOK ==
  /\ info \in [Inst -> [Tab -> TableInfo \cup {None}]]
  /\ byName \in [Inst -> [Name -> Tab \cup {None}]]
  /\ idxBase \in [Inst -> [Idx -> Tab \cup {None}]]

TxnTypeOK ==
  /\ open \subseteq Session
  /\ view \in [Session -> Store]
  /\ wr \in [Session -> SUBSET (Tab \cup Idx)]

IInv == TypeOK /\ OneName /\ OneBase /\ CachesAgree /\ AllWhole

-----------------------------------------------------------------------------
(* What the operators return *)

(* The instance of a session is an instance. *)
LEMMA InstOfSession == \A s \in Session : InstOf(s) \in Inst
  BY DEF Session, InstOf

(* The empty meta tables are meta tables. *)
LEMMA EmptyStore ==
  /\ Empty \in Store
  /\ \A t \in Tab : Empty.head[t] = None
  /\ \A x \in Idx : Empty.ibase[x] = None
  BY DEF Empty, Store

(* PersistTableMeta changes the records of its table only. *)
LEMMA PersistTableMetaFacts ==
  ASSUME NEW v \in Store, NEW t \in Tab, NEW n \in Name
  PROVE  LET w == PersistTableMeta(v, t, n) IN
         /\ w \in Store
         /\ \A u \in Tab : w.head[u] = IF u = t THEN n ELSE v.head[u]
         /\ w.cols = v.cols \cup {t}
         /\ w.ibase = v.ibase
         /\ w.icols = v.icols
  BY DEF PersistTableMeta, WithTableMeta, WithTableColumns, Store

(* Whatever a failing CREATE TABLE leaves, it is about its own table. *)
LEMMA PersistTableMetaFailsFacts ==
  ASSUME NEW v \in Store, NEW t \in Tab, NEW n \in Name,
         NEW w \in PersistTableMetaFails(v, t, n)
  PROVE  /\ w \in Store
         /\ \A u \in Tab : w.head[u] = v.head[u] \/ (u = t /\ w.head[u] = n)
         /\ w.ibase = v.ibase
<1>1. CASE w = v
  BY <1>1
<1>2. CASE w = WithTableMeta(v, t, n)
  BY <1>2 DEF WithTableMeta, Store
<1>3. CASE w = PersistTableMeta(v, t, n)
  BY <1>3 DEF PersistTableMeta, WithTableMeta, WithTableColumns, Store
<1> QED
  BY <1>1, <1>2, <1>3 DEF PersistTableMetaFails

(* PersistIndexMeta changes the records of its index only. *)
LEMMA PersistIndexMetaFacts ==
  ASSUME NEW v \in Store, NEW x \in Idx, NEW t \in Tab
  PROVE  LET w == PersistIndexMeta(v, x, t) IN
         /\ w \in Store
         /\ \A y \in Idx : w.ibase[y] = IF y = x THEN t ELSE v.ibase[y]
         /\ w.icols = v.icols \cup {x}
         /\ w.head = v.head
         /\ w.cols = v.cols
  BY DEF PersistIndexMeta, WithIndexMeta, WithIndexColumns, Store

(* Whatever a failing CREATE INDEX leaves, it is about its own index. *)
LEMMA PersistIndexMetaFailsFacts ==
  ASSUME NEW v \in Store, NEW x \in Idx, NEW t \in Tab,
         NEW w \in PersistIndexMetaFails(v, x, t)
  PROVE  /\ w \in Store
         /\ \A y \in Idx : w.ibase[y] = v.ibase[y] \/ (y = x /\ w.ibase[y] = t)
         /\ w.head = v.head
<1>1. CASE w = v
  BY <1>1
<1>2. CASE w = WithIndexMeta(v, x, t)
  BY <1>2 DEF WithIndexMeta, Store
<1>3. CASE w = PersistIndexMeta(v, x, t)
  BY <1>3 DEF PersistIndexMeta, WithIndexMeta, WithIndexColumns, Store
<1> QED
  BY <1>1, <1>2, <1>3 DEF PersistIndexMetaFails

(* DeleteTableMetadata forgets its table only. *)
LEMMA DeleteTableMetadataFacts ==
  ASSUME NEW v \in Store, NEW t \in Tab
  PROVE  LET w == DeleteTableMetadata(v, t) IN
         /\ w \in Store
         /\ \A u \in Tab : w.head[u] = IF u = t THEN None ELSE v.head[u]
         /\ w.cols = v.cols \ {t}
         /\ w.ibase = v.ibase
         /\ w.icols = v.icols
  BY DEF DeleteTableMetadata, WithoutTableColumns, Store

(* A failing DROP TABLE may take columns away and nothing else. *)
LEMMA DeleteTableMetadataFailsFacts ==
  ASSUME NEW v \in Store, NEW t \in Tab, NEW w \in DeleteTableMetadataFails(v, t)
  PROVE  w \in Store /\ w.head = v.head /\ w.ibase = v.ibase
  BY DEF DeleteTableMetadataFails, WithoutTableColumns, Store

(* GetTable of a table with a record *)
LEMMA GetTableFacts ==
  ASSUME NEW v \in Store, NEW t \in Tab, v.head[t] # None
  PROVE  /\ GetTable(v, t) \in TableInfo
         /\ GetTable(v, t).name = v.head[t]
         /\ \A x \in GetTable(v, t).idx : x \in Idx /\ v.ibase[x] = t
  BY DEF GetTable, BuildTableInfo, IndexesOn, TableInfo, Store

(* The base table of a CREATE INDEX is well formed and, if it is cached,   *)
(* is the cached one; otherwise it comes from the records.                 *)
LEMMA BaseTableFacts ==
  ASSUME TypeOK, NEW s \in Session, NEW t \in Tab, view[s].head[t] # None
  PROVE  /\ BaseTable(s, t) \in TableInfo
         /\ info[InstOf(s)][t] # None => BaseTable(s, t) = info[InstOf(s)][t]
         /\ info[InstOf(s)][t] = None => BaseTable(s, t) = GetTable(view[s], t)
  BY InstOfSession, GetTableFacts DEF BaseTable, TypeOK

(* What UpdateTableCache does to the maps, entry by entry *)
LEMMA UpdateFacts ==
  ASSUME TypeOK, NEW i \in Inst, NEW t \in Tab, NEW ti \in TableInfo,
         UpdateTableCache(i, t, ti)
  PROVE  /\ MapTypeOK'
         /\ \A j \in Inst, u \in Tab :
              info'[j][u] = IF j = i /\ u = t THEN ti ELSE info[j][u]
         /\ \A j \in Inst, n \in Name :
              byName'[j][n] = IF j = i /\ n = ti.name THEN t ELSE byName[j][n]
         /\ \A j \in Inst, x \in Idx :
              idxBase'[j][x] = IF j # i THEN idxBase[j][x]
                               ELSE IF x \in ti.idx THEN t
                               ELSE IF idxBase[j][x] = t THEN None ELSE idxBase[j][x]
<1>1. ti.name \in Name /\ ti.idx \subseteq Idx
  BY DEF TableInfo
<1>2. /\ info' \in [Inst -> [Tab -> TableInfo \cup {None}]]
      /\ \A j \in Inst, u \in Tab :
           info'[j][u] = IF j = i /\ u = t THEN ti ELSE info[j][u]
  BY DEF UpdateTableCache, TypeOK
<1>3. /\ byName' \in [Inst -> [Name -> Tab \cup {None}]]
      /\ \A j \in Inst, n \in Name :
           byName'[j][n] = IF j = i /\ n = ti.name THEN t ELSE byName[j][n]
  BY <1>1 DEF UpdateTableCache, TypeOK
<1>4. /\ idxBase' \in [Inst -> [Idx -> Tab \cup {None}]]
      /\ \A j \in Inst, x \in Idx :
           idxBase'[j][x] = IF j # i THEN idxBase[j][x]
                            ELSE IF x \in ti.idx THEN t
                            ELSE IF idxBase[j][x] = t THEN None ELSE idxBase[j][x]
  BY <1>1 DEF UpdateTableCache, TypeOK
<1> QED
  BY <1>2, <1>3, <1>4 DEF MapTypeOK

(* What ClearTableCache does to the maps, entry by entry *)
LEMMA ClearFacts ==
  ASSUME TypeOK, NEW i \in Inst, NEW t \in Tab, NEW ti \in TableInfo,
         ClearTableCache(i, t, ti)
  PROVE  /\ MapTypeOK'
         /\ \A j \in Inst, u \in Tab :
              info'[j][u] = IF j = i /\ u = t THEN None ELSE info[j][u]
         /\ \A j \in Inst, n \in Name :
              byName'[j][n] = IF j = i /\ n = ti.name THEN None ELSE byName[j][n]
         /\ \A j \in Inst, x \in Idx :
              idxBase'[j][x] = IF j = i /\ idxBase[j][x] = t THEN None ELSE idxBase[j][x]
<1>1. ti.name \in Name
  BY DEF TableInfo
<1> QED
  BY <1>1 DEF ClearTableCache, TypeOK, MapTypeOK

-----------------------------------------------------------------------------
(* What the parts of an action do to the transactions *)

(* End gives its sessions an empty view. *)
LEMMA EndFacts ==
  ASSUME TypeOK, NEW S \in SUBSET Session, End(S)
  PROVE  /\ TxnTypeOK'
         /\ \A r \in Session : view'[r] = view[r] \/ view'[r] = Empty
  BY EmptyStore DEF End, TypeOK, TxnTypeOK

(* A roll back brings no view anything new. *)
LEMMA RollBackFacts ==
  ASSUME TypeOK, NEW s \in Session, RollBack(s)
  PROVE  /\ TxnTypeOK'
         /\ disturbed' \in [Inst -> BOOLEAN]
         /\ \A r \in Session : view'[r] = view[r] \/ view'[r] = Empty
<1>1. disturbed' \in [Inst -> BOOLEAN]
  BY InstOfSession DEF RollBack, TypeOK
<1> QED
  BY <1>1, EndFacts DEF RollBack

(* A failing statement leaves its writes in its own view, and only if the  *)
(* error was caught.                                                       *)
LEMMA FailFacts ==
  ASSUME TypeOK, NEW s \in Session, NEW o \in Tab \cup Idx, NEW v \in Store,
         Fail(s, o, v)
  PROVE  /\ TxnTypeOK'
         /\ disturbed' \in [Inst -> BOOLEAN]
         /\ caught' \in BOOLEAN
         /\ \A r \in Session :
              view'[r] = view[r] \/ view'[r] = Empty \/ (r = s /\ view'[r] = v)
         /\ ~caught' => /\ ~caught
                        /\ \A r \in Session : view'[r] = view[r] \/ view'[r] = Empty
<1>1. CASE RollBack(s) /\ UNCHANGED caught
  BY <1>1, RollBackFacts DEF TypeOK
<1>2. CASE /\ view' = [view EXCEPT ![s] = v]
           /\ wr' = [wr EXCEPT ![s] = IF v = view[s] THEN @ ELSE @ \cup {o}]
           /\ caught' = TRUE
           /\ UNCHANGED <<open, disturbed>>
  BY <1>2 DEF TypeOK, TxnTypeOK
<1> QED
  BY <1>1, <1>2 DEF Fail

(* A statement that succeeds changes its own view. *)
LEMMA SucceedFacts ==
  ASSUME TypeOK, NEW s \in Session, NEW o \in Tab \cup Idx, NEW v \in Store,
         Succeed(s, o, v)
  PROVE  /\ TxnTypeOK'
         /\ disturbed' \in [Inst -> BOOLEAN]
         /\ caught' = caught
         /\ \A r \in Session : view'[r] = IF r = s THEN v ELSE view[r]
  BY DEF Succeed, TypeOK, TxnTypeOK

-----------------------------------------------------------------------------
(* How the parts of the invariant are kept *)

(* Nothing is learnt about any table or index. *)
LEMMA NothingNew ==
  ASSUME OneName, OneBase, used \subseteq used',
         \A t \in Tab, n \in Name : KnownName(t, n)' => KnownName(t, n),
         \A x \in Idx, t \in Tab : KnownBase(x, t)' => KnownBase(x, t)
  PROVE  OneName' /\ OneBase'
  BY DEF OneName, OneBase

(* Only an OID nobody has used gets a name. *)
LEMMA NewName ==
  ASSUME OneName, OneBase, NEW t0 \in Tab, NEW n0 \in Name,
         t0 \notin used, used' = used \cup {t0},
         \A t \in Tab, n \in Name :
           KnownName(t, n)' => KnownName(t, n) \/ (t = t0 /\ n = n0),
         \A x \in Idx, t \in Tab : KnownBase(x, t)' => KnownBase(x, t)
  PROVE  OneName' /\ OneBase'
  BY DEF OneName, OneBase

(* Only an OID nobody has used gets a base table. *)
LEMMA NewBase ==
  ASSUME OneName, OneBase, NEW x0 \in Idx, NEW t0 \in Tab,
         x0 \notin used, used' = used \cup {x0},
         \A t \in Tab, n \in Name : KnownName(t, n)' => KnownName(t, n),
         \A x \in Idx, t \in Tab :
           KnownBase(x, t)' => KnownBase(x, t) \/ (x = x0 /\ t = t0)
  PROVE  OneName' /\ OneBase'
  BY DEF OneName, OneBase

(* UpdateTableCache keeps the maps in agreement if the table keeps its     *)
(* name and takes no index from another cached table.                      *)
LEMMA UpdateAgrees ==
  ASSUME TypeOK, CachesAgree, NEW i \in Inst, NEW t \in Tab, NEW ti \in TableInfo,
         UpdateTableCache(i, t, ti),
         info[i][t] # None => info[i][t].name = ti.name,
         \A x \in ti.idx, u \in Tab :
           info[i][u] # None /\ x \in info[i][u].idx => u = t
  PROVE  CachesAgree'
<1> USE UpdateFacts
<1>0. ti # None /\ ti.name \in Name /\ ti.idx \subseteq Idx
  BY CatalogAssumption DEF TableInfo
<1>1. ASSUME NEW j \in Inst, NEW n \in Name, byName'[j][n] # None
      PROVE  info'[j][byName'[j][n]] # None /\ info'[j][byName'[j][n]].name = n
  <2>1. CASE j = i /\ n = ti.name
    BY <2>1, <1>0, <1>1
  <2>2. CASE ~(j = i /\ n = ti.name)
    <3>1. byName'[j][n] = byName[j][n] /\ byName[j][n] \in Tab
      BY <2>2, <1>1 DEF TypeOK
    <3>2. info[j][byName[j][n]] # None /\ info[j][byName[j][n]].name = n
      BY <3>1, <1>1 DEF CachesAgree
    <3> QED
      BY <2>2, <3>1, <3>2
  <2> QED
    BY <2>1, <2>2
<1>2. ASSUME NEW j \in Inst, NEW x \in Idx, NEW u \in Tab
      PROVE  idxBase'[j][x] = u <=> info'[j][u] # None /\ x \in info'[j][u].idx
  <2>1. idxBase[j][x] = u <=> info[j][u] # None /\ x \in info[j][u].idx
    BY DEF CachesAgree
  <2>2. CASE j # i
    BY <2>1, <2>2
  <2>3. CASE j = i /\ u = t
    BY <2>1, <2>3, <1>0, CatalogAssumption
  <2>4. CASE j = i /\ u # t
    <3>1. info'[j][u] = info[j][u]
      BY <2>4
    <3>2. idxBase'[j][x] = IF x \in ti.idx THEN t
                           ELSE IF idxBase[j][x] = t THEN None ELSE idxBase[j][x]
      BY <2>4
    <3>3. CASE x \in ti.idx
      <4>1. ~(info[j][u] # None /\ x \in info[j][u].idx)
        BY <2>4, <3>3
      <4> QED
        BY <2>4, <3>1, <3>2, <3>3, <4>1
    <3>4. CASE x \notin ti.idx
      BY <2>1, <2>4, <3>1, <3>2, <3>4, CatalogAssumption
    <3> QED
      BY <3>3, <3>4
  <2> QED
    BY <2>2, <2>3, <2>4
<1> QED
  BY <1>1, <1>2 DEF CachesAgree

(* ClearTableCache keeps the maps in agreement if it is told the name      *)
(* under which the table is cached.                                        *)
LEMMA ClearAgrees ==
  ASSUME TypeOK, CachesAgree, NEW i \in Inst, NEW t \in Tab, NEW ti \in TableInfo,
         ClearTableCache(i, t, ti),
         info[i][t] # None => info[i][t].name = ti.name
  PROVE  CachesAgree'
<1> USE ClearFacts
<1>1. ASSUME NEW j \in Inst, NEW n \in Name, byName'[j][n] # None
      PROVE  info'[j][byName'[j][n]] # None /\ info'[j][byName'[j][n]].name = n
  <2>1. ~(j = i /\ n = ti.name) /\ byName'[j][n] = byName[j][n] /\ byName[j][n] \in Tab
    BY <1>1 DEF TypeOK
  <2>2. info[j][byName[j][n]] # None /\ info[j][byName[j][n]].name = n
    BY <2>1, <1>1 DEF CachesAgree
  <2> QED
    BY <2>1, <2>2
<1>2. ASSUME NEW j \in Inst, NEW x \in Idx, NEW u \in Tab
      PROVE  idxBase'[j][x] = u <=> info'[j][u] # None /\ x \in info'[j][u].idx
  <2>1. idxBase[j][x] = u <=> info[j][u] # None /\ x \in info[j][u].idx
    BY DEF CachesAgree
  <2>2. CASE j # i
    <3>1. info'[j][u] = info[j][u] /\ idxBase'[j][x] = idxBase[j][x]
      BY <2>2
    <3> QED
      BY <2>1, <3>1
  <2>3. CASE j = i /\ u = t
    BY <2>1, <2>3, CatalogAssumption
  <2>4. CASE j = i /\ u # t
    <3>1. info'[j][u] = info[j][u]
      BY <2>4
    <3>2. idxBase'[j][x] = IF idxBase[j][x] = t THEN None ELSE idxBase[j][x]
      BY <2>4
    <3> QED
      BY <2>1, <2>4, <3>1, <3>2, CatalogAssumption
  <2> QED
    BY <2>2, <2>3, <2>4
<1> QED
  BY <1>1, <1>2 DEF CachesAgree

(* The view of every session is whole in the next state if it was, or is   *)
(* empty.                                                                  *)
LEMMA WholeStays ==
  ASSUME AllWhole, schemas \subseteq schemas', db' = db, ~caught' => ~caught,
         ~caught' => \A r \in Session : view'[r] = view[r] \/ view'[r] = Empty
  PROVE  AllWhole'
  BY EmptyStore DEF AllWhole, IsWhole

-----------------------------------------------------------------------------
(* Every action keeps the invariant *)

(* A statement that changes neither the records nor the maps and leaves    *)
(* every view as it was or empty keeps everything but the types, which are *)
(* for the action to show.                                                 *)
LEMMA Quiet ==
  ASSUME IInv, TypeOK', used \subseteq used', schemas \subseteq schemas',
         ~caught' => ~caught, UNCHANGED <<db, caches>>,
         \A r \in Session : view'[r] = view[r] \/ view'[r] = Empty
  PROVE  IInv'
<1>1. \A t \in Tab, n \in Name : KnownName(t, n)' => KnownName(t, n)
  BY EmptyStore, CatalogAssumption DEF KnownName, caches
<1>2. \A x \in Idx, t \in Tab : KnownBase(x, t)' => KnownBase(x, t)
  BY EmptyStore, CatalogAssumption DEF KnownBase, caches
<1>3. CachesAgree'
  BY DEF IInv, CachesAgree, caches
<1>4. AllWhole'
  BY WholeStays DEF IInv
<1> QED
  BY <1>1, <1>2, <1>3, <1>4, NothingNew DEF IInv

(* Begin: the new view is the committed records. *)
LEMMA BeginKeeps ==
  ASSUME IInv, NEW s \in Session, Begin(s)
  PROVE  IInv'
<1>1. TypeOK'
  BY DEF Begin, IInv, TypeOK, MapTypeOK, TxnTypeOK, caches
<1>2. \A r \in Session : view'[r] = view[r] \/ view'[r] = db
  BY DEF Begin, IInv, TypeOK
<1>3. \A t \in Tab, n \in Name : KnownName(t, n)' => KnownName(t, n)
  BY <1>2 DEF KnownName, Begin, caches
<1>4. \A x \in Idx, t \in Tab : KnownBase(x, t)' => KnownBase(x, t)
  BY <1>2 DEF KnownBase, Begin, caches
<1>5. CachesAgree'
  BY DEF Begin, IInv, CachesAgree, caches
<1>6. AllWhole'
  BY <1>2 DEF Begin, IInv, AllWhole, IsWhole
<1>7. used' = used
  BY DEF Begin
<1> QED
  BY <1>1, <1>3, <1>4, <1>5, <1>6, <1>7, NothingNew DEF IInv

(* Commit: every committed record was the committed one or the one of the  *)
(* view, and both were whole.                                              *)
LEMMA CommitKeeps ==
  ASSUME IInv, NEW s \in Session, Commit(s)
  PROVE  IInv'
<1> DEFINE v == view[s]
<1>1. v \in Store /\ db \in Store
  BY DEF IInv, TypeOK
<1>2. /\ db' \in Store
      /\ \A t \in Tab : IF t \in wr[s]
           THEN db'.head[t] = v.head[t] /\ (t \in db'.cols <=> t \in v.cols)
           ELSE db'.head[t] = db.head[t] /\ (t \in db'.cols <=> t \in db.cols)
      /\ \A x \in Idx : IF x \in wr[s]
           THEN db'.ibase[x] = v.ibase[x] /\ (x \in db'.icols <=> x \in v.icols)
           ELSE db'.ibase[x] = db.ibase[x] /\ (x \in db'.icols <=> x \in db.icols)
  BY <1>1 DEF Commit, Store
<1>3. /\ TxnTypeOK'
      /\ \A r \in Session : view'[r] = view[r] \/ view'[r] = Empty
  BY EndFacts DEF Commit, IInv
<1>4. TypeOK'
  <2>1. disturbed' \in [Inst -> BOOLEAN]
    BY DEF Commit, IInv, TypeOK
  <2> QED
    BY <1>2, <1>3, <2>1 DEF Commit, IInv, TypeOK, TxnTypeOK, caches
<1>5. \A t \in Tab, n \in Name : KnownName(t, n)' => KnownName(t, n)
  BY <1>2, <1>3, EmptyStore, CatalogAssumption DEF KnownName, Commit, caches
<1>6. \A x \in Idx, t \in Tab : KnownBase(x, t)' => KnownBase(x, t)
  BY <1>2, <1>3, EmptyStore, CatalogAssumption DEF KnownBase, Commit, caches
<1>7. CachesAgree'
  BY DEF Commit, IInv, CachesAgree, caches
<1>8. AllWhole'
  <2>1. schemas' = schemas /\ caught' = caught
    BY DEF Commit
  <2>2. ASSUME ~caught PROVE IsWhole(db)'
    <3>1. IsWhole(db) /\ IsWhole(v)
      BY <2>2 DEF IInv, AllWhole
    <3> QED
      BY <1>2, <2>1, <3>1 DEF IsWhole
  <2>3. ASSUME ~caught PROVE \A r \in Session : IsWhole(view[r])'
    BY <1>3, <2>1, <2>3, EmptyStore DEF IInv, AllWhole, IsWhole
  <2> QED
    BY <2>1, <2>2, <2>3 DEF AllWhole
<1>9. used' = used
  BY DEF Commit
<1> QED
  BY <1>4, <1>5, <1>6, <1>7, <1>8, <1>9, NothingNew DEF IInv

(* Abort brings nothing. *)
LEMMA AbortKeeps ==
  ASSUME IInv, NEW s \in Session, Abort(s)
  PROVE  IInv'
<1>1. /\ TxnTypeOK'
      /\ disturbed' \in [Inst -> BOOLEAN]
      /\ \A r \in Session : view'[r] = view[r] \/ view'[r] = Empty
  BY RollBackFacts DEF Abort, IInv
<1>2. UNCHANGED <<db, schemas, caches, used, caught>>
  BY DEF Abort
<1>3. TypeOK'
  BY <1>1, <1>2 DEF IInv, TypeOK, MapTypeOK, TxnTypeOK, caches
<1> QED
  BY <1>1, <1>2, <1>3, Quiet

(* A refused CREATE TABLE uses up its OID and nothing else. *)
LEMMA CreateTableRefusedKeeps ==
  ASSUME IInv, NEW s \in Session, NEW t \in Tab, NEW n \in Name,
         CreateTableRefused(s, t, n)
  PROVE  IInv'
<1>1. view[s] \in Store
  BY DEF IInv, TypeOK
<1>2. /\ TxnTypeOK'
      /\ disturbed' \in [Inst -> BOOLEAN]
      /\ caught' \in BOOLEAN
      /\ \A r \in Session : view'[r] = view[r] \/ view'[r] = Empty
      /\ ~caught' => ~caught
  BY <1>1, FailFacts DEF CreateTableRefused, IInv
<1>3. used' = used \cup {t} /\ UNCHANGED <<db, schemas, caches>>
  BY DEF CreateTableRefused, CanCreateTable
<1>4. TypeOK'
  BY <1>2, <1>3 DEF IInv, TypeOK, MapTypeOK, TxnTypeOK, caches
<1> QED
  BY <1>2, <1>3, <1>4, Quiet

(* CREATE TABLE: the new name belongs to an OID nobody knew. *)
LEMMA CreateTableKeeps ==
  ASSUME IInv, NEW s \in Session, NEW t \in Tab, NEW n \in Name,
         CreateTable(s, t, n)
  PROVE  IInv'
<1> DEFINE v  == PersistTableMeta(view[s], t, n)
           ti == [name |-> n, idx |-> {}]
           i  == InstOf(s)
<1>1. /\ i \in Inst /\ view[s] \in Store
      /\ ti \in TableInfo /\ ti.name = n /\ ti.idx = {}
  BY InstOfSession DEF IInv, TypeOK, TableInfo
<1>2. /\ v \in Store
      /\ \A u \in Tab : v.head[u] = IF u = t THEN n ELSE view[s].head[u]
      /\ v.cols = view[s].cols \cup {t}
      /\ v.ibase = view[s].ibase
      /\ v.icols = view[s].icols
  BY <1>1, PersistTableMetaFacts
<1>3. /\ TxnTypeOK'
      /\ disturbed' \in [Inst -> BOOLEAN]
      /\ caught' = caught
      /\ \A r \in Session : view'[r] = IF r = s THEN v ELSE view[r]
  BY <1>2, SucceedFacts DEF CreateTable, IInv
<1>4. /\ t \notin used /\ used' = used \cup {t}
      /\ schemas' = schemas \cup {t} /\ db' = db
      /\ UpdateTableCache(i, t, ti)
  BY DEF CreateTable, CanCreateTable, CreateSKVSchema
<1>5. /\ MapTypeOK'
      /\ \A j \in Inst, u \in Tab :
           info'[j][u] = IF j = i /\ u = t THEN ti ELSE info[j][u]
  BY <1>1, <1>4, UpdateFacts DEF IInv
<1> HIDE DEF v, ti, i
<1>6. TypeOK'
  BY <1>3, <1>4, <1>5 DEF IInv, TypeOK, MapTypeOK, TxnTypeOK
<1>7. \A u \in Tab, m \in Name :
        KnownName(u, m)' => KnownName(u, m) \/ (u = t /\ m = n)
  <2> SUFFICES ASSUME NEW u \in Tab, NEW m \in Name, KnownName(u, m)'
               PROVE  KnownName(u, m) \/ (u = t /\ m = n)
    OBVIOUS
  <2>1. CASE db'.head[u] = m
    BY <1>4, <2>1 DEF KnownName
  <2>2. ASSUME NEW r \in Session, view'[r].head[u] = m
        PROVE  KnownName(u, m) \/ (u = t /\ m = n)
    BY <1>2, <1>3, <2>2 DEF KnownName
  <2>3. ASSUME NEW j \in Inst, info'[j][u] # None /\ info'[j][u].name = m
        PROVE  KnownName(u, m) \/ (u = t /\ m = n)
    BY <1>1, <1>5, <2>3 DEF KnownName
  <2> QED
    BY <2>1, <2>2, <2>3 DEF KnownName
<1>8. \A x \in Idx, u \in Tab : KnownBase(x, u)' => KnownBase(x, u)
  <2> SUFFICES ASSUME NEW x \in Idx, NEW u \in Tab, KnownBase(x, u)'
               PROVE  KnownBase(x, u)
    OBVIOUS
  <2>1. CASE db'.ibase[x] = u
    BY <1>4, <2>1 DEF KnownBase
  <2>2. ASSUME NEW r \in Session, view'[r].ibase[x] = u
        PROVE  KnownBase(x, u)
    BY <1>2, <1>3, <2>2 DEF KnownBase
  <2>3. ASSUME NEW j \in Inst, info'[j][u] # None /\ x \in info'[j][u].idx
        PROVE  KnownBase(x, u)
    BY <1>1, <1>5, <2>3 DEF KnownBase
  <2> QED
    BY <2>1, <2>2, <2>3 DEF KnownBase
<1>9. CachesAgree'
  <2>1. info[i][t] = None
    <3>1. info[i][t] # None => info[i][t].name \in Name
      BY <1>1 DEF IInv, TypeOK, TableInfo
    <3>2. info[i][t] # None => KnownName(t, info[i][t].name)
      BY <1>1 DEF KnownName
    <3> QED
      BY <1>4, <3>1, <3>2 DEF IInv, OneName
  <2> QED
    BY <1>1, <1>4, <2>1, UpdateAgrees DEF IInv
<1>10. AllWhole'
  <2> SUFFICES ASSUME ~caught'
               PROVE  IsWhole(db)' /\ \A r \in Session : IsWhole(view[r])'
    BY DEF AllWhole
  <2>1. IsWhole(db) /\ \A r \in Session : IsWhole(view[r])
    BY <1>3 DEF IInv, AllWhole
  <2>2. IsWhole(db)'
    BY <1>4, <2>1 DEF IsWhole
  <2>3. ASSUME NEW r \in Session PROVE IsWhole(view[r])'
    <3>1. CASE r = s
      BY <1>2, <1>3, <1>4, <2>1, <3>1 DEF IsWhole
    <3>2. CASE r # s
      BY <1>3, <1>4, <2>1, <3>2 DEF IsWhole
    <3> QED
      BY <3>1, <3>2
  <2> QED
    BY <2>2, <2>3
<1> QED
  BY <1>4, <1>6, <1>7, <1>8, <1>9, <1>10, NewName DEF IInv

(* A CREATE TABLE that fails has named its OID at most in its own view. *)
LEMMA CreateTableFailsKeeps ==
  ASSUME IInv, NEW s \in Session, NEW t \in Tab, NEW n \in Name,
         CreateTableFails(s, t, n)
  PROVE  IInv'
<1>1. view[s] \in Store
  BY DEF IInv, TypeOK
<1>2. PICK v \in PersistTableMetaFails(view[s], t, n) : Fail(s, t, v)
  BY DEF CreateTableFails
<1>3. /\ v \in Store
      /\ \A u \in Tab : v.head[u] = view[s].head[u] \/ (u = t /\ v.head[u] = n)
      /\ v.ibase = view[s].ibase
  BY <1>1, PersistTableMetaFailsFacts
<1>4. /\ TxnTypeOK'
      /\ disturbed' \in [Inst -> BOOLEAN]
      /\ caught' \in BOOLEAN
      /\ \A r \in Session :
           view'[r] = view[r] \/ view'[r] = Empty \/ (r = s /\ view'[r] = v)
      /\ ~caught' => /\ ~caught
                     /\ \A r \in Session : view'[r] = view[r] \/ view'[r] = Empty
  BY <1>2, <1>3, FailFacts DEF IInv
<1>5. t \notin used /\ used' = used \cup {t} /\ UNCHANGED <<db, schemas, caches>>
  BY DEF CreateTableFails, CanCreateTable
<1>6. TypeOK'
  BY <1>4, <1>5 DEF IInv, TypeOK, MapTypeOK, TxnTypeOK, caches
<1>7. \A u \in Tab, m \in Name :
        KnownName(u, m)' => KnownName(u, m) \/ (u = t /\ m = n)
  BY <1>3, <1>4, <1>5, EmptyStore, CatalogAssumption DEF KnownName, caches
<1>8. \A x \in Idx, u \in Tab : KnownBase(x, u)' => KnownBase(x, u)
  BY <1>3, <1>4, <1>5, EmptyStore, CatalogAssumption DEF KnownBase, caches
<1>9. CachesAgree'
  BY <1>5 DEF IInv, CachesAgree, caches
<1>10. AllWhole'
  BY <1>4, <1>5, WholeStays DEF IInv
<1> QED
  BY <1>5, <1>6, <1>7, <1>8, <1>9, <1>10, NewName DEF IInv

(* UpdateTableCache with what is known of the table, and with indexes that *)
(* are known to be on it or that nobody knew                               *)
LEMMA UpdateKnownAgrees ==
  ASSUME IInv, NEW i \in Inst, NEW t \in Tab, NEW ti \in TableInfo,
         UpdateTableCache(i, t, ti), KnownName(t, ti.name),
         \A y \in ti.idx : KnownBase(y, t) \/ y \notin used
  PROVE  CachesAgree'
<1>0. ti.name \in Name /\ ti.idx \subseteq Idx
  BY DEF TableInfo
<1>1. info[i][t] # None => info[i][t].name = ti.name
  <2> SUFFICES ASSUME info[i][t] # None PROVE info[i][t].name = ti.name
    OBVIOUS
  <2>1. info[i][t].name \in Name
    BY DEF IInv, TypeOK, TableInfo
  <2>2. KnownName(t, info[i][t].name)
    BY DEF KnownName
  <2> QED
    BY <1>0, <2>1, <2>2 DEF IInv, OneName
<1>2. ASSUME NEW y \in ti.idx, NEW u \in Tab, info[i][u] # None, y \in info[i][u].idx
      PROVE  u = t
  <2>1. KnownBase(y, u)
    BY <1>2 DEF KnownBase
  <2> QED
    BY <1>0, <2>1 DEF IInv, OneBase
<1> QED
  BY <1>1, <1>2, UpdateAgrees DEF IInv

(* The base table of a CREATE INDEX or DROP TABLE is what is known of it. *)
LEMMA BaseTableKnown ==
  ASSUME IInv, NEW s \in Session, NEW t \in Tab, view[s].head[t] # None
  PROVE  /\ BaseTable(s, t) \in TableInfo
         /\ KnownName(t, BaseTable(s, t).name)
         /\ \A y \in BaseTable(s, t).idx : KnownBase(y, t)
<1>1. InstOf(s) \in Inst /\ view[s] \in Store
  BY InstOfSession DEF IInv, TypeOK
<1>2. CASE info[InstOf(s)][t] # None
  <2>1. BaseTable(s, t) = info[InstOf(s)][t]
    BY <1>2, BaseTableFacts DEF IInv
  <2> QED
    BY <1>1, <1>2, <2>1, BaseTableFacts DEF KnownName, KnownBase, IInv
<1>3. CASE info[InstOf(s)][t] = None
  <2>1. BaseTable(s, t) = GetTable(view[s], t)
    BY <1>3, BaseTableFacts DEF IInv
  <2> QED
    BY <1>1, <2>1, GetTableFacts DEF KnownName, KnownBase
<1> QED
  BY <1>2, <1>3

(* CREATE INDEX: the base table is known, the index is new. *)
LEMMA CreateIndexTableKeeps ==
  ASSUME IInv, NEW s \in Session, NEW x \in Idx, NEW t \in Tab,
         CreateIndexTable(s, x, t)
  PROVE  IInv'
<1> DEFINE v  == PersistIndexMeta(view[s], x, t)
           b  == BaseTable(s, t)
           ti == WithIndex(b, x)
           i  == InstOf(s)
<1>1. /\ i \in Inst /\ view[s] \in Store /\ view[s].head[t] # None
      /\ x \notin used /\ used' = used \cup {x}
      /\ schemas' = schemas \cup {x} /\ db' = db
      /\ UpdateTableCache(i, t, ti) /\ Succeed(s, x, v)
  BY InstOfSession DEF IInv, TypeOK, CreateIndexTable, CanCreateIndex, CreateSKVSchema
<1>2. /\ v \in Store
      /\ \A y \in Idx : v.ibase[y] = IF y = x THEN t ELSE view[s].ibase[y]
      /\ v.icols = view[s].icols \cup {x}
      /\ v.head = view[s].head
      /\ v.cols = view[s].cols
  BY <1>1, PersistIndexMetaFacts
<1>3. /\ b \in TableInfo /\ KnownName(t, b.name)
      /\ \A y \in b.idx : KnownBase(y, t)
  BY <1>1, BaseTableKnown
<1>4. ti \in TableInfo /\ ti.name = b.name /\ ti.idx = b.idx \cup {x}
  BY <1>3 DEF WithIndex, TableInfo
<1>5. /\ TxnTypeOK'
      /\ disturbed' \in [Inst -> BOOLEAN]
      /\ caught' = caught
      /\ \A r \in Session : view'[r] = IF r = s THEN v ELSE view[r]
  BY <1>1, <1>2, SucceedFacts DEF IInv
<1>6. /\ MapTypeOK'
      /\ \A j \in Inst, u \in Tab :
           info'[j][u] = IF j = i /\ u = t THEN ti ELSE info[j][u]
  BY <1>1, <1>4, UpdateFacts DEF IInv
<1> HIDE DEF v, b, ti, i
<1>7. TypeOK'
  BY <1>1, <1>5, <1>6 DEF IInv, TypeOK, MapTypeOK, TxnTypeOK
<1>8. \A u \in Tab, m \in Name : KnownName(u, m)' => KnownName(u, m)
  <2> SUFFICES ASSUME NEW u \in Tab, NEW m \in Name, KnownName(u, m)'
               PROVE  KnownName(u, m)
    OBVIOUS
  <2>1. CASE db'.head[u] = m
    BY <1>1, <2>1 DEF KnownName
  <2>2. ASSUME NEW r \in Session, view'[r].head[u] = m
        PROVE  KnownName(u, m)
    BY <1>2, <1>5, <2>2 DEF KnownName
  <2>3. ASSUME NEW j \in Inst, info'[j][u] # None /\ info'[j][u].name = m
        PROVE  KnownName(u, m)
    <3>1. CASE j = i /\ u = t
      BY <1>3, <1>4, <1>6, <2>3, <3>1
    <3>2. CASE ~(j = i /\ u = t)
      BY <1>6, <2>3, <3>2 DEF KnownName
    <3> QED
      BY <3>1, <3>2
  <2> QED
    BY <2>1, <2>2, <2>3 DEF KnownName
<1>9. \A y \in Idx, u \in Tab :
        KnownBase(y, u)' => KnownBase(y, u) \/ (y = x /\ u = t)
  <2> SUFFICES ASSUME NEW y \in Idx, NEW u \in Tab, KnownBase(y, u)'
               PROVE  KnownBase(y, u) \/ (y = x /\ u = t)
    OBVIOUS
  <2>1. CASE db'.ibase[y] = u
    BY <1>1, <2>1 DEF KnownBase
  <2>2. ASSUME NEW r \in Session, view'[r].ibase[y] = u
        PROVE  KnownBase(y, u) \/ (y = x /\ u = t)
    BY <1>2, <1>5, <2>2 DEF KnownBase
  <2>3. ASSUME NEW j \in Inst, info'[j][u] # None /\ y \in info'[j][u].idx
        PROVE  KnownBase(y, u) \/ (y = x /\ u = t)
    <3>1. CASE j = i /\ u = t
      BY <1>3, <1>4, <1>6, <2>3, <3>1
    <3>2. CASE ~(j = i /\ u = t)
      BY <1>6, <2>3, <3>2 DEF KnownBase
    <3> QED
      BY <3>1, <3>2
  <2> QED
    BY <2>1, <2>2, <2>3 DEF KnownBase
<1>10. CachesAgree'
  <2>1. KnownName(t, ti.name) /\ \A y \in ti.idx : KnownBase(y, t) \/ y \notin used
    BY <1>1, <1>3, <1>4
  <2> QED
    BY <1>1, <1>4, <2>1, UpdateKnownAgrees
<1>11. AllWhole'
  <2> SUFFICES ASSUME ~caught'
               PROVE  IsWhole(db)' /\ \A r \in Session : IsWhole(view[r])'
    BY DEF AllWhole
  <2>1. IsWhole(db) /\ \A r \in Session : IsWhole(view[r])
    BY <1>5 DEF IInv, AllWhole
  <2>2. IsWhole(db)'
    BY <1>1, <2>1 DEF IsWhole
  <2>3. ASSUME NEW r \in Session PROVE IsWhole(view[r])'
    <3>1. CASE r = s
      BY <1>1, <1>2, <1>5, <2>1, <3>1 DEF IsWhole
    <3>2. CASE r # s
      BY <1>1, <1>5, <2>1, <3>2 DEF IsWhole
    <3> QED
      BY <3>1, <3>2
  <2> QED
    BY <2>2, <2>3
<1> QED
  BY <1>1, <1>7, <1>8, <1>9, <1>10, <1>11, NewBase DEF IInv

(* UpdateTableCache with what is known of the table keeps the maps in      *)
(* agreement and tells the instance nothing that was not known.            *)
LEMMA UpdateKnown ==
  ASSUME IInv, NEW i \in Inst, NEW t \in Tab, NEW ti \in TableInfo,
         UpdateTableCache(i, t, ti), KnownName(t, ti.name),
         \A y \in ti.idx : KnownBase(y, t)
  PROVE  /\ MapTypeOK'
         /\ CachesAgree'
         /\ \A j \in Inst, u \in Tab : info'[j][u] # None =>
              /\ KnownName(u, info'[j][u].name)
              /\ \A y \in info'[j][u].idx : KnownBase(y, u)
<1>1. /\ MapTypeOK'
      /\ \A j \in Inst, u \in Tab :
           info'[j][u] = IF j = i /\ u = t THEN ti ELSE info[j][u]
  BY UpdateFacts DEF IInv
<1>2. ASSUME NEW j \in Inst, NEW u \in Tab, info'[j][u] # None
      PROVE  /\ KnownName(u, info'[j][u].name)
             /\ \A y \in info'[j][u].idx : KnownBase(y, u)
  <2>1. CASE j = i /\ u = t
    BY <1>1, <2>1
  <2>2. CASE ~(j = i /\ u = t)
    <3>1. info'[j][u] = info[j][u]
      BY <1>1, <2>2
    <3> QED
      BY <1>2, <3>1 DEF KnownName, KnownBase
  <2> QED
    BY <2>1, <2>2
<1> QED
  BY <1>1, <1>2, UpdateKnownAgrees

(* The maps stay, or a base table that is known is put into them. *)
LEMMA BaseTableCached ==
  ASSUME IInv, NEW s \in Session, NEW t \in Tab, view[s].head[t] # None,
         \/ UNCHANGED caches
         \/ UpdateTableCache(InstOf(s), t, BaseTable(s, t))
  PROVE  /\ MapTypeOK'
         /\ CachesAgree'
         /\ \A j \in Inst, u \in Tab : info'[j][u] # None =>
              /\ KnownName(u, info'[j][u].name)
              /\ \A y \in info'[j][u].idx : KnownBase(y, u)
<1>1. CASE UNCHANGED caches
  BY <1>1 DEF IInv, TypeOK, MapTypeOK, CachesAgree, KnownName, KnownBase, caches
<1>2. CASE UpdateTableCache(InstOf(s), t, BaseTable(s, t))
  BY <1>2, BaseTableKnown, UpdateKnown, InstOfSession
<1> QED
  BY <1>1, <1>2

(* A CREATE INDEX that fails has named a base table at most in its own     *)
(* view.                                                                   *)
LEMMA CreateIndexTableFailsKeeps ==
  ASSUME IInv, NEW s \in Session, NEW x \in Idx, NEW t \in Tab,
         CreateIndexTableFails(s, x, t)
  PROVE  IInv'
<1>1. /\ view[s] \in Store /\ view[s].head[t] # None
      /\ x \notin used /\ used' = used \cup {x} /\ UNCHANGED <<db, schemas>>
  BY DEF IInv, TypeOK, CreateIndexTableFails, CanCreateIndex
<1>2. PICK v \in PersistIndexMetaFails(view[s], x, t) : Fail(s, x, v)
  BY DEF CreateIndexTableFails, PersistIndexMetaFails
<1>3. /\ MapTypeOK'
      /\ CachesAgree'
      /\ \A j \in Inst, u \in Tab : info'[j][u] # None =>
           /\ KnownName(u, info'[j][u].name)
           /\ \A y \in info'[j][u].idx : KnownBase(y, u)
  BY <1>1, BaseTableCached DEF CreateIndexTableFails
<1>4. /\ v \in Store
      /\ \A y \in Idx : v.ibase[y] = view[s].ibase[y] \/ (y = x /\ v.ibase[y] = t)
      /\ v.head = view[s].head
  BY <1>1, PersistIndexMetaFailsFacts
<1>5. /\ TxnTypeOK'
      /\ disturbed' \in [Inst -> BOOLEAN]
      /\ caught' \in BOOLEAN
      /\ \A r \in Session :
           view'[r] = view[r] \/ view'[r] = Empty \/ (r = s /\ view'[r] = v)
      /\ ~caught' => /\ ~caught
                     /\ \A r \in Session : view'[r] = view[r] \/ view'[r] = Empty
  BY <1>2, <1>4, FailFacts DEF IInv
<1>6. TypeOK'
  BY <1>1, <1>3, <1>5 DEF IInv, TypeOK, MapTypeOK, TxnTypeOK
<1>7. \A u \in Tab, m \in Name : KnownName(u, m)' => KnownName(u, m)
  <2> SUFFICES ASSUME NEW u \in Tab, NEW m \in Name, KnownName(u, m)'
               PROVE  KnownName(u, m)
    OBVIOUS
  <2>1. CASE db'.head[u] = m
    BY <1>1, <2>1 DEF KnownName
  <2>2. ASSUME NEW r \in Session, view'[r].head[u] = m PROVE KnownName(u, m)
    BY <1>4, <1>5, <2>2, EmptyStore, CatalogAssumption DEF KnownName
  <2>3. ASSUME NEW j \in Inst, info'[j][u] # None /\ info'[j][u].name = m
        PROVE  KnownName(u, m)
    BY <1>3, <2>3
  <2> QED
    BY <2>1, <2>2, <2>3 DEF KnownName
<1>8. \A y \in Idx, u \in Tab :
        KnownBase(y, u)' => KnownBase(y, u) \/ (y = x /\ u = t)
  <2> SUFFICES ASSUME NEW y \in Idx, NEW u \in Tab, KnownBase(y, u)'
               PROVE  KnownBase(y, u) \/ (y = x /\ u = t)
    OBVIOUS
  <2>1. CASE db'.ibase[y] = u
    BY <1>1, <2>1 DEF KnownBase
  <2>2. ASSUME NEW r \in Session, view'[r].ibase[y] = u
        PROVE  KnownBase(y, u) \/ (y = x /\ u = t)
    BY <1>4, <1>5, <2>2, EmptyStore, CatalogAssumption DEF KnownBase
  <2>3. ASSUME NEW j \in Inst, info'[j][u] # None /\ y \in info'[j][u].idx
        PROVE  KnownBase(y, u)
    BY <1>3, <2>3
  <2> QED
    BY <2>1, <2>2, <2>3 DEF KnownBase
<1>9. AllWhole'
  BY <1>1, <1>5, WholeStays DEF IInv
<1> QED
  BY <1>1, <1>3, <1>6, <1>7, <1>8, <1>9, NewBase DEF IInv

(* GetTableSchema caches what the transaction sees. *)
LEMMA GetTableSchemaKeeps ==
  ASSUME IInv, NEW s \in Session, NEW o \in Tab \cup Idx, GetTableSchema(s, o)
  PROVE  IInv'
<1> DEFINE t  == OwnerOf(view[s], o)
           ti == GetTable(view[s], t)
           i  == InstOf(s)
<1>1. /\ i \in Inst /\ view[s] \in Store
      /\ view[s].head[t] # None
      /\ UpdateTableCache(i, t, ti)
      /\ disturbed' \in [Inst -> BOOLEAN]
      /\ UNCHANGED <<db, schemas, open, view, wr, used, caught>>
  BY InstOfSession DEF IInv, TypeOK, GetTableSchema, Found
<1>2. t \in Tab
  <2>1. t # None
    BY DEF GetTableSchema, Found
  <2> QED
    BY <1>1, <2>1 DEF OwnerOf, Store
<1> HIDE DEF t, i
<1>3. /\ ti \in TableInfo /\ ti.name = view[s].head[t]
      /\ \A y \in ti.idx : y \in Idx /\ view[s].ibase[y] = t
  BY <1>1, <1>2, GetTableFacts
<1> HIDE DEF ti
<1>4. KnownName(t, ti.name) /\ \A y \in ti.idx : KnownBase(y, t)
  BY <1>3 DEF KnownName, KnownBase
<1>5. /\ MapTypeOK'
      /\ CachesAgree'
      /\ \A j \in Inst, u \in Tab : info'[j][u] # None =>
           /\ KnownName(u, info'[j][u].name)
           /\ \A y \in info'[j][u].idx : KnownBase(y, u)
  BY <1>1, <1>2, <1>3, <1>4, UpdateKnown
<1>6. TypeOK'
  BY <1>1, <1>5 DEF IInv, TypeOK, MapTypeOK, TxnTypeOK
<1>7. \A u \in Tab, m \in Name : KnownName(u, m)' => KnownName(u, m)
  <2> SUFFICES ASSUME NEW u \in Tab, NEW m \in Name, KnownName(u, m)'
               PROVE  KnownName(u, m)
    OBVIOUS
  <2>1. ASSUME NEW j \in Inst, info'[j][u] # None /\ info'[j][u].name = m
        PROVE  KnownName(u, m)
    BY <1>5, <2>1
  <2>2. CASE db.head[u] = m \/ \E r \in Session : view[r].head[u] = m
    BY <2>2 DEF KnownName
  <2> QED
    BY <1>1, <2>1, <2>2 DEF KnownName
<1>8. \A y \in Idx, u \in Tab : KnownBase(y, u)' => KnownBase(y, u)
  <2> SUFFICES ASSUME NEW y \in Idx, NEW u \in Tab, KnownBase(y, u)'
               PROVE  KnownBase(y, u)
    OBVIOUS
  <2>1. ASSUME NEW j \in Inst, info'[j][u] # None /\ y \in info'[j][u].idx
        PROVE  KnownBase(y, u)
    BY <1>5, <2>1
  <2>2. CASE db.ibase[y] = u \/ \E r \in Session : view[r].ibase[y] = u
    BY <2>2 DEF KnownBase
  <2> QED
    BY <1>1, <2>1, <2>2 DEF KnownBase
<1>9. AllWhole'
  BY <1>1, WholeStays DEF IInv
<1> QED
  BY <1>1, <1>5, <1>6, <1>7, <1>8, <1>9, NothingNew DEF IInv

(* DROP TABLE forgets the table under the name it is cached under. *)
LEMMA DeleteTableKeeps ==
  ASSUME IInv, NEW s \in Session, NEW t \in Tab, DeleteTable(s, t)
  PROVE  IInv'
<1> DEFINE v == DeleteTableMetadata(view[s], t)
           b == BaseTable(s, t)
           i == InstOf(s)
<1>1. /\ i \in Inst /\ view[s] \in Store /\ view[s].head[t] # None
      /\ ClearTableCache(i, t, b) /\ Succeed(s, t, v)
      /\ UNCHANGED <<db, schemas, used>>
  BY InstOfSession DEF IInv, TypeOK, DeleteTable, CanDropTable
<1>2. /\ v \in Store
      /\ \A u \in Tab : v.head[u] = IF u = t THEN None ELSE view[s].head[u]
      /\ v.cols = view[s].cols \ {t}
      /\ v.ibase = view[s].ibase
      /\ v.icols = view[s].icols
  BY <1>1, DeleteTableMetadataFacts
<1>3. b \in TableInfo /\ (info[i][t] # None => info[i][t].name = b.name)
  BY <1>1, BaseTableFacts DEF IInv
<1>4. /\ TxnTypeOK'
      /\ disturbed' \in [Inst -> BOOLEAN]
      /\ caught' = caught
      /\ \A r \in Session : view'[r] = IF r = s THEN v ELSE view[r]
  BY <1>1, <1>2, SucceedFacts DEF IInv
<1>5. /\ MapTypeOK'
      /\ \A j \in Inst, u \in Tab :
           info'[j][u] = IF j = i /\ u = t THEN None ELSE info[j][u]
      /\ CachesAgree'
  BY <1>1, <1>3, ClearFacts, ClearAgrees DEF IInv
<1> HIDE DEF v, b, i
<1>6. TypeOK'
  BY <1>1, <1>4, <1>5 DEF IInv, TypeOK, MapTypeOK, TxnTypeOK
<1>7. \A u \in Tab, m \in Name : KnownName(u, m)' => KnownName(u, m)
  <2> SUFFICES ASSUME NEW u \in Tab, NEW m \in Name, KnownName(u, m)'
               PROVE  KnownName(u, m)
    OBVIOUS
  <2>1. CASE db'.head[u] = m
    BY <1>1, <2>1 DEF KnownName
  <2>2. ASSUME NEW r \in Session, view'[r].head[u] = m PROVE KnownName(u, m)
    BY <1>2, <1>4, <2>2, CatalogAssumption DEF KnownName
  <2>3. ASSUME NEW j \in Inst, info'[j][u] # None /\ info'[j][u].name = m
        PROVE  KnownName(u, m)
    BY <1>5, <2>3 DEF KnownName
  <2> QED
    BY <2>1, <2>2, <2>3 DEF KnownName
<1>8. \A y \in Idx, u \in Tab : KnownBase(y, u)' => KnownBase(y, u)
  <2> SUFFICES ASSUME NEW y \in Idx, NEW u \in Tab, KnownBase(y, u)'
               PROVE  KnownBase(y, u)
    OBVIOUS
  <2>1. CASE db'.ibase[y] = u
    BY <1>1, <2>1 DEF KnownBase
  <2>2. ASSUME NEW r \in Session, view'[r].ibase[y] = u PROVE KnownBase(y, u)
    BY <1>2, <1>4, <2>2 DEF KnownBase
  <2>3. ASSUME NEW j \in Inst, info'[j][u] # None /\ y \in info'[j][u].idx
        PROVE  KnownBase(y, u)
    BY <1>5, <2>3 DEF KnownBase
  <2> QED
    BY <2>1, <2>2, <2>3 DEF KnownBase
<1>9. AllWhole'
  <2> SUFFICES ASSUME ~caught'
               PROVE  IsWhole(db)' /\ \A r \in Session : IsWhole(view[r])'
    BY DEF AllWhole
  <2>1. IsWhole(db) /\ \A r \in Session : IsWhole(view[r])
    BY <1>4 DEF IInv, AllWhole
  <2>2. IsWhole(db)'
    BY <1>1, <2>1 DEF IsWhole
  <2>3. ASSUME NEW r \in Session PROVE IsWhole(view[r])'
    <3>1. CASE r = s
      BY <1>1, <1>2, <1>4, <2>1, <3>1 DEF IsWhole
    <3>2. CASE r # s
      BY <1>1, <1>4, <2>1, <3>2 DEF IsWhole
    <3> QED
      BY <3>1, <3>2
  <2> QED
    BY <2>2, <2>3
<1> QED
  BY <1>1, <1>5, <1>6, <1>7, <1>8, <1>9, NothingNew DEF IInv

(* A DROP TABLE that fails names nothing. *)
LEMMA DeleteTableFailsKeeps ==
  ASSUME IInv, NEW s \in Session, NEW t \in Tab, DeleteTableFails(s, t)
  PROVE  IInv'
<1>1. view[s] \in Store /\ UNCHANGED <<db, schemas, caches, used>>
  BY DEF IInv, TypeOK, DeleteTableFails
<1>2. PICK v \in DeleteTableMetadataFails(view[s], t) : Fail(s, t, v)
  BY DEF DeleteTableFails, DeleteTableMetadataFails
<1>3. v \in Store /\ v.head = view[s].head /\ v.ibase = view[s].ibase
  BY <1>1, DeleteTableMetadataFailsFacts
<1>4. /\ TxnTypeOK'
      /\ disturbed' \in [Inst -> BOOLEAN]
      /\ caught' \in BOOLEAN
      /\ \A r \in Session :
           view'[r] = view[r] \/ view'[r] = Empty \/ (r = s /\ view'[r] = v)
      /\ ~caught' => /\ ~caught
                     /\ \A r \in Session : view'[r] = view[r] \/ view'[r] = Empty
  BY <1>2, <1>3, FailFacts DEF IInv
<1>5. TypeOK'
  BY <1>1, <1>4 DEF IInv, TypeOK, MapTypeOK, TxnTypeOK, caches
<1>6. \A u \in Tab, m \in Name : KnownName(u, m)' => KnownName(u, m)
  BY <1>1, <1>3, <1>4, EmptyStore, CatalogAssumption DEF KnownName, caches
<1>7. \A y \in Idx, u \in Tab : KnownBase(y, u)' => KnownBase(y, u)
  BY <1>1, <1>3, <1>4, EmptyStore, CatalogAssumption DEF KnownBase, caches
<1>8. CachesAgree'
  BY <1>1 DEF IInv, CachesAgree, caches
<1>9. AllWhole'
  BY <1>1, <1>4, WholeStays DEF IInv
<1> QED
  BY <1>1, <1>5, <1>6, <1>7, <1>8, <1>9, NothingNew DEF IInv

(* A restart forgets. *)
LEMMA RestartKeeps ==
  ASSUME IInv, NEW i \in Inst, Restart(i)
  PROVE  IInv'
<1>1. /\ TxnTypeOK'
      /\ \A r \in Session : view'[r] = view[r] \/ view'[r] = Empty
  <2>1. {s \in Session : InstOf(s) = i} \in SUBSET Session
    OBVIOUS
  <2> QED
    BY <2>1, EndFacts DEF Restart, IInv
<1>2. UNCHANGED <<db, schemas, used, caught>>
  BY DEF Restart
<1>3. /\ MapTypeOK'
      /\ disturbed' \in [Inst -> BOOLEAN]
      /\ \A j \in Inst, u \in Tab :
           info'[j][u] = IF j = i THEN None ELSE info[j][u]
      /\ \A j \in Inst, n \in Name :
           byName'[j][n] = IF j = i THEN None ELSE byName[j][n]
      /\ \A j \in Inst, x \in Idx :
           idxBase'[j][x] = IF j = i THEN None ELSE idxBase[j][x]
  BY DEF Restart, IInv, TypeOK, MapTypeOK
<1>4. TypeOK'
  BY <1>1, <1>2, <1>3 DEF IInv, TypeOK, MapTypeOK, TxnTypeOK
<1>5. \A u \in Tab, m \in Name : KnownName(u, m)' => KnownName(u, m)
  <2> SUFFICES ASSUME NEW u \in Tab, NEW m \in Name, KnownName(u, m)'
               PROVE  KnownName(u, m)
    OBVIOUS
  <2>1. CASE db'.head[u] = m
    BY <1>2, <2>1 DEF KnownName
  <2>2. ASSUME NEW r \in Session, view'[r].head[u] = m PROVE KnownName(u, m)
    BY <1>1, <2>2, EmptyStore, CatalogAssumption DEF KnownName
  <2>3. ASSUME NEW j \in Inst, info'[j][u] # None /\ info'[j][u].name = m
        PROVE  KnownName(u, m)
    BY <1>3, <2>3 DEF KnownName
  <2> QED
    BY <2>1, <2>2, <2>3 DEF KnownName
<1>6. \A y \in Idx, u \in Tab : KnownBase(y, u)' => KnownBase(y, u)
  <2> SUFFICES ASSUME NEW y \in Idx, NEW u \in Tab, KnownBase(y, u)'
               PROVE  KnownBase(y, u)
    OBVIOUS
  <2>1. CASE db'.ibase[y] = u
    BY <1>2, <2>1 DEF KnownBase
  <2>2. ASSUME NEW r \in Session, view'[r].ibase[y] = u PROVE KnownBase(y, u)
    BY <1>1, <2>2, EmptyStore, CatalogAssumption DEF KnownBase
  <2>3. ASSUME NEW j \in Inst, info'[j][u] # None /\ y \in info'[j][u].idx
        PROVE  KnownBase(y, u)
    BY <1>3, <2>3 DEF KnownBase
  <2> QED
    BY <2>1, <2>2, <2>3 DEF KnownBase
<1>7. CachesAgree'
  <2>1. ASSUME NEW j \in Inst, NEW n \in Name, byName'[j][n] # None
        PROVE  info'[j][byName'[j][n]] # None /\ info'[j][byName'[j][n]].name = n
    <3>1. j # i /\ byName'[j][n] = byName[j][n] /\ byName[j][n] \in Tab
      BY <1>3, <2>1 DEF IInv, TypeOK
    <3>2. info[j][byName[j][n]] # None /\ info[j][byName[j][n]].name = n
      BY <2>1, <3>1 DEF IInv, CachesAgree
    <3> QED
      BY <1>3, <3>1, <3>2
  <2>2. ASSUME NEW j \in Inst, NEW x \in Idx, NEW u \in Tab
        PROVE  idxBase'[j][x] = u <=> info'[j][u] # None /\ x \in info'[j][u].idx
    <3>1. idxBase[j][x] = u <=> info[j][u] # None /\ x \in info[j][u].idx
      BY DEF IInv, CachesAgree
    <3>2. CASE j = i
      BY <1>3, <3>2, CatalogAssumption
    <3>3. CASE j # i
      BY <1>3, <3>1, <3>3
    <3> QED
      BY <3>2, <3>3
  <2> QED
    BY <2>1, <2>2 DEF CachesAgree
<1>8. AllWhole'
  BY <1>1, <1>2, WholeStays DEF IInv
<1> QED
  BY <1>2, <1>4, <1>5, <1>6, <1>7, <1>8, NothingNew DEF IInv

-----------------------------------------------------------------------------
(* The theorems *)

(* The invariant holds at first: nothing is known of anything. *)
LEMMA InitHolds == Init => IInv
<1> SUFFICES ASSUME Init PROVE IInv
  OBVIOUS
<1>1. TypeOK
  BY EmptyStore DEF Init, TypeOK
<1>2. \A t \in Tab, n \in Name : ~KnownName(t, n)
  BY EmptyStore, CatalogAssumption DEF Init, KnownName
<1>3. \A x \in Idx, t \in Tab : ~KnownBase(x, t)
  BY EmptyStore, CatalogAssumption DEF Init, KnownBase
<1>4. CachesAgree
  BY CatalogAssumption DEF Init, CachesAgree
<1>5. AllWhole
  BY EmptyStore DEF Init, AllWhole, IsWhole
<1> QED
  BY <1>1, <1>2, <1>3, <1>4, <1>5 DEF IInv, OneName, OneBase

(* Every step keeps the invariant. *)
LEMMA StepKeeps == IInv /\ [Next]_vars => IInv'
<1> SUFFICES ASSUME IInv, [Next]_vars PROVE IInv'
  OBVIOUS
<1>1. ASSUME NEW s \in Session, Begin(s) \/ Commit(s) \/ Abort(s)
      PROVE  IInv'
  BY <1>1, BeginKeeps, CommitKeeps, AbortKeeps
<1>2. ASSUME NEW s \in Session, NEW t \in Tab, NEW n \in Name,
             \/ CreateTable(s, t, n)
             \/ CreateTableRefused(s, t, n)
             \/ CreateTableFails(s, t, n)
      PROVE  IInv'
  BY <1>2, CreateTableKeeps, CreateTableRefusedKeeps, CreateTableFailsKeeps
<1>3. ASSUME NEW s \in Session, NEW x \in Idx, NEW t \in Tab,
             CreateIndexTable(s, x, t) \/ CreateIndexTableFails(s, x, t)
      PROVE  IInv'
  BY <1>3, CreateIndexTableKeeps, CreateIndexTableFailsKeeps
<1>4. ASSUME NEW s \in Session, NEW o \in Tab \cup Idx, GetTableSchema(s, o)
      PROVE  IInv'
  BY <1>4, GetTableSchemaKeeps
<1>5. ASSUME NEW s \in Session, NEW t \in Tab, DeleteTable(s, t) \/ DeleteTableFails(s, t)
      PROVE  IInv'
  BY <1>5, DeleteTableKeeps, DeleteTableFailsKeeps
<1>6. ASSUME NEW i \in Inst, Restart(i)
      PROVE  IInv'
  BY <1>6, RestartKeeps
<1>7. CASE UNCHANGED vars
  BY <1>7 DEF vars, IInv, TypeOK, OneName, OneBase, KnownName, KnownBase,
             CachesAgree, AllWhole, IsWhole
<1> QED
  BY <1>1, <1>2, <1>3, <1>4, <1>5, <1>6, <1>7 DEF Next, Step

(* The caches and the records always have the shape TypeOK says. *)
THEOREM TypeCorrect == Spec => []TypeOK
  BY InitHolds, StepKeeps, PTL DEF Spec, IInv

(* The three maps of every instance agree with each other, whatever is     *)
(* rolled back, caught, restarted or done by other instances.              *)
THEOREM MapsAgree == Spec => []CachesAgree
  BY InitHolds, StepKeeps, PTL DEF Spec, IInv

(* Unless an exception block hid a failed statement, whatever is committed *)
(* of a table or an index is complete and has its SKV schema.              *)
THEOREM CommitsWhole == Spec => []MetadataWhole
<1>1. IInv => MetadataWhole
  BY DEF IInv, AllWhole, IsWhole, MetadataWhole
<1> QED
  BY <1>1, InitHolds, StepKeeps, PTL DEF Spec

-----------------------------------------------------------------------------
(* The caches are current, however many backends share them, as long as    *)
(* their instance is not disturbed: then whoever has DDL under way is the  *)
(* only one of its instance to touch the caches, and everybody else there  *)
(* sees the committed records.                                             *)

(* ti is what the meta tables v say of table t *)
Tells(v, t, ti) ==
  /\ v.head[t] = ti.name
  /\ \A x \in Idx : x \in ti.idx <=> v.ibase[x] = t

(* s is a backend of i with DDL that is not committed *)
Writes(s, i) == s \in open /\ InstOf(s) = i /\ wr[s] # {}

(* Undisturbed, a backend of i sees the committed records and its own, at  *)
(* most one of them has DDL under way, and the tables that are cached are  *)
(* as that one sees them, or as they are committed                         *)
UpToDate(i) ==
  ~disturbed[i] /\ ~caught =>
    /\ \A s \in open : InstOf(s) = i =>
         /\ \A t \in Tab \ wr[s] : view[s].head[t] = db.head[t]
         /\ \A x \in Idx \ wr[s] : view[s].ibase[x] = db.ibase[x]
    /\ \A s, r \in Session : Writes(s, i) /\ Writes(r, i) => s = r
    /\ \A t \in Tab : info[i][t] # None =>
         /\ \A s \in Session : Writes(s, i) => Tells(view[s], t, info[i][t])
         /\ (\A s \in Session : ~Writes(s, i)) => Tells(db, t, info[i][t])

(* an index is on a table that was created *)
BaseUsed ==
  /\ \A x \in Idx : db.ibase[x] \in used \cup {None}
  /\ \A s \in Session, x \in Idx : view[s].ibase[x] \in used \cup {None}

(* who has no transaction has written nothing *)
ClosedClean == \A s \in Session : s \notin open => wr[s] = {}

CurrentInv == BaseUsed /\ ClosedClean /\ \A i \in Inst : UpToDate(i)

(* The caches of i and who writes there are left alone, others of i come   *)
(* with a fresh snapshot or go, and the records change only if i counts as *)
(* disturbed                                                               *)
LeftAlone(i) ==
  /\ info'[i] = info[i]
  /\ \A r \in open' : InstOf(r) = i =>
       \/ r \in open /\ view'[r] = view[r] /\ wr'[r] = wr[r]
       \/ view'[r] = db' /\ wr'[r] = {}
  /\ \A r \in open : InstOf(r) = i /\ wr[r] # {} =>
       r \in open' /\ view'[r] = view[r] /\ wr'[r] = wr[r]
  /\ \/ caught' \/ disturbed'[i]
     \/ /\ ~caught /\ ~disturbed[i]
        /\ \A t \in Tab : db'.head[t] = db.head[t]
        /\ \A x \in Idx : db'.ibase[x] = db.ibase[x]

LEMMA LeftAloneKeeps ==
  ASSUME TypeOK, TypeOK', NEW i \in Inst, UpToDate(i), LeftAlone(i)
  PROVE  UpToDate(i)'
<1> SUFFICES ASSUME ~disturbed'[i], ~caught' PROVE UpToDate(i)'
  BY DEF UpToDate
<1>1. /\ ~caught /\ ~disturbed[i] /\ info'[i] = info[i]
      /\ \A t \in Tab : db'.head[t] = db.head[t]
      /\ \A x \in Idx : db'.ibase[x] = db.ibase[x]
  BY DEF LeftAlone
<1>2. open \subseteq Session /\ open' \subseteq Session
  BY DEF TypeOK
<1>3. \A s \in Session : (s \in open' /\ InstOf(s) = i /\ wr'[s] # {}) <=> Writes(s, i)
  BY <1>2 DEF LeftAlone, Writes
<1>4. ASSUME NEW s \in open', InstOf(s) = i
      PROVE  /\ \A t \in Tab \ wr'[s] : view'[s].head[t] = db'.head[t]
             /\ \A x \in Idx \ wr'[s] : view'[s].ibase[x] = db'.ibase[x]
  <2>1. CASE s \in open /\ view'[s] = view[s] /\ wr'[s] = wr[s]
    BY <1>1, <1>4, <2>1 DEF UpToDate
  <2>2. CASE view'[s] = db'
    BY <2>2
  <2> QED
    BY <1>4, <2>1, <2>2 DEF LeftAlone
<1>5. ASSUME NEW t \in Tab, info'[i][t] # None, NEW s \in Session, Writes(s, i)
      PROVE  Tells(view[s], t, info[i][t])'
  <2>1. Tells(view[s], t, info[i][t]) /\ view'[s] = view[s]
    BY <1>1, <1>5 DEF UpToDate, LeftAlone, Writes
  <2> QED
    BY <1>1, <2>1 DEF Tells
<1>6. ASSUME NEW t \in Tab, info'[i][t] # None, \A s \in Session : ~Writes(s, i)
      PROVE  Tells(db, t, info[i][t])'
  <2>1. Tells(db, t, info[i][t])
    BY <1>1, <1>6 DEF UpToDate
  <2> QED
    BY <1>1, <2>1 DEF Tells
<1>7. \A s, r \in Session : Writes(s, i) /\ Writes(r, i) => s = r
  BY <1>1 DEF UpToDate
<1>8. \A s \in Session : Writes(s, i)' <=> Writes(s, i)
  BY <1>3 DEF Writes
<1> QED
  BY <1>4, <1>5, <1>6, <1>7, <1>8 DEF UpToDate, Tells, Writes

(* Nobody else of the instance of s writes: s sees what is cached *)
LEMMA CachedTells ==
  ASSUME TypeOK, NEW s \in Session, s \in open, UpToDate(InstOf(s)),
         ~disturbed[InstOf(s)], ~caught, ~Overlaps(s),
         NEW t \in Tab, info[InstOf(s)][t] # None
  PROVE  Tells(view[s], t, info[InstOf(s)][t])
<1> DEFINE i == InstOf(s)
<1>1. CASE wr[s] # {}
  BY <1>1 DEF UpToDate, Writes
<1>2. CASE wr[s] = {}
  <2>1. \A r \in Session : ~Writes(r, i)
    BY <1>2 DEF Writes, Overlaps
  <2>2. Tells(db, t, info[i][t])
    BY <2>1 DEF UpToDate
  <2>3. /\ \A u \in Tab : view[s].head[u] = db.head[u]
        /\ \A x \in Idx : view[s].ibase[x] = db.ibase[x]
    BY <1>2 DEF UpToDate
  <2> QED
    BY <2>2, <2>3 DEF Tells
<1> QED
  BY <1>1, <1>2

(* The backend s of i writes the records of o, and brings the caches up to *)
(* date with its view v                                                    *)
LEMMA WriteKeeps ==
  ASSUME TypeOK, TypeOK', NEW s \in Session, s \in open, NEW o, NEW v \in Store,
         UpToDate(InstOf(s)), Succeed(s, o, v), db' = db,
         \A t \in Tab : t # o => v.head[t] = view[s].head[t],
         \A x \in Idx : x # o => v.ibase[x] = view[s].ibase[x],
         ~disturbed[InstOf(s)] /\ ~caught /\ ~Overlaps(s) =>
           \A t \in Tab : info'[InstOf(s)][t] # None => Tells(v, t, info'[InstOf(s)][t])
  PROVE  UpToDate(InstOf(s))'
<1> DEFINE i == InstOf(s)
<1> SUFFICES ASSUME ~disturbed'[i], ~caught' PROVE UpToDate(i)'
  BY DEF UpToDate
<1>0. i \in Inst
  BY InstOfSession
<1>1. /\ ~disturbed[i] /\ ~caught /\ ~Overlaps(s) /\ open' = open
      /\ view'[s] = v /\ wr'[s] = wr[s] \cup {o}
      /\ \A r \in Session : r # s => view'[r] = view[r] /\ wr'[r] = wr[r]
  BY <1>0 DEF Succeed, TypeOK
<1>2. open \subseteq Session
  BY DEF TypeOK
<1>3. \A r \in Session : Writes(r, i)' <=> r = s
  BY <1>1, <1>2 DEF Writes, Overlaps
<1>4. /\ \A t \in Tab \ wr[s] : view[s].head[t] = db.head[t]
      /\ \A x \in Idx \ wr[s] : view[s].ibase[x] = db.ibase[x]
  BY <1>1 DEF UpToDate
<1>5. ASSUME NEW r \in open', InstOf(r) = i
      PROVE  /\ \A t \in Tab \ wr'[r] : view'[r].head[t] = db'.head[t]
             /\ \A x \in Idx \ wr'[r] : view'[r].ibase[x] = db'.ibase[x]
  <2>1. CASE r = s
    BY <1>1, <1>4, <2>1
  <2>2. CASE r # s
    <3>1. view'[r] = view[r] /\ wr'[r] = wr[r] /\ r \in open
      BY <1>1, <1>2, <1>5, <2>2
    <3> QED
      BY <1>1, <1>5, <3>1 DEF UpToDate
  <2> QED
    BY <2>1, <2>2
<1>6. ASSUME NEW t \in Tab, info'[i][t] # None PROVE Tells(view[s], t, info[i][t])'
  <2>1. Tells(v, t, info'[i][t])
    BY <1>1, <1>6
  <2> QED
    BY <1>1, <2>1 DEF Tells
<1> QED
  BY <1>3, <1>5, <1>6 DEF UpToDate, Tells, Writes

(* The transaction of s, which has written nothing, rolls back; nobody     *)
(* else of its instance writes                                             *)
LEMMA EndKeeps ==
  ASSUME TypeOK, TypeOK', NEW s \in Session, s \in open, End({s}),
         UpToDate(InstOf(s)), db' = db,
         ~disturbed'[InstOf(s)] /\ ~caught' =>
           /\ ~disturbed[InstOf(s)] /\ ~caught /\ ~Overlaps(s) /\ wr[s] = {}
           /\ \A t \in Tab : info'[InstOf(s)][t] # None =>
                Tells(view[s], t, info'[InstOf(s)][t])
  PROVE  UpToDate(InstOf(s))'
<1> DEFINE i == InstOf(s)
<1> SUFFICES ASSUME ~disturbed'[i], ~caught' PROVE UpToDate(i)'
  BY DEF UpToDate
<1>0. ~disturbed[i] /\ ~caught /\ ~Overlaps(s) /\ wr[s] = {}
  OBVIOUS
<1>1. /\ open' = open \ {s} /\ open \subseteq Session
      /\ \A r \in Session : r # s => view'[r] = view[r] /\ wr'[r] = wr[r]
  BY DEF TypeOK, End
<1>2. \A r \in Session : ~Writes(r, i)'
  BY <1>0, <1>1 DEF Writes, Overlaps
<1>3. ASSUME NEW r \in open', InstOf(r) = i
      PROVE  /\ \A t \in Tab \ wr'[r] : view'[r].head[t] = db'.head[t]
             /\ \A x \in Idx \ wr'[r] : view'[r].ibase[x] = db'.ibase[x]
  <2>1. view'[r] = view[r] /\ wr'[r] = wr[r] /\ r \in open
    BY <1>1, <1>3
  <2> QED
    BY <1>0, <1>3, <2>1 DEF UpToDate
<1>4. /\ \A t \in Tab : view[s].head[t] = db.head[t]
      /\ \A x \in Idx : view[s].ibase[x] = db.ibase[x]
  BY <1>0 DEF UpToDate
<1>5. ASSUME NEW t \in Tab, info'[i][t] # None PROVE Tells(db, t, info[i][t])'
  <2>1. Tells(view[s], t, info'[i][t])
    BY <1>5
  <2> QED
    BY <1>4, <2>1 DEF Tells
<1> QED
  BY <1>2, <1>3, <1>5 DEF UpToDate, Tells, Writes

(* What s leaves alone in the other instances *)
LEMMA OthersLeftAlone ==
  ASSUME TypeOK, TypeOK', NEW s \in Session, NEW j \in Inst, j # InstOf(s),
         info'[j] = info[j],
         \A r \in Session : r # s =>
           view'[r] = view[r] /\ wr'[r] = wr[r] /\ (r \in open' <=> r \in open),
         \/ caught' \/ disturbed'[j]
         \/ ~caught /\ ~disturbed[j] /\ db' = db
  PROVE  LeftAlone(j)
  BY DEF LeftAlone, TypeOK

LEMMA GetTableTells ==
  ASSUME NEW v \in Store, NEW t \in Tab
  PROVE  Tells(v, t, GetTable(v, t))
  BY DEF Tells, GetTable, BuildTableInfo, IndexesOn

LEMMA BaseTableTells ==
  ASSUME TypeOK, NEW s \in Session, s \in open, UpToDate(InstOf(s)),
         ~disturbed[InstOf(s)], ~caught, ~Overlaps(s), NEW t \in Tab
  PROVE  Tells(view[s], t, BaseTable(s, t))
<1>1. view[s] \in Store
  BY DEF TypeOK
<1> QED
  BY <1>1, CachedTells, GetTableTells DEF BaseTable

(* A failing statement: it is caught, or it ends the transaction *)
LEMMA FailKeeps ==
  ASSUME TypeOK, TypeOK', NEW s \in Session, s \in open,
         \A i \in Inst : UpToDate(i), NEW o, NEW v, Fail(s, o, v), db' = db,
         \A j \in Inst : j # InstOf(s) => info'[j] = info[j],
         ~disturbed[InstOf(s)] /\ ~caught /\ ~Overlaps(s) =>
           \A t \in Tab : info'[InstOf(s)][t] # None =>
             Tells(view[s], t, info'[InstOf(s)][t])
  PROVE  \A i \in Inst : UpToDate(i)'
<1> SUFFICES ASSUME NEW i \in Inst, ~caught' PROVE UpToDate(i)'
  BY DEF UpToDate
<1>1. RollBack(s) /\ caught' = caught
  BY DEF Fail
<1>2. InstOf(s) \in Inst
  BY InstOfSession
<1>3. /\ disturbed' = [disturbed EXCEPT ![InstOf(s)] = @ \/ wr[s] # {} \/ Overlaps(s)]
      /\ End({s})
  BY <1>1 DEF RollBack
<1>4. CASE i = InstOf(s)
  <2>1. ASSUME ~disturbed'[i] PROVE ~disturbed[i] /\ wr[s] = {} /\ ~Overlaps(s)
    BY <1>2, <1>3, <1>4, <2>1 DEF TypeOK
  <2>2. ~caught
    BY <1>1
  <2> QED
    BY <1>3, <1>4, <2>1, <2>2, EndKeeps
<1>5. CASE i # InstOf(s)
  <2>1. \A r \in Session : r # s =>
          view'[r] = view[r] /\ wr'[r] = wr[r] /\ (r \in open' <=> r \in open)
    BY <1>3 DEF End
  <2>2. disturbed'[i] = disturbed[i]
    BY <1>2, <1>3, <1>5 DEF TypeOK
  <2>3. LeftAlone(i)
    BY <1>1, <1>5, <2>1, <2>2, OthersLeftAlone DEF TypeOK
  <2> QED
    BY <2>3, LeftAloneKeeps
<1> QED
  BY <1>4, <1>5

(* The same for a statement that succeeds *)
LEMMA SucceedKeeps ==
  ASSUME TypeOK, TypeOK', NEW s \in Session, s \in open,
         \A i \in Inst : UpToDate(i), NEW o, NEW v \in Store, Succeed(s, o, v), db' = db,
         \A j \in Inst : j # InstOf(s) => info'[j] = info[j],
         \A t \in Tab : t # o => v.head[t] = view[s].head[t],
         \A x \in Idx : x # o => v.ibase[x] = view[s].ibase[x],
         ~disturbed[InstOf(s)] /\ ~caught /\ ~Overlaps(s) =>
           \A t \in Tab : info'[InstOf(s)][t] # None => Tells(v, t, info'[InstOf(s)][t])
  PROVE  \A i \in Inst : UpToDate(i)'
<1> SUFFICES ASSUME NEW i \in Inst PROVE UpToDate(i)'
  OBVIOUS
<1>1. CASE i = InstOf(s)
  BY <1>1, WriteKeeps
<1>2. CASE i # InstOf(s)
  <2>1. \A r \in Session : r # s =>
          view'[r] = view[r] /\ wr'[r] = wr[r] /\ (r \in open' <=> r \in open)
    BY DEF Succeed, TypeOK
  <2>2. disturbed'[i] = disturbed[i] /\ caught' = caught
    BY <1>2, InstOfSession DEF Succeed, TypeOK
  <2>3. LeftAlone(i)
    BY <1>2, <2>1, <2>2, OthersLeftAlone DEF TypeOK
  <2> QED
    BY <2>3, LeftAloneKeeps
<1> QED
  BY <1>1, <1>2

LEMMA CommitCurrent ==
  ASSUME IInv, IInv', CurrentInv, NEW s \in Session, Commit(s)
  PROVE  \A i \in Inst : UpToDate(i)'
<1> SUFFICES ASSUME NEW i \in Inst PROVE UpToDate(i)'
  OBVIOUS
<1>0. TypeOK /\ TypeOK' /\ UpToDate(i) /\ s \in open
  BY DEF IInv, CurrentInv, Commit
<1>1. /\ \A t \in Tab : db'.head[t] = IF t \in wr[s] THEN view[s].head[t] ELSE db.head[t]
      /\ \A x \in Idx : db'.ibase[x] = IF x \in wr[s] THEN view[s].ibase[x] ELSE db.ibase[x]
      /\ End({s}) /\ caught' = caught /\ info' = info
  BY DEF Commit, caches
<1>2. disturbed'[i] = (disturbed[i] \/
        (wr[s] # {} /\ (i # InstOf(s) \/ \E r \in open \ {s} : InstOf(r) = i)))
  BY DEF Commit
<1>3. CASE i = InstOf(s) /\ wr[s] # {}
  <2> SUFFICES ASSUME ~disturbed'[i], ~caught' PROVE UpToDate(i)'
    BY DEF UpToDate
  <2>1. ~disturbed[i] /\ ~caught /\ \A r \in open \ {s} : InstOf(r) # i
    BY <1>1, <1>2, <1>3 DEF TypeOK
  <2>2. \A r \in open' : InstOf(r) # i
    BY <1>1, <2>1 DEF End
  <2>3. /\ \A t \in Tab \ wr[s] : view[s].head[t] = db.head[t]
        /\ \A x \in Idx \ wr[s] : view[s].ibase[x] = db.ibase[x]
    BY <1>0, <1>3, <2>1 DEF UpToDate
  <2>4. ASSUME NEW t \in Tab, info'[i][t] # None PROVE Tells(db, t, info[i][t])'
    <3>1. Tells(view[s], t, info[i][t])
      BY <1>0, <1>1, <1>3, <2>1, <2>4 DEF UpToDate, Writes
    <3> QED
      BY <1>1, <2>3, <3>1 DEF Tells
  <2> QED
    BY <2>2, <2>4 DEF UpToDate, Tells, Writes
<1>4. CASE i # InstOf(s) \/ wr[s] = {}
  <2>1. /\ \A r \in Session : r # s =>
             view'[r] = view[r] /\ wr'[r] = wr[r] /\ (r \in open' <=> r \in open)
        /\ s \notin open' /\ open \subseteq Session /\ open' \subseteq Session
    BY <1>0, <1>1 DEF End, TypeOK
  <2>2. \/ caught' \/ disturbed'[i]
        \/ /\ ~caught /\ ~disturbed[i]
           /\ \A t \in Tab : db'.head[t] = db.head[t]
           /\ \A x \in Idx : db'.ibase[x] = db.ibase[x]
    BY <1>1, <1>2, <1>4
  <2>3. LeftAlone(i)
    BY <1>1, <1>4, <2>1, <2>2 DEF LeftAlone
  <2> QED
    BY <1>0, <2>3, LeftAloneKeeps
<1> QED
  BY <1>3, <1>4

LEMMA BeginCurrent ==
  ASSUME IInv, IInv', CurrentInv, NEW s \in Session, Begin(s)
  PROVE  \A i \in Inst : UpToDate(i)'
<1> SUFFICES ASSUME NEW i \in Inst PROVE UpToDate(i)'
  OBVIOUS
<1>0. TypeOK /\ TypeOK' /\ UpToDate(i) /\ open \subseteq Session
  BY DEF IInv, CurrentInv, TypeOK
<1>1. /\ s \notin open /\ open' = open \cup {s} /\ view'[s] = db /\ wr[s] = {}
      /\ \A r \in Session : r # s => view'[r] = view[r]
      /\ UNCHANGED <<db, info, wr, caught, disturbed>>
  BY <1>0 DEF Begin, caches, TypeOK, CurrentInv, ClosedClean
<1>2. LeftAlone(i) \/ disturbed[i] \/ caught
  BY <1>0, <1>1 DEF LeftAlone
<1> QED
  BY <1>0, <1>1, <1>2, LeftAloneKeeps DEF UpToDate

LEMMA CreateTableCurrent ==
  ASSUME IInv, IInv', CurrentInv,
         NEW s \in Session, NEW t \in Tab, NEW n \in Name, CreateTable(s, t, n)
  PROVE  \A i \in Inst : UpToDate(i)'
<1> DEFINE i == InstOf(s)
           v == PersistTableMeta(view[s], t, n)
           ti == [name |-> n, idx |-> {}]
<1>0. /\ TypeOK /\ TypeOK' /\ BaseUsed /\ (\A j \in Inst : UpToDate(j)) /\ i \in Inst
      /\ view[s] \in Store
  BY InstOfSession DEF IInv, CurrentInv, TypeOK
<1>1. s \in open /\ t \notin used /\ Succeed(s, t, v) /\ db' = db /\ UpdateTableCache(i, t, ti)
  BY DEF CreateTable, CanCreateTable
<1>2. /\ v \in Store /\ v.ibase = view[s].ibase
      /\ \A u \in Tab : v.head[u] = IF u = t THEN n ELSE view[s].head[u]
  BY <1>0, PersistTableMetaFacts
<1>3. ti \in TableInfo /\ ti.name = n /\ ti.idx = {}
  BY DEF TableInfo
<1> HIDE DEF ti
<1>4. \A j \in Inst, u \in Tab :
        info'[j][u] = IF j = i /\ u = t THEN ti ELSE info[j][u]
  BY <1>0, <1>1, <1>3, UpdateFacts
<1>5. \A j \in Inst : j # i => info'[j] = info[j]
  BY <1>0, <1>1 DEF UpdateTableCache, TypeOK
<1>6. ASSUME ~disturbed[i], ~caught, ~Overlaps(s), NEW u \in Tab, info'[i][u] # None
      PROVE  Tells(v, u, info'[i][u])
  <2>1. CASE u = t
    <3>1. \A x \in Idx : v.ibase[x] # t
      BY <1>0, <1>1, <1>2, CatalogAssumption DEF BaseUsed
    <3> QED
      BY <1>0, <1>2, <1>3, <1>4, <2>1, <3>1 DEF Tells
  <2>2. CASE u # t
    <3>1. Tells(view[s], u, info[i][u]) /\ info'[i][u] = info[i][u]
      BY <1>0, <1>1, <1>4, <1>6, <2>2, CachedTells
    <3> QED
      BY <1>2, <2>2, <3>1 DEF Tells
  <2> QED
    BY <2>1, <2>2
<1>7. t \notin Idx
  BY CatalogAssumption
<1>8. \A x \in Idx : x # t => v.ibase[x] = view[s].ibase[x]
  BY <1>2
<1>9. \A u \in Tab : u # t => v.head[u] = view[s].head[u]
  BY <1>2
<1> HIDE DEF v, i
<1>10. ~disturbed[InstOf(s)] /\ ~caught /\ ~Overlaps(s) =>
         \A u \in Tab : info'[InstOf(s)][u] # None => Tells(v, u, info'[InstOf(s)][u])
  BY <1>6 DEF i
<1>11. \A j \in Inst : j # InstOf(s) => info'[j] = info[j]
  BY <1>5 DEF i
<1> QED
  BY <1>0, <1>1, <1>2, <1>8, <1>9, <1>10, <1>11, SucceedKeeps

LEMMA CreateIndexCurrent ==
  ASSUME IInv, IInv', CurrentInv,
         NEW s \in Session, NEW x \in Idx, NEW t \in Tab, CreateIndexTable(s, x, t)
  PROVE  \A i \in Inst : UpToDate(i)'
<1> DEFINE i == InstOf(s)
           v == PersistIndexMeta(view[s], x, t)
           b == BaseTable(s, t)
           ti == WithIndex(b, x)
<1>0. /\ TypeOK /\ TypeOK' /\ OneBase /\ (\A j \in Inst : UpToDate(j)) /\ i \in Inst
      /\ view[s] \in Store
  BY InstOfSession DEF IInv, CurrentInv, TypeOK
<1>1. /\ s \in open /\ x \notin used /\ view[s].head[t] # None
      /\ Succeed(s, x, v) /\ db' = db /\ UpdateTableCache(i, t, ti)
  BY DEF CreateIndexTable, CanCreateIndex
<1>2. /\ v \in Store /\ v.head = view[s].head
      /\ \A y \in Idx : v.ibase[y] = IF y = x THEN t ELSE view[s].ibase[y]
  BY <1>0, PersistIndexMetaFacts
<1>3. b \in TableInfo
  BY <1>0, <1>1, BaseTableFacts
<1>4. ti \in TableInfo /\ ti.name = b.name /\ ti.idx = b.idx \cup {x}
  BY <1>3 DEF WithIndex, TableInfo
<1>5. ASSUME ~disturbed[i], ~caught, ~Overlaps(s) PROVE Tells(view[s], t, b)
  BY <1>0, <1>1, <1>5, BaseTableTells
<1> HIDE DEF b, ti
<1>6. \A j \in Inst, u \in Tab :
        info'[j][u] = IF j = i /\ u = t THEN ti ELSE info[j][u]
  BY <1>0, <1>1, <1>4, UpdateFacts
<1>7. \A j \in Inst : j # i => info'[j] = info[j]
  BY <1>0, <1>1 DEF UpdateTableCache, TypeOK
<1>8. ASSUME ~disturbed[i], ~caught, ~Overlaps(s), NEW u \in Tab, info'[i][u] # None
      PROVE  Tells(v, u, info'[i][u])
  <2>1. CASE u = t
    <3>1. Tells(view[s], t, b) /\ info'[i][u] = ti
      BY <1>0, <1>5, <1>6, <1>8, <2>1
    <3> QED
      BY <1>2, <1>4, <2>1, <3>1 DEF Tells
  <2>2. CASE u # t
    <3>1. Tells(view[s], u, info[i][u]) /\ info'[i][u] = info[i][u]
      BY <1>0, <1>1, <1>6, <1>8, <2>2, CachedTells
    <3>2. view[s].ibase[x] # u
      BY <1>1 DEF IInv, OneBase, KnownBase
    <3> QED
      BY <1>2, <2>2, <3>1, <3>2 DEF Tells
  <2> QED
    BY <2>1, <2>2
<1>9. \A y \in Idx : y # x => v.ibase[y] = view[s].ibase[y]
  BY <1>2
<1>10. \A u \in Tab : u # x => v.head[u] = view[s].head[u]
  BY <1>2
<1> HIDE DEF v, i
<1>11. ~disturbed[InstOf(s)] /\ ~caught /\ ~Overlaps(s) =>
         \A u \in Tab : info'[InstOf(s)][u] # None => Tells(v, u, info'[InstOf(s)][u])
  BY <1>8 DEF i
<1>12. \A j \in Inst : j # InstOf(s) => info'[j] = info[j]
  BY <1>7 DEF i
<1> QED
  BY <1>0, <1>1, <1>2, <1>9, <1>10, <1>11, <1>12, SucceedKeeps

LEMMA DeleteTableCurrent ==
  ASSUME IInv, IInv', CurrentInv,
         NEW s \in Session, NEW t \in Tab, DeleteTable(s, t)
  PROVE  \A i \in Inst : UpToDate(i)'
<1> DEFINE i == InstOf(s)
           v == DeleteTableMetadata(view[s], t)
<1>0. /\ TypeOK /\ TypeOK' /\ (\A j \in Inst : UpToDate(j)) /\ i \in Inst
      /\ view[s] \in Store
  BY InstOfSession DEF IInv, CurrentInv, TypeOK
<1>1. /\ s \in open /\ view[s].head[t] # None
      /\ Succeed(s, t, v) /\ db' = db /\ ClearTableCache(i, t, BaseTable(s, t))
  BY DEF DeleteTable, CanDropTable
<1>2. /\ v \in Store /\ v.ibase = view[s].ibase
      /\ \A u \in Tab : v.head[u] = IF u = t THEN None ELSE view[s].head[u]
  BY <1>0, DeleteTableMetadataFacts
<1>3. BaseTable(s, t) \in TableInfo
  BY <1>0, <1>1, BaseTableFacts
<1>4. \A j \in Inst, u \in Tab :
        info'[j][u] = IF j = i /\ u = t THEN None ELSE info[j][u]
  BY <1>0, <1>1, <1>3, ClearFacts
<1>5. \A j \in Inst : j # i => info'[j] = info[j]
  BY <1>0, <1>1 DEF ClearTableCache, TypeOK
<1>6. ASSUME ~disturbed[i], ~caught, ~Overlaps(s), NEW u \in Tab, info'[i][u] # None
      PROVE  Tells(v, u, info'[i][u])
  <2>1. u # t /\ info'[i][u] = info[i][u]
    BY <1>0, <1>4, <1>6
  <2>2. Tells(view[s], u, info[i][u])
    BY <1>0, <1>1, <1>6, <2>1, CachedTells
  <2> QED
    BY <1>2, <2>1, <2>2 DEF Tells
<1>7. \A x \in Idx : x # t => v.ibase[x] = view[s].ibase[x]
  BY <1>2
<1>8. \A u \in Tab : u # t => v.head[u] = view[s].head[u]
  BY <1>2
<1> HIDE DEF v, i
<1>9. ~disturbed[InstOf(s)] /\ ~caught /\ ~Overlaps(s) =>
        \A u \in Tab : info'[InstOf(s)][u] # None => Tells(v, u, info'[InstOf(s)][u])
  BY <1>6 DEF i
<1>10. \A j \in Inst : j # InstOf(s) => info'[j] = info[j]
  BY <1>5 DEF i
<1> QED
  BY <1>0, <1>1, <1>2, <1>7, <1>8, <1>9, <1>10, SucceedKeeps

(* What is read in the view of s is cached; the rest of the state stays *)
LEMMA ReadTells ==
  ASSUME TypeOK, NEW s \in Session, s \in open, UpToDate(InstOf(s)), NEW t \in Tab,
         NEW ti \in TableInfo, Tells(view[s], t, ti),
         UpdateTableCache(InstOf(s), t, ti)
  PROVE  /\ \A j \in Inst : j # InstOf(s) => info'[j] = info[j]
         /\ ~disturbed[InstOf(s)] /\ ~caught /\ ~Overlaps(s) =>
              \A u \in Tab : info'[InstOf(s)][u] # None =>
                Tells(view[s], u, info'[InstOf(s)][u])
<1>1. InstOf(s) \in Inst
  BY InstOfSession
<1>2. \A j \in Inst, u \in Tab :
        info'[j][u] = IF j = InstOf(s) /\ u = t THEN ti ELSE info[j][u]
  BY <1>1, UpdateFacts
<1>3. \A j \in Inst : j # InstOf(s) => info'[j] = info[j]
  BY <1>1 DEF UpdateTableCache, TypeOK
<1>4. ASSUME ~disturbed[InstOf(s)], ~caught, ~Overlaps(s), NEW u \in Tab, info'[InstOf(s)][u] # None
      PROVE  Tells(view[s], u, info'[InstOf(s)][u])
  <2>1. CASE u = t
    BY <1>1, <1>2, <2>1
  <2>2. CASE u # t
    BY <1>1, <1>2, <1>4, <2>2, CachedTells
  <2> QED
    BY <2>1, <2>2
<1> QED
  BY <1>3, <1>4

LEMMA GetTableSchemaCurrent ==
  ASSUME IInv, IInv', CurrentInv,
         NEW s \in Session, NEW o \in Tab \cup Idx, GetTableSchema(s, o)
  PROVE  \A i \in Inst : UpToDate(i)'
<1> DEFINE t == OwnerOf(view[s], o)
           ti == GetTable(view[s], t)
<1>0. /\ TypeOK /\ TypeOK' /\ (\A j \in Inst : UpToDate(j)) /\ InstOf(s) \in Inst
      /\ view[s] \in Store
  BY InstOfSession DEF IInv, CurrentInv, TypeOK
<1>1. /\ s \in open /\ t # None /\ view[s].head[t] # None
      /\ UpdateTableCache(InstOf(s), t, ti)
      /\ disturbed' = [disturbed EXCEPT ![InstOf(s)] = @ \/ Overlaps(s)]
      /\ UNCHANGED <<db, open, view, wr, caught>>
  BY DEF GetTableSchema, Found
<1>2. t \in Tab
  BY <1>0, <1>1 DEF OwnerOf, Store
<1> HIDE DEF t
<1>3. ti \in TableInfo /\ Tells(view[s], t, ti)
  BY <1>0, <1>1, <1>2, GetTableFacts, GetTableTells
<1> HIDE DEF ti
<1>4. /\ \A j \in Inst : j # InstOf(s) => info'[j] = info[j]
      /\ ~disturbed[InstOf(s)] /\ ~caught /\ ~Overlaps(s) =>
           \A u \in Tab : info'[InstOf(s)][u] # None =>
             Tells(view[s], u, info'[InstOf(s)][u])
  BY <1>0, <1>1, <1>2, <1>3, ReadTells
<1> SUFFICES ASSUME NEW i \in Inst PROVE UpToDate(i)'
  OBVIOUS
<1>5. CASE i = InstOf(s)
  <2> SUFFICES ASSUME ~disturbed'[i], ~caught' PROVE UpToDate(i)'
    BY DEF UpToDate
  <2>1. ~disturbed[i] /\ ~caught /\ ~Overlaps(s)
    BY <1>0, <1>1, <1>5 DEF TypeOK
  <2>2. \A r \in Session : Writes(r, i)' <=> Writes(r, i)
    BY <1>1 DEF Writes
  <2>3. \A r \in Session : Writes(r, i) <=> r = s /\ wr[s] # {}
    BY <1>1, <1>5, <2>1 DEF Writes, Overlaps
  <2>4. ASSUME NEW u \in Tab, info'[i][u] # None, wr[s] # {}
        PROVE  Tells(view[s], u, info[i][u])'
    <3>1. Tells(view[s], u, info'[i][u]) /\ view' = view
      BY <1>1, <1>4, <1>5, <2>1, <2>4
    <3> QED
      BY <3>1 DEF Tells
  <2>5. ASSUME NEW u \in Tab, info'[i][u] # None, wr[s] = {}
        PROVE  Tells(db, u, info[i][u])'
    <3>1. Tells(view[s], u, info'[i][u]) /\ db' = db
      BY <1>1, <1>4, <1>5, <2>1, <2>5
    <3>2. /\ \A w \in Tab : view[s].head[w] = db.head[w]
          /\ \A x \in Idx : view[s].ibase[x] = db.ibase[x]
      BY <1>0, <1>1, <1>5, <2>1, <2>5 DEF UpToDate
    <3> QED
      BY <3>1, <3>2 DEF Tells
  <2>6. ASSUME NEW r \in open', InstOf(r) = i
        PROVE  /\ \A u \in Tab \ wr'[r] : view'[r].head[u] = db'.head[u]
               /\ \A x \in Idx \ wr'[r] : view'[r].ibase[x] = db'.ibase[x]
    BY <1>0, <1>1, <2>1, <2>6 DEF UpToDate
  <2> QED
    BY <2>2, <2>3, <2>4, <2>5, <2>6 DEF UpToDate, Tells, Writes
<1>6. CASE i # InstOf(s)
  <2>1. disturbed'[i] = disturbed[i]
    BY <1>0, <1>1, <1>6 DEF TypeOK
  <2>2. LeftAlone(i) \/ disturbed'[i] \/ caught'
    BY <1>0, <1>1, <1>4, <1>6, <2>1, OthersLeftAlone DEF TypeOK
  <2> QED
    BY <1>0, <2>2, LeftAloneKeeps DEF UpToDate
<1> QED
  BY <1>5, <1>6

LEMMA FailsCurrent ==
  ASSUME IInv, IInv', CurrentInv, NEW s \in Session,
         \/ Abort(s)
         \/ \E t \in Tab, n \in Name : CreateTableRefused(s, t, n) \/ CreateTableFails(s, t, n)
         \/ \E t \in Tab : DeleteTableFails(s, t)
         \/ \E x \in Idx, t \in Tab : CreateIndexTableFails(s, x, t)
  PROVE  \A i \in Inst : UpToDate(i)'
<1>0. /\ TypeOK /\ TypeOK' /\ (\A j \in Inst : UpToDate(j)) /\ InstOf(s) \in Inst
      /\ view[s] \in Store
  BY InstOfSession DEF IInv, CurrentInv, TypeOK
<1>1. s \in open /\ db' = db
  BY DEF Abort, CreateTableRefused, CreateTableFails, DeleteTableFails,
         CreateIndexTableFails, CanCreateTable, CanDropTable, CanCreateIndex
<1>2. \E o, v : Fail(s, o, v)
  BY DEF Abort, CreateTableRefused, CreateTableFails, DeleteTableFails,
         CreateIndexTableFails, Fail
<1>3. CASE info' = info
  <2>1. ~disturbed[InstOf(s)] /\ ~caught /\ ~Overlaps(s) =>
          \A u \in Tab : info'[InstOf(s)][u] # None =>
            Tells(view[s], u, info'[InstOf(s)][u])
    BY <1>0, <1>1, <1>3, CachedTells
  <2>2. \A j \in Inst : j # InstOf(s) => info'[j] = info[j]
    BY <1>3
  <2> QED
    BY <1>0, <1>1, <1>2, <2>1, <2>2, FailKeeps
<1>4. CASE info' # info
  <2>1. PICK t \in Tab : /\ view[s].head[t] # None /\ info[InstOf(s)][t] = None
                         /\ UpdateTableCache(InstOf(s), t, BaseTable(s, t))
    BY <1>4 DEF Abort, CreateTableRefused, CreateTableFails, DeleteTableFails,
                CreateIndexTableFails, CanCreateIndex, caches
  <2>2. BaseTable(s, t) = GetTable(view[s], t)
    BY <2>1 DEF BaseTable
  <2>3. BaseTable(s, t) \in TableInfo /\ Tells(view[s], t, BaseTable(s, t))
    BY <1>0, <2>1, <2>2, GetTableFacts, GetTableTells
  <2>4. /\ \A j \in Inst : j # InstOf(s) => info'[j] = info[j]
        /\ ~disturbed[InstOf(s)] /\ ~caught /\ ~Overlaps(s) =>
             \A u \in Tab : info'[InstOf(s)][u] # None =>
               Tells(view[s], u, info'[InstOf(s)][u])
    BY <1>0, <1>1, <2>1, <2>3, ReadTells
  <2> QED
    BY <1>0, <1>1, <1>2, <2>4, FailKeeps
<1> QED
  BY <1>3, <1>4

LEMMA RestartCurrent ==
  ASSUME IInv, IInv', CurrentInv, NEW k \in Inst, Restart(k)
  PROVE  \A i \in Inst : UpToDate(i)'
<1> SUFFICES ASSUME NEW i \in Inst PROVE UpToDate(i)'
  OBVIOUS
<1>0. TypeOK /\ TypeOK' /\ UpToDate(i)
  BY DEF IInv, CurrentInv
<1>1. CASE i = k
  <2>1. \A t \in Tab : info'[i][t] = None
    BY <1>0, <1>1 DEF Restart, TypeOK
  <2>2. \A r \in open' : InstOf(r) # i
    BY <1>0, <1>1 DEF Restart, End, TypeOK
  <2> QED
    BY <2>1, <2>2 DEF UpToDate, Writes
<1>2. CASE i # k
  <2>1. \A r \in Session : InstOf(r) = i =>
          view'[r] = view[r] /\ wr'[r] = wr[r] /\ (r \in open' <=> r \in open)
    BY <1>2 DEF Restart, End
  <2>2. /\ info'[i] = info[i] /\ disturbed'[i] = disturbed[i]
        /\ db' = db /\ caught' = caught
    BY <1>0, <1>2 DEF Restart, TypeOK
  <2>3. LeftAlone(i)
    BY <1>0, <2>1, <2>2 DEF LeftAlone, TypeOK
  <2> QED
    BY <1>0, <2>3, LeftAloneKeeps
<1> QED
  BY <1>1, <1>2

(* Only CREATE INDEX puts an index on a table, and it finds the table's    *)
(* record                                                                  *)
LEMMA BaseUsedStep == ASSUME IInv, BaseUsed, [Next]_vars PROVE BaseUsed'
<1>0. TypeOK /\ OneName /\ db \in Store /\ \A s \in Session : view[s] \in Store
  BY DEF IInv, TypeOK
<1>1. ASSUME used \subseteq used',
             \A x \in Idx : db'.ibase[x] = db.ibase[x]
                              \/ \E s \in Session : db'.ibase[x] = view[s].ibase[x],
             \A s \in Session, x \in Idx :
               \/ view'[s].ibase[x] = view[s].ibase[x]
               \/ view'[s].ibase[x] = db.ibase[x]
               \/ view'[s].ibase[x] = None
               \/ view'[s].ibase[x] \in used
      PROVE  BaseUsed'
  <2>1. \A x \in Idx : db'.ibase[x] \in used' \cup {None}
    BY <1>1 DEF BaseUsed
  <2>2. \A s \in Session, x \in Idx : view'[s].ibase[x] \in used' \cup {None}
    BY <1>1 DEF BaseUsed
  <2> QED
    BY <2>1, <2>2 DEF BaseUsed
<1>2. ASSUME NEW s \in Session, Begin(s) PROVE BaseUsed'
  BY <1>0, <1>1, <1>2 DEF Begin, TypeOK
<1>3. ASSUME NEW s \in Session, Commit(s) PROVE BaseUsed'
  <2>1. \A r \in Session : view'[r] = view[r] \/ view'[r] = Empty
    BY <1>0, <1>3, EndFacts DEF Commit
  <2>2. \A x \in Idx : db'.ibase[x] = IF x \in wr[s] THEN view[s].ibase[x] ELSE db.ibase[x]
    BY <1>3 DEF Commit
  <2> QED
    BY <1>1, <1>3, <2>1, <2>2, EmptyStore DEF Commit
<1>4. ASSUME NEW s \in Session, Abort(s) PROVE BaseUsed'
  <2>1. \A r \in Session : view'[r] = view[r] \/ view'[r] = Empty
    BY <1>0, <1>4, RollBackFacts DEF Abort
  <2> QED
    BY <1>1, <1>4, <2>1, EmptyStore DEF Abort
<1>5. ASSUME NEW s \in Session, NEW t \in Tab, NEW n \in Name, CreateTable(s, t, n)
      PROVE  BaseUsed'
  <2> DEFINE v == PersistTableMeta(view[s], t, n)
  <2>1. v \in Store /\ v.ibase = view[s].ibase
    BY <1>0, PersistTableMetaFacts
  <2>2. Succeed(s, t, v) /\ db' = db /\ used \subseteq used'
    BY <1>5 DEF CreateTable, CanCreateTable
  <2> HIDE DEF v
  <2>3. \A r \in Session : view'[r] = IF r = s THEN v ELSE view[r]
    BY <1>0, <2>1, <2>2, SucceedFacts
  <2> QED
    BY <1>1, <2>1, <2>2, <2>3
<1>6. ASSUME NEW s \in Session, NEW o \in Tab \cup Idx, NEW v \in Store, Fail(s, o, v),
             db' = db, used \subseteq used',
             \A x \in Idx : v.ibase[x] = view[s].ibase[x] \/ v.ibase[x] \in used
      PROVE  BaseUsed'
  <2>1. \A r \in Session :
          view'[r] = view[r] \/ view'[r] = Empty \/ (r = s /\ view'[r] = v)
    BY <1>0, <1>6, FailFacts
  <2> QED
    BY <1>1, <1>6, <2>1, EmptyStore
<1>7. ASSUME NEW s \in Session, NEW t \in Tab, NEW n \in Name,
             CreateTableRefused(s, t, n) \/ CreateTableFails(s, t, n)
      PROVE  BaseUsed'
  <2>1. db' = db /\ used \subseteq used'
    BY <1>7 DEF CreateTableRefused, CreateTableFails, CanCreateTable
  <2>2. PICK v \in PersistTableMetaFails(view[s], t, n) : Fail(s, t, v)
    BY <1>7 DEF CreateTableRefused, CreateTableFails, PersistTableMetaFails
  <2>3. v \in Store /\ v.ibase = view[s].ibase
    BY <1>0, PersistTableMetaFailsFacts
  <2> QED
    BY <1>6, <2>1, <2>2, <2>3
<1>8. ASSUME NEW s \in Session, NEW t \in Tab, view[s].head[t] # None
      PROVE  t \in used
  <2>1. view[s].head[t] \in Name
    BY <1>0, <1>8 DEF Store
  <2> QED
    BY <1>0, <2>1 DEF OneName, KnownName
<1>9. ASSUME NEW s \in Session, NEW x \in Idx, NEW t \in Tab, CreateIndexTable(s, x, t)
      PROVE  BaseUsed'
  <2> DEFINE v == PersistIndexMeta(view[s], x, t)
  <2>1. v \in Store /\ \A y \in Idx : v.ibase[y] = IF y = x THEN t ELSE view[s].ibase[y]
    BY <1>0, PersistIndexMetaFacts
  <2>2. Succeed(s, x, v) /\ db' = db /\ used \subseteq used' /\ t \in used
    BY <1>8, <1>9 DEF CreateIndexTable, CanCreateIndex
  <2> HIDE DEF v
  <2>3. \A r \in Session : view'[r] = IF r = s THEN v ELSE view[r]
    BY <1>0, <2>1, <2>2, SucceedFacts
  <2> QED
    BY <1>1, <2>1, <2>2, <2>3
<1>10. ASSUME NEW s \in Session, NEW x \in Idx, NEW t \in Tab, CreateIndexTableFails(s, x, t)
       PROVE  BaseUsed'
  <2>1. db' = db /\ used \subseteq used' /\ t \in used
    BY <1>8, <1>10 DEF CreateIndexTableFails, CanCreateIndex
  <2>2. PICK v \in PersistIndexMetaFails(view[s], x, t) : Fail(s, x, v)
    BY <1>10 DEF CreateIndexTableFails, PersistIndexMetaFails
  <2>3. /\ v \in Store
        /\ \A y \in Idx : v.ibase[y] = view[s].ibase[y] \/ (y = x /\ v.ibase[y] = t)
    BY <1>0, PersistIndexMetaFailsFacts
  <2> QED
    BY <1>6, <2>1, <2>2, <2>3
<1>11. ASSUME NEW s \in Session, NEW o \in Tab \cup Idx, GetTableSchema(s, o)
       PROVE  BaseUsed'
  BY <1>1, <1>11 DEF GetTableSchema
<1>12. ASSUME NEW s \in Session, NEW t \in Tab, DeleteTable(s, t) PROVE BaseUsed'
  <2> DEFINE v == DeleteTableMetadata(view[s], t)
  <2>1. v \in Store /\ v.ibase = view[s].ibase
    BY <1>0, DeleteTableMetadataFacts
  <2>2. Succeed(s, t, v) /\ db' = db /\ used' = used
    BY <1>12 DEF DeleteTable
  <2> HIDE DEF v
  <2>3. \A r \in Session : view'[r] = IF r = s THEN v ELSE view[r]
    BY <1>0, <2>1, <2>2, SucceedFacts
  <2> QED
    BY <1>1, <2>1, <2>2, <2>3
<1>13. ASSUME NEW s \in Session, NEW t \in Tab, DeleteTableFails(s, t) PROVE BaseUsed'
  <2>1. db' = db /\ used' = used
    BY <1>13 DEF DeleteTableFails
  <2>2. PICK v \in DeleteTableMetadataFails(view[s], t) : Fail(s, t, v)
    BY <1>13 DEF DeleteTableFails, DeleteTableMetadataFails
  <2>3. v \in Store /\ v.ibase = view[s].ibase
    BY <1>0, DeleteTableMetadataFailsFacts
  <2> QED
    BY <1>6, <2>1, <2>2, <2>3
<1>14. ASSUME NEW i \in Inst, Restart(i) PROVE BaseUsed'
  <2>1. \A r \in Session : view'[r] = view[r] \/ view'[r] = Empty
    BY <1>0, <1>14, EndFacts DEF Restart
  <2> QED
    BY <1>1, <1>14, <2>1, EmptyStore DEF Restart
<1>15. CASE UNCHANGED vars
  BY <1>1, <1>15 DEF vars
<1> QED
  BY <1>2, <1>3, <1>4, <1>5, <1>7, <1>9, <1>10, <1>11, <1>12, <1>13, <1>14, <1>15
  DEF Next, Step

(* Only who has a transaction writes, and its end forgets what it wrote *)
LEMMA ClosedStep == ASSUME IInv, ClosedClean, [Next]_vars PROVE ClosedClean'
<1>0. TypeOK
  BY DEF IInv
<1>1. ASSUME NEW S \in SUBSET Session, End(S) PROVE ClosedClean'
  BY <1>0, <1>1 DEF End, ClosedClean, TypeOK
<1>2. ASSUME NEW s \in Session, s \in open, open' = open,
             \A r \in Session : r # s => wr'[r] = wr[r]
      PROVE  ClosedClean'
  BY <1>2 DEF ClosedClean
<1>3. ASSUME NEW s \in Session, s \in open, NEW o, NEW v, Fail(s, o, v) PROVE ClosedClean'
  <2>1. CASE RollBack(s)
    <3>1. End({s}) /\ {s} \in SUBSET Session
      BY <2>1 DEF RollBack
    <3> QED
      BY <1>1, <3>1
  <2>2. CASE ~RollBack(s)
    <3>1. open' = open /\ \A r \in Session : r # s => wr'[r] = wr[r]
      BY <1>0, <1>3, <2>2 DEF Fail, TypeOK
    <3> QED
      BY <1>2, <1>3, <3>1
  <2> QED
    BY <2>1, <2>2
<1>4. ASSUME NEW s \in Session, s \in open, NEW o, NEW v, Succeed(s, o, v)
      PROVE  ClosedClean'
  <2>1. open' = open /\ \A r \in Session : r # s => wr'[r] = wr[r]
    BY <1>0, <1>4 DEF Succeed, TypeOK
  <2> QED
    BY <1>2, <1>4, <2>1
<1>5. ASSUME NEW s \in Session, Begin(s) PROVE ClosedClean'
  BY <1>0, <1>5 DEF Begin, ClosedClean, TypeOK
<1>6. ASSUME NEW s \in Session, Commit(s) \/ Abort(s) PROVE ClosedClean'
  <2>1. End({s}) /\ {s} \in SUBSET Session
    BY <1>6 DEF Commit, Abort, RollBack
  <2> QED
    BY <1>1, <2>1
<1>7. ASSUME NEW s \in Session, NEW t \in Tab, NEW n \in Name, CreateTable(s, t, n)
      PROVE  ClosedClean'
  BY <1>4, <1>7 DEF CreateTable, CanCreateTable
<1>8. ASSUME NEW s \in Session, NEW t \in Tab, NEW n \in Name,
             CreateTableRefused(s, t, n) \/ CreateTableFails(s, t, n)
      PROVE  ClosedClean'
  BY <1>3, <1>8 DEF CreateTableRefused, CreateTableFails, CanCreateTable
<1>9. ASSUME NEW s \in Session, NEW x \in Idx, NEW t \in Tab, CreateIndexTable(s, x, t)
      PROVE  ClosedClean'
  BY <1>4, <1>9 DEF CreateIndexTable, CanCreateIndex
<1>10. ASSUME NEW s \in Session, NEW x \in Idx, NEW t \in Tab,
              CreateIndexTableFails(s, x, t)
       PROVE  ClosedClean'
  BY <1>3, <1>10 DEF CreateIndexTableFails, CanCreateIndex
<1>11. ASSUME NEW s \in Session, NEW o \in Tab \cup Idx, GetTableSchema(s, o)
       PROVE  ClosedClean'
  BY <1>11 DEF GetTableSchema, ClosedClean
<1>12. ASSUME NEW s \in Session, NEW t \in Tab, DeleteTable(s, t) PROVE ClosedClean'
  BY <1>4, <1>12 DEF DeleteTable, CanDropTable
<1>13. ASSUME NEW s \in Session, NEW t \in Tab, DeleteTableFails(s, t) PROVE ClosedClean'
  BY <1>3, <1>13 DEF DeleteTableFails, CanDropTable
<1>14. ASSUME NEW i \in Inst, Restart(i) PROVE ClosedClean'
  <2>1. End({s \in Session : InstOf(s) = i})
    BY <1>14 DEF Restart
  <2> QED
    BY <1>1, <2>1
<1>15. CASE UNCHANGED vars
  BY <1>15 DEF vars, ClosedClean
<1> QED
  BY <1>5, <1>6, <1>7, <1>8, <1>9, <1>10, <1>11, <1>12, <1>13, <1>14, <1>15
  DEF Next, Step

LEMMA CurrentStep ==
  ASSUME IInv, IInv', CurrentInv, [Next]_vars
  PROVE  CurrentInv'
<1>1. BaseUsed' /\ ClosedClean'
  BY BaseUsedStep, ClosedStep DEF CurrentInv
<1>2. CASE UNCHANGED vars
  <2>1. \A i \in Inst : LeftAlone(i) \/ disturbed'[i] \/ caught'
    BY <1>2 DEF vars, LeftAlone, IInv, TypeOK
  <2>2. \A i \in Inst : UpToDate(i)'
    BY <2>1, LeftAloneKeeps DEF IInv, CurrentInv, UpToDate
  <2> QED
    BY <1>1, <2>2 DEF CurrentInv
<1>3. CASE Next
  <2>1. \A i \in Inst : UpToDate(i)'
    BY <1>3, BeginCurrent, CommitCurrent, CreateTableCurrent, CreateIndexCurrent,
       DeleteTableCurrent, GetTableSchemaCurrent, FailsCurrent, RestartCurrent
    DEF Next, Step
  <2> QED
    BY <1>1, <2>1 DEF CurrentInv
<1> QED
  BY <1>2, <1>3

LEMMA CurrentInit == Init => CurrentInv
  BY EmptyStore DEF Init, CurrentInv, BaseUsed, ClosedClean, UpToDate, Writes

(* For any number of instances, backends, tables and indexes: while an     *)
(* instance is not disturbed and has no DDL under way, the tables in its   *)
(* caches are the committed ones.                                          *)
THEOREM CachesCurrent == Spec => []CacheCurrent
<1>1. IInv /\ IInv' /\ CurrentInv /\ [Next]_vars => CurrentInv'
  BY CurrentStep
<1>2. IInv /\ CurrentInv => CacheCurrent
  <2> SUFFICES ASSUME IInv, CurrentInv, NEW i \in Inst, NEW t \in Tab,
                      ~disturbed[i], ~caught,
                      \A s \in open : InstOf(s) = i => wr[s] = {},
                      info[i][t] # None
               PROVE  db.head[t] # None /\ info[i][t] = GetTable(db, t)
    BY DEF CacheCurrent
  <2>1. Tells(db, t, info[i][t])
    BY DEF CurrentInv, UpToDate, Writes
  <2>2. info[i][t] \in TableInfo /\ db \in Store
    BY DEF IInv, TypeOK
  <2>3. db.head[t] = info[i][t].name /\ info[i][t].name \in Name
    BY <2>1, <2>2 DEF Tells, TableInfo
  <2>4. info[i][t].idx = IndexesOn(db, t)
    BY <2>1, <2>2 DEF Tells, TableInfo, IndexesOn
  <2> QED
    BY <2>2, <2>3, <2>4, CatalogAssumption DEF GetTable, BuildTableInfo, TableInfo
<1> QED
  BY InitHolds, StepKeeps, CurrentInit, <1>1, <1>2, PTL DEF Spec
=============================================================================
