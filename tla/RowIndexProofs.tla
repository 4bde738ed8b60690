--------------------------- MODULE RowIndexProofs ---------------------------
(***************************************************************************)
(* Proofs about RowIndex for any number of backends, rows, values and      *)
(* transactions.                                                           *)
(*                                                                         *)
(* CatalogIndexExact is about committed records.  It survives a commit     *)
(* because every open transaction sees an exact index too (Exact) and has  *)
(* written a row and the entries for its old and its new value together    *)
(* (Together), while nobody else could write any of them (Isolated).       *)
(*                                                                         *)
(* UserIndexComplete needs no such care: the entries of a user table that  *)
(* hold their base row are never erased (UserInv).                         *)
(***************************************************************************)
EXTENDS RowIndex, TLAPS

(* KeyOf, with the kind of index as a parameter *)
Key(u, x, r) == IF u /\ x # Null THEN <<x, None>> ELSE <<x, r>>

(* The entries of v are those of its rows *)
Exact(u, v) ==
  /\ \A r \in Row, x \in Field : v.row[r] = x <=> v.idx[Key(u, x, r)] = r
  /\ \A k \in IdxKey, r \in Row : v.idx[k] = r => \E x \in Field : k = Key(u, x, r)

(* Outside the records W the store v is as d *)
SameOutside(v, d, W) ==
  /\ \A r \in Row : r \notin W => v.row[r] = d.row[r]
  /\ \A k \in IdxKey : k \notin W => v.idx[k] = d.idx[k]

(* The records of v that belong to one row are in W or outside together *)
Joined(u, v, W) ==
  /\ \A r \in Row, x \in Field : r \in W /\ v.row[r] = x => Key(u, x, r) \in W
  /\ \A r \in Row, k \in IdxKey : k \in W /\ v.idx[k] = r => r \in W

(* w is v with row r set to x and its entries made to fit *)
RowBecomes(u, v, w, r, x) ==
  /\ \A q \in Row : w.row[q] = IF q = r THEN x ELSE v.row[q]
  /\ \A k \in IdxKey :
       w.idx[k] = IF x # None /\ k = Key(u, x, r) THEN r
                  ELSE IF v.idx[k] = r THEN None ELSE v.idx[k]

(* W holds row r, all its entries in v and the one for x *)
Covers(u, v, W, r, x) ==
  /\ r \in W
  /\ x # None => Key(u, x, r) \in W
  /\ \A q \in Row : q \in W => q = r
  /\ \A k \in IdxKey : v.idx[k] = r => k \in W
  /\ \A k \in IdxKey : k \in W => v.idx[k] = r \/ (x # None /\ k = Key(u, x, r))

Unused(u, v, r, x) == x # None /\ u /\ x # Null => \A q \in Row \ {r} : v.row[q] # x

ViewsExact == Exact(unique, db) /\ \A s \in Sess : Exact(unique, view[s])

(* What a transaction has not written it sees as it is committed, unless   *)
(* it was committed behind its snapshot; no two write one record           *)
Isolated ==
  /\ \A s \in open : SameOutside(view[s], db, wr[s] \cup newer[s])
  /\ \A s \in Sess : wr[s] \cap newer[s] = {}
  /\ \A s, q \in Sess : s # q => wr[s] \cap wr[q] = {}
  /\ \A s \in Sess : s \notin open => wr[s] = {}

Together == \A s \in Sess : Joined(unique, db, wr[s]) /\ Joined(unique, view[s], wr[s])

CatalogInv == ViewsExact /\ Isolated /\ Together

(* No statement has yet been caught or has met a row that is gone *)
Clean == kind = "catalog" /\ ~caught /\ ~stale

IInv ==
  /\ TypeOK
  /\ kind = "catalog" => built
  /\ Clean => CatalogInv

-----------------------------------------------------------------------------
(* What the operators return *)

(* Keys of index records are index records. *)
LEMMA KeyOfIsKey ==
  ASSUME NEW x \in Field, NEW r \in Row
  PROVE  KeyOf(x, r) = Key(unique, x, r) /\ KeyOf(x, r) \in IdxKey
  BY DEF KeyOf, Key, IdxKey

(* Two rows share an index record only in a unique index, with one value. *)
LEMMA KeyFacts ==
  ASSUME NEW u, NEW x \in Field, NEW y \in Field, NEW r \in Row, NEW q \in Row
  PROVE  /\ Key(u, x, r) \in IdxKey
         /\ Key(u, x, r) = Key(u, y, q) => x = y /\ (r # q => u /\ x # Null)
  BY RowAssumption DEF Key, IdxKey, Field

(* Rows, index records and the version record are different records. *)
LEMMA RecordsApart ==
  /\ Row \cap IdxKey = {}
  /\ Ver \notin Row
  /\ Ver \notin IdxKey
  /\ None \notin Row
  /\ None \notin Field
  BY RowAssumption DEF IdxKey, Field

(* A store without records *)
LEMMA EmptyFacts ==
  /\ Empty \in Store
  /\ \A r \in Row : Empty.row[r] = None
  /\ \A k \in IdxKey : Empty.idx[k] = None
  BY DEF Empty, Store

(* WithRow changes one row. *)
LEMMA WithRowFacts ==
  ASSUME NEW v \in Store, NEW r \in Row, NEW x \in Field \cup {None}
  PROVE  /\ WithRow(v, r, x) \in Store
         /\ WithRow(v, r, x).row = [v.row EXCEPT ![r] = x]
         /\ WithRow(v, r, x).idx = v.idx
  BY DEF WithRow, Store

(* WithEntry changes one index record. *)
LEMMA WithEntryFacts ==
  ASSUME NEW v \in Store, NEW r \in Row, NEW x \in Field
  PROVE  /\ WithEntry(v, x, r) \in Store
         /\ WithEntry(v, x, r).row = v.row
         /\ WithEntry(v, x, r).idx = [v.idx EXCEPT ![KeyOf(x, r)] = r]
  BY KeyOfIsKey DEF WithEntry, Store

(* WithoutEntries erases the index records of one row. *)
LEMMA WithoutEntriesFacts ==
  ASSUME NEW v \in Store, NEW r \in Row
  PROVE  /\ WithoutEntries(v, r) \in Store
         /\ WithoutEntries(v, r).row = v.row
         /\ WithoutEntries(v, r).idx
              = [k \in IdxKey |-> IF v.idx[k] = r THEN None ELSE v.idx[k]]
<1> DEFINE f == [k \in IdxKey |-> IF v.idx[k] = r THEN None ELSE v.idx[k]]
<1>1. WithoutEntries(v, r) = [v EXCEPT !.idx = f]
  BY DEF WithoutEntries
<1>2. f \in [IdxKey -> Row \cup {None}]
  BY DEF Store
<1> QED
  BY <1>1, <1>2 DEF Store

(* CatalogUpdateIndexes after the row was written leaves row and entries   *)
(* in step.                                                                *)
LEMMA CatalogUpdateIndexesFacts ==
  ASSUME NEW v \in Store, NEW r \in Row, NEW x \in Field
  PROVE  LET w == CatalogUpdateIndexes(WithRow(v, r, x), x, r) IN
         w \in Store /\ RowBecomes(unique, v, w, r, x)
<1> DEFINE a == WithRow(v, r, x)
           b == WithoutEntries(a, r)
           w == WithEntry(b, x, r)
<1>1. a \in Store /\ a.row = [v.row EXCEPT ![r] = x] /\ a.idx = v.idx
  BY WithRowFacts
<1>2. /\ b \in Store
      /\ b.row = a.row
      /\ b.idx = [k \in IdxKey |-> IF a.idx[k] = r THEN None ELSE a.idx[k]]
  BY <1>1, WithoutEntriesFacts
<1>3. /\ w \in Store
      /\ w.row = b.row
      /\ w.idx = [b.idx EXCEPT ![KeyOf(x, r)] = r]
  BY <1>2, WithEntryFacts
<1> HIDE DEF a, b, w
<1>4. \A q \in Row : w.row[q] = IF q = r THEN x ELSE v.row[q]
  BY <1>1, <1>2, <1>3 DEF Store
<1>5. \A k \in IdxKey :
        w.idx[k] = IF x # None /\ k = Key(unique, x, r) THEN r
                   ELSE IF v.idx[k] = r THEN None ELSE v.idx[k]
  BY <1>1, <1>2, <1>3, KeyOfIsKey, RecordsApart
<1>6. w \in Store /\ RowBecomes(unique, v, w, r, x)
  BY <1>3, <1>4, <1>5 DEF RowBecomes
<1> QED
  BY <1>6 DEF a, b, w, CatalogUpdateIndexes

-----------------------------------------------------------------------------
(* What a change of one row preserves *)

(* An exact index stays exact if no other row has the value. *)
LEMMA ExactAfter ==
  ASSUME NEW u \in BOOLEAN, NEW v \in Store, NEW w \in Store,
         NEW r \in Row, NEW x \in Field \cup {None},
         Exact(u, v), RowBecomes(u, v, w, r, x), Unused(u, v, r, x)
  PROVE  Exact(u, w)
<1>1. ASSUME NEW q \in Row, NEW y \in Field
      PROVE  w.row[q] = y <=> w.idx[Key(u, y, q)] = q
  <2>1. Key(u, y, q) \in IdxKey
    BY KeyFacts
  <2>2. v.row[q] = y <=> v.idx[Key(u, y, q)] = q
    BY DEF Exact
  <2>3. x # None =>
          x \in Field /\ (Key(u, x, r) = Key(u, y, q) => x = y /\ (r # q => u /\ x # Null))
    BY KeyFacts
  <2>4. CASE q = r
    BY <2>1, <2>2, <2>3, <2>4, RecordsApart DEF RowBecomes
  <2>5. CASE q # r
    BY <2>1, <2>2, <2>3, <2>5, RecordsApart DEF RowBecomes, Unused
  <2> QED
    BY <2>4, <2>5
<1>2. ASSUME NEW k \in IdxKey, NEW q \in Row, w.idx[k] = q
      PROVE  \E y \in Field : k = Key(u, y, q)
  <2>1. CASE x # None /\ k = Key(u, x, r)
    BY <1>2, <2>1 DEF RowBecomes
  <2>2. CASE ~(x # None /\ k = Key(u, x, r))
    BY <1>2, <2>2, RecordsApart DEF RowBecomes, Exact
  <2> QED
    BY <2>1, <2>2
<1> QED
  BY <1>1, <1>2 DEF Exact

(* What a transaction has written stays closed in what it sees. *)
LEMMA JoinedAfter ==
  ASSUME NEW u \in BOOLEAN, NEW v \in Store, NEW w \in Store, NEW U, NEW W,
         NEW r \in Row, NEW x \in Field \cup {None},
         Joined(u, v, U), RowBecomes(u, v, w, r, x), Covers(u, v, W, r, x)
  PROVE  Joined(u, w, U \cup W)
<1>1. ASSUME NEW q \in Row, NEW y \in Field, q \in U \cup W, w.row[q] = y
      PROVE  Key(u, y, q) \in U \cup W
  <2>1. CASE q = r
    BY <1>1, <2>1, RecordsApart DEF RowBecomes, Covers
  <2>2. CASE q # r
    BY <1>1, <2>2 DEF RowBecomes, Covers, Joined
  <2> QED
    BY <2>1, <2>2
<1>2. ASSUME NEW q \in Row, NEW k \in IdxKey, k \in U \cup W, w.idx[k] = q
      PROVE  q \in U \cup W
  <2>1. CASE x # None /\ k = Key(u, x, r)
    BY <1>2, <2>1 DEF RowBecomes, Covers
  <2>2. CASE ~(x # None /\ k = Key(u, x, r))
    <3>1. v.idx[k] = q /\ q # r
      BY <1>2, <2>2, RecordsApart DEF RowBecomes
    <3> QED
      BY <1>2, <2>2, <3>1 DEF Covers, Joined
  <2> QED
    BY <2>1, <2>2
<1> QED
  BY <1>1, <1>2 DEF Joined

(* It stays closed in what is committed, too. *)
LEMMA JoinedDbAfter ==
  ASSUME NEW u \in BOOLEAN, NEW v \in Store, NEW d \in Store, NEW U, NEW W, NEW N,
         NEW r \in Row, NEW x \in Field \cup {None},
         Joined(u, d, U), Exact(u, v), SameOutside(v, d, U \cup N), W \cap N = {},
         Covers(u, v, W, r, x), Unused(u, v, r, x)
  PROVE  Joined(u, d, U \cup W)
<1>1. ASSUME NEW q \in Row, NEW y \in Field, q \in U \cup W, d.row[q] = y
      PROVE  Key(u, y, q) \in U \cup W
  <2>1. CASE q \in U
    BY <1>1, <2>1 DEF Joined
  <2>2. CASE q \notin U
    <3>1. q = r /\ v.row[r] = y
      BY <1>1, <2>2 DEF Covers, SameOutside
    <3>2. Key(u, y, r) \in IdxKey
      BY KeyFacts
    <3>3. v.idx[Key(u, y, r)] = r
      BY <3>1 DEF Exact
    <3> QED
      BY <3>1, <3>2, <3>3 DEF Covers
  <2> QED
    BY <2>1, <2>2
<1>2. ASSUME NEW q \in Row, NEW k \in IdxKey, k \in U \cup W, d.idx[k] = q
      PROVE  q \in U \cup W
  <2>1. CASE k \in U
    BY <1>2, <2>1 DEF Joined
  <2>2. CASE k \notin U
    <3>1. v.idx[k] = q /\ k \in W
      BY <1>2, <2>2 DEF SameOutside
    <3>2. CASE q = r
      BY <3>2 DEF Covers
    <3>3. CASE q # r
      <4>1. x \in Field /\ k = Key(u, x, r)
        BY <3>1, <3>3 DEF Covers
      <4>2. PICK y \in Field : k = Key(u, y, q)
        BY <3>1 DEF Exact
      <4>a. Key(u, x, r) = Key(u, y, q) => x = y /\ (r # q => u /\ x # Null)
        BY <4>1, KeyFacts
      <4>3. x = y /\ u /\ x # Null
        BY <4>1, <4>2, <3>3, <4>a
      <4>b. v.row[q] = y <=> v.idx[Key(u, y, q)] = q
        BY DEF Exact
      <4>4. v.row[q] = x
        BY <3>1, <4>2, <4>3, <4>b
      <4> QED
        BY <4>1, <4>3, <4>4, <3>3, RecordsApart DEF Unused
    <3> QED
      BY <3>2, <3>3
  <2> QED
    BY <2>1, <2>2
<1> QED
  BY <1>1, <1>2 DEF Joined

(* A commit of closed writes makes an exact store from two exact ones. *)
LEMMA ExactMerge ==
  ASSUME NEW u \in BOOLEAN, NEW v \in Store, NEW d \in Store, NEW e \in Store, NEW U,
         Exact(u, v), Exact(u, d), Joined(u, v, U), Joined(u, d, U),
         \A r \in Row : e.row[r] = IF r \in U THEN v.row[r] ELSE d.row[r],
         \A k \in IdxKey : e.idx[k] = IF k \in U THEN v.idx[k] ELSE d.idx[k]
  PROVE  Exact(u, e)
<1>1. ASSUME NEW r \in Row, NEW x \in Field
      PROVE  e.row[r] = x <=> e.idx[Key(u, x, r)] = r
  <2>1. Key(u, x, r) \in IdxKey
    BY KeyFacts
  <2>2. /\ v.row[r] = x <=> v.idx[Key(u, x, r)] = r
        /\ d.row[r] = x <=> d.idx[Key(u, x, r)] = r
    BY DEF Exact
  <2> QED
    BY <2>1, <2>2 DEF Joined
<1>2. ASSUME NEW k \in IdxKey, NEW r \in Row, e.idx[k] = r
      PROVE  \E x \in Field : k = Key(u, x, r)
  BY <1>2 DEF Exact
<1> QED
  BY <1>1, <1>2 DEF Exact

-----------------------------------------------------------------------------
(* Type correctness *)

(* What Write leaves behind has the right types. *)
LEMMA WriteType ==
  ASSUME TypeOK, NEW s \in Sess, NEW W \in SUBSET Rec, NEW v \in Store, Write(s, W, v),
         built' \in BOOLEAN, caught' \in BOOLEAN, stale' \in BOOLEAN, copied' \in BOOLEAN
  PROVE  TypeOK'
  BY DEF TypeOK, Write, table

(* Every record that a statement writes is a record. *)
LEMMA RecordTypes ==
  ASSUME NEW r \in Row
  PROVE  /\ {r} \in SUBSET Rec
         /\ {Ver} \in SUBSET Rec
         /\ \A x \in Field : {KeyOf(x, r)} \in SUBSET Rec
         /\ \A v : EntriesOf(v, r) \in SUBSET Rec
         /\ \A v : \A x \in Field : Reindexed(v, x, r) \in SUBSET Rec
  BY KeyOfIsKey DEF Rec, EntriesOf, Reindexed

(* Steps keep the types. *)
LEMMA NextType ==
  ASSUME TypeOK, [Next]_vars
  PROVE  TypeOK'
<1> USE DEF table, history
<1>0. \A s \in Sess : view[s] \in Store
  BY DEF TypeOK
<1>1. ASSUME NEW s \in Sess, Begin(s) PROVE TypeOK'
  <2>1. begun' \in 0..MaxTxn
    BY <1>1, RowAssumption DEF TypeOK, Begin
  <2> QED
    BY <1>1, <2>1 DEF TypeOK, Begin
<1>2. ASSUME NEW s \in Sess, Commit(s) PROVE TypeOK'
  <2>1. db' \in Store
    BY <1>2, <1>0 DEF TypeOK, Commit, Store
  <2>2. open' \subseteq Sess /\ view' \in [Sess -> Store] /\ wr' \in [Sess -> SUBSET Rec]
    BY <1>2, EmptyFacts DEF TypeOK, Commit, End
  <2>3. newer' \in [Sess -> SUBSET Rec]
    BY <1>2 DEF TypeOK, Commit
  <2>4. once' \subseteq Row
    BY <1>2 DEF TypeOK, Commit
  <2> QED
    BY <1>2, <2>1, <2>2, <2>3, <2>4 DEF TypeOK, Commit
<1>3. ASSUME NEW s \in Sess, Abort(s) PROVE TypeOK'
  BY <1>3, EmptyFacts DEF TypeOK, Abort, End
<1>4. ASSUME NEW s \in Sess, NEW r \in Row, NEW x \in Field, ExecInsert(s, r, x) PROVE TypeOK'
  <2> DEFINE v == WithRow(view[s], r, x)
  <2>1. v \in Store /\ WithEntry(v, x, r) \in Store
    BY <1>0, WithRowFacts, WithEntryFacts
  <2>2. {r} \in SUBSET Rec /\ {r, KeyOf(x, r)} \in SUBSET Rec
    BY RecordTypes
  <2>3. built' \in BOOLEAN /\ caught' \in BOOLEAN /\ stale' \in BOOLEAN /\ copied' \in BOOLEAN
    BY <1>4 DEF TypeOK, ExecInsert
  <2>4. Write(s, {r, KeyOf(x, r)}, WithEntry(v, x, r)) \/ Write(s, {r}, v)
    BY <1>4 DEF ExecInsert
  <2> HIDE DEF v
  <2> QED
    BY <2>1, <2>2, <2>3, <2>4, WriteType
<1>5. ASSUME NEW s \in Sess, NEW r \in Row, NEW x \in Field, CopyFrom(s, r, x) PROVE TypeOK'
  <2>1. WithRow(view[s], r, x) \in Store
    BY <1>0, WithRowFacts
  <2>2. built' \in BOOLEAN /\ caught' \in BOOLEAN /\ stale' \in BOOLEAN /\ copied' \in BOOLEAN
    BY <1>5 DEF TypeOK, CopyFrom
  <2> QED
    BY <1>5, <2>1, <2>2, RecordTypes, WriteType DEF CopyFrom
<1>6. ASSUME NEW s \in Sess, NEW r \in Row, NEW x \in Field, ExecUpdate(s, r, x) PROVE TypeOK'
  <2> DEFINE v == WithRow(view[s], r, x)
  <2>1. v \in Store /\ WithEntry(v, x, r) \in Store
    BY <1>0, WithRowFacts, WithEntryFacts
  <2>2. {r} \in SUBSET Rec /\ {r, KeyOf(x, r)} \in SUBSET Rec
    BY RecordTypes
  <2>3. built' \in BOOLEAN /\ caught' \in BOOLEAN /\ stale' \in BOOLEAN /\ copied' \in BOOLEAN
    BY <1>6 DEF TypeOK, ExecUpdate
  <2>4. Write(s, {r, KeyOf(x, r)}, WithEntry(v, x, r)) \/ Write(s, {r}, v)
    BY <1>6 DEF ExecUpdate
  <2> HIDE DEF v
  <2> QED
    BY <2>1, <2>2, <2>3, <2>4, WriteType
<1>7. ASSUME NEW s \in Sess, NEW r \in Row, NEW x \in Field, CatalogInsert(s, r, x) PROVE TypeOK'
  <2> DEFINE v == WithRow(view[s], r, x)
  <2>1. CatalogUpdateIndexes(v, x, r) \in Store
    BY <1>0, CatalogUpdateIndexesFacts
  <2>2. \A V \in {{}, {Ver}} : {r} \cup V \cup Reindexed(v, x, r) \in SUBSET Rec
    BY RecordTypes
  <2>3. built' \in BOOLEAN /\ caught' \in BOOLEAN /\ stale' \in BOOLEAN /\ copied' \in BOOLEAN
    BY <1>7 DEF TypeOK, CatalogInsert
  <2>4. \E V \in {{}, {Ver}} :
          Write(s, {r} \cup V \cup Reindexed(v, x, r), CatalogUpdateIndexes(v, x, r))
    BY <1>7 DEF CatalogInsert
  <2> HIDE DEF v
  <2> QED
    BY <2>1, <2>2, <2>3, <2>4, WriteType
<1>8. ASSUME NEW s \in Sess, NEW r \in Row, NEW x \in Field, CatalogUpdate(s, r, x) PROVE TypeOK'
  <2> DEFINE v == WithRow(view[s], r, x)
  <2>1. CatalogUpdateIndexes(v, x, r) \in Store
    BY <1>0, CatalogUpdateIndexesFacts
  <2>2. {r, Ver} \cup Reindexed(v, x, r) \in SUBSET Rec
    BY RecordTypes
  <2>3. built' \in BOOLEAN /\ caught' \in BOOLEAN /\ stale' \in BOOLEAN /\ copied' \in BOOLEAN
    BY <1>8 DEF TypeOK, CatalogUpdate
  <2>4. Write(s, {r, Ver} \cup Reindexed(v, x, r), CatalogUpdateIndexes(v, x, r))
    BY <1>8 DEF CatalogUpdate
  <2> HIDE DEF v
  <2> QED
    BY <2>1, <2>2, <2>3, <2>4, WriteType
<1>9. ASSUME NEW s \in Sess, NEW r \in Row, NEW x \in Field, CatalogUpdateGone(s, r, x)
      PROVE  TypeOK'
  <2> DEFINE v == view[s]
  <2>1. CatalogUpdateIndexes(v, x, r) \in Store
    BY <1>0, WithoutEntriesFacts, WithEntryFacts DEF CatalogUpdateIndexes
  <2>2. {Ver} \cup Reindexed(v, x, r) \in SUBSET Rec
    BY RecordTypes
  <2>3. built' \in BOOLEAN /\ caught' \in BOOLEAN /\ stale' \in BOOLEAN /\ copied' \in BOOLEAN
    BY <1>9 DEF TypeOK, CatalogUpdateGone
  <2>4. Write(s, {Ver} \cup Reindexed(v, x, r), CatalogUpdateIndexes(v, x, r))
    BY <1>9 DEF CatalogUpdateGone
  <2> HIDE DEF v
  <2> QED
    BY <2>1, <2>2, <2>3, <2>4, WriteType
<1>10. ASSUME NEW s \in Sess, NEW r \in Row, NEW x \in Field, ExecCaught(s, r, x) PROVE TypeOK'
  <2>1. WithRow(view[s], r, x) \in Store
    BY <1>0, WithRowFacts
  <2>2. built' \in BOOLEAN /\ caught' \in BOOLEAN /\ stale' \in BOOLEAN /\ copied' \in BOOLEAN
    BY <1>10 DEF TypeOK, ExecCaught
  <2> QED
    BY <1>10, <2>1, <2>2, RecordTypes, WriteType DEF ExecCaught
<1>11. ASSUME NEW s \in Sess, NEW r \in Row, NEW x \in Field \cup {None}, CatalogCaught(s, r, x)
       PROVE  TypeOK'
  <2> DEFINE v == WithRow(view[s], r, x)
  <2>1. v \in Store /\ WithoutEntries(v, r) \in Store
    BY <1>0, WithRowFacts, WithoutEntriesFacts
  <2>2. {r, Ver} \in SUBSET Rec /\ {r, Ver} \cup EntriesOf(v, r) \in SUBSET Rec
    BY RecordTypes
  <2>3. built' \in BOOLEAN /\ caught' \in BOOLEAN /\ stale' \in BOOLEAN /\ copied' \in BOOLEAN
    BY <1>11 DEF TypeOK, CatalogCaught
  <2>4. Write(s, {r, Ver}, v) \/ Write(s, {r, Ver} \cup EntriesOf(v, r), WithoutEntries(v, r))
    BY <1>11 DEF CatalogCaught
  <2> HIDE DEF v
  <2> QED
    BY <2>1, <2>2, <2>3, <2>4, WriteType
<1>12. ASSUME NEW s \in Sess, NEW r \in Row, ExecDelete(s, r) PROVE TypeOK'
  <2>1. WithRow(view[s], r, None) \in Store
    BY <1>0, WithRowFacts
  <2>2. built' \in BOOLEAN /\ caught' \in BOOLEAN /\ stale' \in BOOLEAN /\ copied' \in BOOLEAN
    BY <1>12 DEF TypeOK, ExecDelete
  <2> QED
    BY <1>12, <2>1, <2>2, RecordTypes, WriteType DEF ExecDelete
<1>13. ASSUME NEW s \in Sess, NEW r \in Row, CatalogTupleDelete(s, r) PROVE TypeOK'
  <2> DEFINE v == WithRow(view[s], r, None)
             W == {Ver} \cup {q \in {r} : view[s].row[r] # None} \cup EntriesOf(v, r)
  <2>1. WithoutEntries(v, r) \in Store
    BY <1>0, WithRowFacts, WithoutEntriesFacts
  <2>2. W \in SUBSET Rec
    BY RecordTypes
  <2>3. built' \in BOOLEAN /\ caught' \in BOOLEAN /\ stale' \in BOOLEAN /\ copied' \in BOOLEAN
    BY <1>13 DEF TypeOK, CatalogTupleDelete
  <2>4. Write(s, W, WithoutEntries(v, r))
    BY <1>13 DEF CatalogTupleDelete
  <2> HIDE DEF v, W
  <2> QED
    BY <2>1, <2>2, <2>3, <2>4, WriteType
<1>14. CASE BuildIndex
  <2>1. db' \in Store
    BY <1>14 DEF TypeOK, BuildIndex, Store
  <2> QED
    BY <1>14, <2>1 DEF TypeOK, BuildIndex
<1>15. CASE UNCHANGED vars
  BY <1>15 DEF TypeOK, vars
<1> QED
  BY <1>1, <1>2, <1>3, <1>4, <1>5, <1>6, <1>7, <1>8, <1>9, <1>10, <1>11, <1>12, <1>13,
     <1>14, <1>15 DEF Next

-----------------------------------------------------------------------------
(* The index of a catalog *)

(* A statement that changes one row and its entries in one transaction. *)
LEMMA StatementKeeps ==
  ASSUME TypeOK, CatalogInv, NEW s \in open, NEW r \in Row, NEW x \in Field \cup {None},
         NEW W \in SUBSET Rec, NEW w \in Store, Write(s, W, w),
         RowBecomes(unique, view[s], w, r, x),
         Covers(unique, view[s], W, r, x),
         Unused(unique, view[s], r, x)
  PROVE  CatalogInv'
<1> DEFINE v == view[s]
<1>1. /\ s \in Sess /\ v \in Store /\ db \in Store /\ unique \in BOOLEAN
      /\ unique' = unique /\ db' = db /\ open' = open /\ newer' = newer
      /\ view' = [view EXCEPT ![s] = w] /\ wr' = [wr EXCEPT ![s] = @ \cup W]
      /\ W \cap newer[s] = {} /\ \A q \in Sess \ {s} : W \cap wr[q] = {}
  BY DEF TypeOK, Write, NoConflict, table
<1>2. /\ view'[s] = w /\ wr'[s] = wr[s] \cup W
      /\ \A q \in Sess : q # s => view'[q] = view[q] /\ wr'[q] = wr[q]
  BY <1>1 DEF TypeOK
<1>3. /\ Exact(unique, v) /\ Joined(unique, db, wr[s]) /\ Joined(unique, v, wr[s])
      /\ SameOutside(v, db, wr[s] \cup newer[s])
  BY <1>1 DEF CatalogInv, ViewsExact, Isolated, Together
<1>4. Exact(unique, w)
  BY <1>1, <1>3, ExactAfter
<1>5. Joined(unique, w, wr[s] \cup W)
  BY <1>1, <1>3, JoinedAfter
<1>6. Joined(unique, db, wr[s] \cup W)
  BY <1>1, <1>3, JoinedDbAfter
<1>7. SameOutside(w, db, (wr[s] \cup W) \cup newer[s])
  <2>1. ASSUME NEW q \in Row, q \notin (wr[s] \cup W) \cup newer[s]
        PROVE  w.row[q] = db.row[q]
    BY <1>3, <2>1 DEF SameOutside, RowBecomes, Covers
  <2>2. ASSUME NEW k \in IdxKey, k \notin (wr[s] \cup W) \cup newer[s]
        PROVE  w.idx[k] = db.idx[k]
    BY <1>3, <2>2 DEF SameOutside, RowBecomes, Covers
  <2> QED
    BY <2>1, <2>2 DEF SameOutside
<1> HIDE DEF v
<1>8. ViewsExact'
  BY <1>1, <1>2, <1>4 DEF CatalogInv, ViewsExact
<1>9. Isolated'
  <2>1. \A q \in open : SameOutside(view'[q], db, wr'[q] \cup newer[q])
    BY <1>1, <1>2, <1>7 DEF CatalogInv, Isolated, TypeOK
  <2>2. \A q \in Sess : wr'[q] \cap newer[q] = {}
    BY <1>1, <1>2 DEF CatalogInv, Isolated
  <2>3. \A p, q \in Sess : p # q => wr'[p] \cap wr'[q] = {}
    BY <1>1, <1>2 DEF CatalogInv, Isolated
  <2>4. \A q \in Sess : q \notin open => wr'[q] = {}
    BY <1>1, <1>2 DEF CatalogInv, Isolated
  <2> QED
    BY <1>1, <2>1, <2>2, <2>3, <2>4 DEF Isolated
<1>10. Together'
  BY <1>1, <1>2, <1>5, <1>6 DEF CatalogInv, Together
<1> QED
  BY <1>8, <1>9, <1>10 DEF CatalogInv

(* CatalogUpdateIndexes writes all records it has to. *)
LEMMA ReindexedCovers ==
  ASSUME NEW v \in Store, NEW r \in Row, NEW x \in Field, NEW V \in {{}, {Ver}}
  PROVE  Covers(unique, v, {r} \cup V \cup Reindexed(WithRow(v, r, x), x, r), r, x)
<1>1. WithRow(v, r, x).idx = v.idx
  BY WithRowFacts
<1>2. EntriesOf(WithRow(v, r, x), r) = {k \in IdxKey : v.idx[k] = r}
  BY <1>1 DEF EntriesOf
<1> QED
  BY <1>2, KeyOfIsKey, RecordsApart DEF Covers, Reindexed

(* A row that is not there has no entries in an exact index. *)
LEMMA NoEntriesOfGone ==
  ASSUME NEW u \in BOOLEAN, NEW v \in Store, NEW r \in Row, Exact(u, v), v.row[r] = None
  PROVE  \A k \in IdxKey : v.idx[k] # r
<1> SUFFICES ASSUME NEW k \in IdxKey, v.idx[k] = r
             PROVE  FALSE
  OBVIOUS
<1>1. PICK x \in Field : k = Key(u, x, r)
  BY DEF Exact
<1>2. v.row[r] = x
  BY <1>1 DEF Exact
<1> QED
  BY <1>2, RecordsApart

(* A transaction that ends, whatever becomes of its writes, leaves the     *)
(* others as they were.                                                    *)
LEMMA EndFacts ==
  ASSUME TypeOK, NEW s \in Sess, End(s)
  PROVE  /\ open' = open \ {s} /\ view'[s] = Empty /\ wr'[s] = {}
         /\ \A q \in Sess : q # s => view'[q] = view[q] /\ wr'[q] = wr[q]
  BY DEF TypeOK, End

(* An empty view is exact and closed. *)
LEMMA EmptyExact ==
  ASSUME NEW u
  PROVE  Exact(u, Empty) /\ \A v : Joined(u, v, {})
<1>1. \A r \in Row, x \in Field : Key(u, x, r) \in IdxKey
  BY KeyFacts
<1>2. Exact(u, Empty)
  BY <1>1, EmptyFacts, RecordsApart DEF Exact
<1>3. \A v : Joined(u, v, {})
  BY DEF Joined
<1> QED
  BY <1>2, <1>3

(* A new transaction sees the committed records, which are exact. *)
LEMMA BeginKeeps ==
  ASSUME TypeOK, CatalogInv, NEW s \in Sess, Begin(s)
  PROVE  CatalogInv'
<1>1. /\ s \notin open /\ open' = open \cup {s} /\ unique' = unique /\ db' = db
      /\ wr' = wr /\ newer' = newer /\ view'[s] = db
      /\ \A q \in Sess : q # s => view'[q] = view[q]
  BY DEF TypeOK, Begin, table
<1>2. wr[s] = {}
  BY <1>1 DEF CatalogInv, Isolated
<1>3. ViewsExact'
  BY <1>1 DEF CatalogInv, ViewsExact
<1>4. Isolated'
  <2>1. SameOutside(db, db, wr[s] \cup newer[s])
    BY DEF SameOutside
  <2>2. \A q \in open' : SameOutside(view'[q], db', wr'[q] \cup newer'[q])
    BY <1>1, <2>1 DEF CatalogInv, Isolated, TypeOK
  <2> QED
    BY <1>1, <2>2 DEF CatalogInv, Isolated
<1>5. Together'
  BY <1>1, <1>2, EmptyExact DEF CatalogInv, Together
<1> QED
  BY <1>3, <1>4, <1>5 DEF CatalogInv

(* A roll back takes the view of one transaction and no more. *)
LEMMA AbortKeeps ==
  ASSUME TypeOK, CatalogInv, NEW s \in Sess, Abort(s)
  PROVE  CatalogInv'
<1>1. /\ unique' = unique /\ db' = db /\ newer'[s] = {}
      /\ \A q \in Sess : q # s => newer'[q] = newer[q]
      /\ open' = open \ {s} /\ view'[s] = Empty /\ wr'[s] = {}
      /\ \A q \in Sess : q # s => view'[q] = view[q] /\ wr'[q] = wr[q]
  BY EndFacts DEF TypeOK, Abort, table
<1>2. ViewsExact'
  BY <1>1, EmptyExact DEF CatalogInv, ViewsExact
<1>3. Isolated'
  BY <1>1 DEF CatalogInv, Isolated, TypeOK
<1>4. Together'
  BY <1>1, EmptyExact DEF CatalogInv, Together
<1> QED
  BY <1>2, <1>3, <1>4 DEF CatalogInv

(* A commit merges two exact stores along closed writes, and disturbs no   *)
(* other transaction, since nobody else has written its records.           *)
LEMMA CommitKeeps ==
  ASSUME TypeOK, CatalogInv, NEW s \in Sess, Commit(s), db' \in Store
  PROVE  CatalogInv'
<1>1. /\ s \in open /\ unique' = unique /\ unique \in BOOLEAN
      /\ view[s] \in Store /\ db \in Store
      /\ \A r \in Row : db'.row[r] = IF r \in wr[s] THEN view[s].row[r] ELSE db.row[r]
      /\ \A k \in IdxKey : db'.idx[k] = IF k \in wr[s] THEN view[s].idx[k] ELSE db.idx[k]
  BY DEF TypeOK, Commit, table
<1>2. /\ newer'[s] = {}
      /\ \A q \in open : q # s => newer'[q] = newer[q] \cup wr[s]
      /\ \A q \in Sess : newer'[q] \subseteq newer[q] \cup wr[s]
  BY DEF TypeOK, Commit
<1>3. /\ open' = open \ {s} /\ view'[s] = Empty /\ wr'[s] = {}
      /\ \A q \in Sess : q # s => view'[q] = view[q] /\ wr'[q] = wr[q]
  BY EndFacts DEF Commit
<1>4. Exact(unique, db')
  BY <1>1, ExactMerge DEF CatalogInv, ViewsExact, Together
<1>5. ViewsExact'
  BY <1>1, <1>3, <1>4, EmptyExact DEF CatalogInv, ViewsExact
<1>6. Isolated'
  <2>1. ASSUME NEW q \in open, q # s
        PROVE  SameOutside(view[q], db', wr[q] \cup newer'[q])
    <3>1. SameOutside(view[q], db, wr[q] \cup newer[q])
      BY DEF CatalogInv, Isolated
    <3> QED
      BY <1>1, <1>2, <2>1, <3>1 DEF SameOutside
  <2>2. \A q \in Sess : wr'[q] \cap newer'[q] = {}
    BY <1>2, <1>3 DEF CatalogInv, Isolated
  <2> QED
    BY <1>3, <2>1, <2>2 DEF CatalogInv, Isolated, TypeOK
<1>7. Together'
  <2>1. ASSUME NEW q \in Sess, q # s
        PROVE  Joined(unique, db', wr[q])
    <3>1. Joined(unique, db, wr[q]) /\ wr[s] \cap wr[q] = {}
      BY <2>1 DEF CatalogInv, Together, Isolated
    <3> QED
      BY <1>1, <3>1 DEF Joined
  <2> QED
    BY <1>1, <1>3, <2>1, EmptyExact DEF CatalogInv, Together
<1> QED
  BY <1>5, <1>6, <1>7 DEF CatalogInv

(* Steps keep the index of a catalog in step with its rows. *)
LEMMA NextCatalog ==
  ASSUME TypeOK, kind = "catalog" => built, Clean, CatalogInv, [Next]_vars, TypeOK', Clean'
  PROVE  CatalogInv'
<1>0. \A s \in Sess : view[s] \in Store /\ Exact(unique, view[s])
  BY DEF TypeOK, CatalogInv, ViewsExact
<1>1. ASSUME NEW s \in Sess, Begin(s) PROVE CatalogInv'
  BY <1>1, BeginKeeps
<1>2. ASSUME NEW s \in Sess, Commit(s) PROVE CatalogInv'
  <2>1. db' \in Store
    BY DEF TypeOK
  <2> QED
    BY <1>2, <2>1, CommitKeeps
<1>3. ASSUME NEW s \in Sess, Abort(s) PROVE CatalogInv'
  BY <1>3, AbortKeeps
<1>4. ASSUME NEW s \in Sess, NEW r \in Row, NEW x \in Field,
             CatalogInsert(s, r, x) \/ CatalogUpdate(s, r, x)
      PROVE  CatalogInv'
  <2> DEFINE v == view[s]
             w == CatalogUpdateIndexes(WithRow(v, r, x), x, r)
             W(V) == {r} \cup V \cup Reindexed(WithRow(v, r, x), x, r)
  <2>1. s \in open /\ NotInUse(v, x, r) /\ \E V \in {{}, {Ver}} : Write(s, W(V), w)
    <3>1. CASE CatalogInsert(s, r, x)
      BY <3>1 DEF CatalogInsert
    <3>2. CASE CatalogUpdate(s, r, x)
      <4>1. {r, Ver} \cup Reindexed(WithRow(v, r, x), x, r) = W({Ver})
        OBVIOUS
      <4> QED
        BY <3>2, <4>1 DEF CatalogUpdate
    <3> QED
      BY <1>4, <3>1, <3>2
  <2>2. PICK V \in {{}, {Ver}} : Write(s, W(V), w)
    BY <2>1
  <2>3. w \in Store /\ RowBecomes(unique, v, w, r, x)
    BY <1>0, CatalogUpdateIndexesFacts
  <2>4. Covers(unique, v, W(V), r, x)
    BY <1>0, ReindexedCovers
  <2>5. Unused(unique, v, r, x)
    BY <2>1 DEF NotInUse, Unused
  <2>6. W(V) \in SUBSET Rec
    BY RecordTypes
  <2> HIDE DEF w, W
  <2> QED
    BY <2>1, <2>2, <2>3, <2>4, <2>5, <2>6, StatementKeeps
<1>5. ASSUME NEW s \in Sess, NEW r \in Row, CatalogTupleDelete(s, r)
      PROVE  CatalogInv'
  <2> DEFINE v == view[s]
             a == WithRow(v, r, None)
             w == WithoutEntries(a, r)
             W == {Ver} \cup {q \in {r} : v.row[r] # None} \cup EntriesOf(a, r)
  <2>1. s \in open /\ Write(s, W, w)
    BY <1>5 DEF CatalogTupleDelete
  <2>2. a \in Store /\ a.row = [v.row EXCEPT ![r] = None] /\ a.idx = v.idx
    BY <1>0, WithRowFacts
  <2>3. /\ w \in Store
        /\ w.row = a.row
        /\ w.idx = [k \in IdxKey |-> IF a.idx[k] = r THEN None ELSE a.idx[k]]
    BY <2>2, WithoutEntriesFacts
  <2>4. EntriesOf(a, r) = {k \in IdxKey : v.idx[k] = r}
    BY <2>2 DEF EntriesOf
  <2>5. W \in SUBSET Rec
    BY RecordTypes
  <2> HIDE DEF a, w
  <2>6. CASE v.row[r] # None
    <3>1. RowBecomes(unique, v, w, r, None)
      BY <1>0, <2>2, <2>3 DEF RowBecomes, Store
    <3>2. Covers(unique, v, W, r, None)
      BY <2>4, <2>6, RecordsApart DEF Covers
    <3>3. Unused(unique, v, r, None)
      BY DEF Unused
    <3> HIDE DEF W
    <3> QED
      BY <2>1, <2>3, <2>5, <3>1, <3>2, <3>3, StatementKeeps
  <2>7. CASE v.row[r] = None
    <3>1. \A k \in IdxKey : v.idx[k] # r
      BY <1>0, <2>7, NoEntriesOfGone DEF TypeOK
    <3>2. W = {Ver}
      BY <2>4, <2>7, <3>1
    <3>3. w = v
      <4>1. w.row = v.row
        BY <1>0, <2>2, <2>3, <2>7 DEF Store
      <4>2. w.idx = v.idx
        BY <1>0, <2>2, <2>3, <3>1 DEF Store
      <4> QED
        BY <1>0, <2>3, <4>1, <4>2 DEF Store
    <3> HIDE DEF W
    <3>4. /\ unique' = unique /\ db' = db /\ open' = open /\ newer' = newer /\ view' = view
          /\ wr' = [wr EXCEPT ![s] = @ \cup {Ver}]
          /\ Ver \notin newer[s] /\ \A q \in Sess \ {s} : Ver \notin wr[q]
      BY <2>1, <3>2, <3>3 DEF TypeOK, Write, NoConflict, table
    <3>5. /\ wr'[s] = wr[s] \cup {Ver}
          /\ \A q \in Sess : q # s => wr'[q] = wr[q]
      BY <3>4 DEF TypeOK
    <3>6. Joined(unique, v, wr[s] \cup {Ver}) /\ Joined(unique, db, wr[s] \cup {Ver})
      BY RecordsApart DEF CatalogInv, Together, Joined
    <3>7. SameOutside(v, db, (wr[s] \cup {Ver}) \cup newer[s])
      BY <2>1 DEF CatalogInv, Isolated, SameOutside
    <3>8. Isolated'
      <4>1. \A q \in open : SameOutside(view[q], db, wr'[q] \cup newer[q])
        BY <3>5, <3>7 DEF CatalogInv, Isolated, TypeOK
      <4>2. \A q \in Sess : wr'[q] \cap newer[q] = {}
        BY <3>4, <3>5 DEF CatalogInv, Isolated
      <4>3. \A p, q \in Sess : p # q => wr'[p] \cap wr'[q] = {}
        BY <3>4, <3>5 DEF CatalogInv, Isolated
      <4>4. \A q \in Sess : q \notin open => wr'[q] = {}
        BY <2>1, <3>5 DEF CatalogInv, Isolated
      <4> QED
        BY <3>4, <4>1, <4>2, <4>3, <4>4 DEF Isolated
    <3>9. Together'
      BY <3>4, <3>5, <3>6 DEF CatalogInv, Together
    <3> QED
      BY <3>4, <3>8, <3>9 DEF CatalogInv, ViewsExact
  <2> QED
    BY <2>6, <2>7
<1>6. ASSUME NEW s \in Sess, NEW r \in Row, NEW x \in Field,
             \/ ExecInsert(s, r, x) \/ CopyFrom(s, r, x) \/ ExecUpdate(s, r, x)
             \/ ExecCaught(s, r, x) \/ CatalogUpdateGone(s, r, x)
      PROVE  CatalogInv'
  BY <1>6 DEF Clean, ExecInsert, CopyFrom, ExecUpdate, ExecCaught,
              CatalogUpdateGone, CanInsert, CanModify
<1>7. ASSUME NEW s \in Sess, NEW r \in Row, NEW x \in Field \cup {None}, CatalogCaught(s, r, x)
      PROVE  CatalogInv'
  BY <1>7 DEF Clean, CatalogCaught
<1>8. CASE BuildIndex
  BY <1>8 DEF Clean, BuildIndex
<1>9. CASE UNCHANGED vars
  BY <1>9 DEF vars, CatalogInv, ViewsExact, Isolated, Together
<1>10. ASSUME NEW s \in Sess, NEW r \in Row, ExecDelete(s, r)
       PROVE  CatalogInv'
  BY <1>10 DEF Clean, ExecDelete, CanModify
<1> QED
  BY <1>1, <1>2, <1>3, <1>4, <1>5, <1>6, <1>7, <1>8, <1>9, <1>10 DEF Next

(* What is remembered of the past is not forgotten. *)
LEMMA CleanBefore ==
  ASSUME TypeOK, [Next]_vars
  PROVE  /\ kind' = kind
         /\ built => built'
         /\ Clean' => Clean
<1> USE DEF table, history
<1>1. ASSUME NEW s \in Sess, Begin(s) \/ Commit(s) \/ Abort(s)
      PROVE  kind' = kind /\ built' = built /\ caught' = caught /\ stale' = stale
  BY <1>1 DEF Begin, Commit, Abort
<1>2. ASSUME NEW s \in Sess, NEW r \in Row, NEW x \in Field,
             \/ ExecInsert(s, r, x) \/ CopyFrom(s, r, x) \/ ExecUpdate(s, r, x)
             \/ CatalogInsert(s, r, x) \/ CatalogUpdate(s, r, x)
      PROVE  kind' = kind /\ built' = built /\ caught' = caught /\ stale' = stale
  BY <1>2 DEF ExecInsert, CopyFrom, ExecUpdate, CatalogInsert, CatalogUpdate, Write
<1>3. ASSUME NEW s \in Sess, NEW r \in Row, ExecDelete(s, r) \/ CatalogTupleDelete(s, r)
      PROVE  kind' = kind /\ built' = built /\ caught' = caught /\ stale' = stale
  BY <1>3 DEF ExecDelete, CatalogTupleDelete, Write
<1>4. ASSUME NEW s \in Sess, NEW r \in Row, NEW x \in Field,
             CatalogUpdateGone(s, r, x) \/ ExecCaught(s, r, x)
      PROVE  kind' = kind /\ built' = built /\ (stale' \/ caught')
  BY <1>4 DEF CatalogUpdateGone, ExecCaught, Write
<1>5. ASSUME NEW s \in Sess, NEW r \in Row, NEW x \in Field \cup {None}, CatalogCaught(s, r, x)
      PROVE  kind' = kind /\ built' = built /\ caught'
  BY <1>5 DEF CatalogCaught, Write
<1>6. CASE BuildIndex
  BY <1>6 DEF BuildIndex, Clean
<1>7. CASE UNCHANGED vars
  BY <1>7 DEF vars, Clean
<1> QED
  BY <1>1, <1>2, <1>3, <1>4, <1>5, <1>6, <1>7 DEF Next, Clean

-----------------------------------------------------------------------------
(* Theorems *)

(* An empty table has an exact index. *)
LEMMA InitIInv == Init => IInv
<1> SUFFICES ASSUME Init PROVE IInv
  OBVIOUS
<1>1. TypeOK
  <2>1. built \in BOOLEAN
    BY Zenon DEF Init
  <2>2. begun \in 0..MaxTxn
    BY RowAssumption DEF Init
  <2>3. view \in [Sess -> Store] /\ db \in Store
    BY EmptyFacts DEF Init
  <2> QED
    BY <2>1, <2>2, <2>3 DEF Init, TypeOK
<1>2. ViewsExact
  BY EmptyExact DEF Init, ViewsExact
<1>3. Isolated
  BY DEF Init, Isolated
<1>4. Together
  BY EmptyExact DEF Init, Together
<1> QED
  BY <1>1, <1>2, <1>3, <1>4 DEF Init, IInv, CatalogInv

(* Every step keeps the invariant. *)
LEMMA NextIInv == IInv /\ [Next]_vars => IInv'
<1> SUFFICES ASSUME IInv, [Next]_vars PROVE IInv'
  OBVIOUS
<1>1. TypeOK'
  BY NextType DEF IInv
<1>2. kind' = kind /\ (built => built') /\ (Clean' => Clean)
  BY CleanBefore DEF IInv
<1>3. Clean' => CatalogInv'
  BY <1>1, <1>2, NextCatalog DEF IInv
<1> QED
  BY <1>1, <1>2, <1>3 DEF IInv

(* The records and the transactions of RowIndex keep their shape, for any  *)
(* number of backends, rows and values.                                    *)
THEOREM TypeCorrect == Spec => []TypeOK
<1>1. IInv => TypeOK
  BY DEF IInv
<1> QED
  BY <1>1, InitIInv, NextIInv, PTL DEF Spec

(* CatalogUpdateIndexes and CatalogTupleDelete keep the index of a system  *)
(* catalog exact, whatever transactions overlap, commit and roll back, as  *)
(* long as no failed statement is hidden and no deleted row updated; so no *)
(* two rows of a unique index have one value.                              *)
THEOREM CatalogIndexesExact == Spec => []CatalogIndexExact
<1>1. ASSUME IInv PROVE CatalogIndexExact
  <2>1. Clean => Exact(unique, db)
    BY <1>1 DEF IInv, CatalogInv, ViewsExact
  <2> QED
    BY <2>1, KeyOfIsKey DEF CatalogIndexExact, Clean, Exact
<1> QED
  BY <1>1, InitIInv, NextIInv, PTL DEF Spec

-----------------------------------------------------------------------------
(* The index of a user table.  Index records that hold the base row in     *)
(* their key belong to that row alone and are never erased, so nothing has *)
(* to be said about conflicts.                                             *)

Loyal(x) == ~unique \/ x = Null

(* A transaction that has written W sees the entry of row r for x in v, if *)
(* the row has the value or the entry was written; d is committed          *)
Seen(v, W, d, r, x) ==
  /\ v.row[r] = x => v.idx[<<x, r>>] = r
  /\ <<x, r>> \in W => v.idx[<<x, r>>] = r
  /\ v.idx[<<x, r>>] = r /\ <<x, r>> \notin W => d.idx[<<x, r>>] = r

UserInv ==
  \A r \in Row, x \in Field : Loyal(x) =>
    /\ db.row[r] = x => db.idx[<<x, r>>] = r
    /\ \A s \in Sess : Seen(view[s], wr[s], db, r, x)

Idle == \A s \in Sess : s \notin open => view[s] = Empty /\ wr[s] = {}

Indexed == kind = "user" /\ built /\ ~caught /\ ~copied

UInv == TypeOK /\ Idle /\ (Indexed => UserInv)

(* Keys that hold the base row *)
LEMMA LoyalKeys ==
  ASSUME NEW x \in Field, NEW y \in Field, NEW r \in Row, NEW q \in Row
  PROVE  /\ <<x, r>> \in IdxKey
         /\ Loyal(x) => KeyOf(x, r) = <<x, r>>
         /\ KeyOf(y, q) = <<x, r>> => q = r /\ y = x
  BY RowAssumption DEF Loyal, KeyOf, IdxKey, Field

(* Without a transaction nothing is seen. *)
LEMMA EmptySeen ==
  ASSUME NEW r \in Row, NEW x \in Field, NEW d
  PROVE  Seen(Empty, {}, d, r, x)
  BY EmptyFacts, RecordsApart, LoyalKeys DEF Seen

(* A transaction that is not under way has neither view nor writes. *)
LEMMA NextIdle ==
  ASSUME TypeOK, Idle, [Next]_vars
  PROVE  Idle'
<1> USE DEF table, history
<1>1. ASSUME NEW s \in Sess, Begin(s) PROVE Idle'
  BY <1>1 DEF TypeOK, Idle, Begin
<1>2. ASSUME NEW s \in Sess, Commit(s) \/ Abort(s) PROVE Idle'
  BY <1>2 DEF TypeOK, Idle, Commit, Abort, End
<1>3. ASSUME NEW s \in open, NEW W, NEW v, Write(s, W, v) PROVE Idle'
  BY <1>3 DEF TypeOK, Idle, Write
<1>4. ASSUME NEW s \in Sess, NEW r \in Row, NEW x \in Field,
             \/ ExecInsert(s, r, x) \/ CopyFrom(s, r, x) \/ ExecUpdate(s, r, x)
             \/ ExecCaught(s, r, x)
      PROVE  Idle'
  BY <1>3, <1>4 DEF ExecInsert, CopyFrom, ExecUpdate, ExecCaught, CanInsert, CanModify
<1>5. ASSUME NEW s \in Sess, NEW r \in Row, NEW x \in Field,
             CatalogInsert(s, r, x) \/ CatalogUpdate(s, r, x) \/ CatalogUpdateGone(s, r, x)
      PROVE  Idle'
  BY <1>3, <1>5 DEF CatalogInsert, CatalogUpdate, CatalogUpdateGone
<1>6. ASSUME NEW s \in Sess, NEW r \in Row, NEW x \in Field \cup {None}, CatalogCaught(s, r, x)
      PROVE  Idle'
  BY <1>3, <1>6 DEF CatalogCaught
<1>7. ASSUME NEW s \in Sess, NEW r \in Row, ExecDelete(s, r) \/ CatalogTupleDelete(s, r)
      PROVE  Idle'
  BY <1>3, <1>7 DEF ExecDelete, CatalogTupleDelete, CanModify
<1>8. CASE BuildIndex
  BY <1>8 DEF Idle, BuildIndex
<1>9. CASE UNCHANGED vars
  BY <1>9 DEF Idle, vars
<1> QED
  BY <1>1, <1>2, <1>4, <1>5, <1>6, <1>7, <1>8, <1>9 DEF Next

(* A statement that sets a row and adds its entry, or takes a row away. *)
LEMMA UserWriteKeeps ==
  ASSUME TypeOK, UserInv, NEW s \in Sess, NEW r \in Row, NEW x \in Field \cup {None},
         NEW W, NEW w \in Store, Write(s, W, w),
         w.row = [view[s].row EXCEPT ![r] = x],
         x = None => W \cap IdxKey = {} /\ w.idx = view[s].idx,
         x # None => /\ W \cap IdxKey = {KeyOf(x, r)}
                     /\ w.idx = [view[s].idx EXCEPT ![KeyOf(x, r)] = r]
  PROVE  UserInv'
<1>1. /\ unique' = unique /\ db' = db /\ view[s] \in Store
      /\ view'[s] = w /\ wr'[s] = wr[s] \cup W
      /\ \A q \in Sess : q # s => view'[q] = view[q] /\ wr'[q] = wr[q]
  BY DEF TypeOK, Write, table
<1>2. ASSUME NEW q \in Row, NEW y \in Field, Loyal(y)
      PROVE  Seen(w, wr[s] \cup W, db, q, y)
  <2>1. /\ view[s].row[q] = y => view[s].idx[<<y, q>>] = q
        /\ <<y, q>> \in wr[s] => view[s].idx[<<y, q>>] = q
        /\ view[s].idx[<<y, q>>] = q /\ <<y, q>> \notin wr[s] => db.idx[<<y, q>>] = q
    BY <1>2 DEF UserInv, Seen
  <2>2. <<y, q>> \in IdxKey
    BY LoyalKeys
  <2>3. CASE x = None
    BY <1>1, <2>1, <2>2, <2>3, RecordsApart DEF Store, Seen
  <2>4. CASE x # None
    <3>1. /\ x \in Field
          /\ KeyOf(x, r) \in IdxKey
          /\ KeyOf(x, r) = <<y, q>> => r = q /\ x = y
          /\ Loyal(x) => KeyOf(x, r) = <<x, r>>
      <4>1. x \in Field
        BY <2>4
      <4>2. KeyOf(x, r) \in IdxKey
        BY <4>1, KeyOfIsKey
      <4>3. KeyOf(x, r) = <<y, q>> => r = q /\ x = y
        BY <4>1, LoyalKeys
      <4>4. Loyal(x) => KeyOf(x, r) = <<x, r>>
        BY <4>1, LoyalKeys
      <4> QED
        BY <4>1, <4>2, <4>3, <4>4
    <3>2. w.idx[<<y, q>>] = IF KeyOf(x, r) = <<y, q>> THEN r ELSE view[s].idx[<<y, q>>]
      BY <1>1, <2>2, <2>4, <3>1 DEF Store
    <3>3. w.row[q] = IF q = r THEN x ELSE view[s].row[q]
      BY <1>1 DEF Store
    <3>4. <<y, q>> \in W <=> KeyOf(x, r) = <<y, q>>
      BY <2>2, <2>4
    <3> QED
      BY <1>2, <2>1, <3>1, <3>2, <3>3, <3>4 DEF Seen
  <2> QED
    BY <2>3, <2>4
<1> SUFFICES ASSUME NEW q \in Row, NEW y \in Field, Loyal(y)', NEW p \in Sess
             PROVE  /\ db'.row[q] = y => db'.idx[<<y, q>>] = q
                    /\ Seen(view'[p], wr'[p], db', q, y)
  BY DEF UserInv
<1>3. Loyal(y)
  BY <1>1 DEF Loyal
<1>4. /\ db.row[q] = y => db.idx[<<y, q>>] = q
      /\ Seen(view[p], wr[p], db, q, y)
  BY <1>3 DEF UserInv
<1>5. Seen(w, wr[s] \cup W, db, q, y)
  BY <1>2, <1>3
<1>6. CASE p = s
  BY <1>1, <1>4, <1>5, <1>6
<1>7. CASE p # s
  BY <1>1, <1>4, <1>7
<1> QED
  BY <1>6, <1>7

(* Steps keep every row of a user table in its index. *)
LEMMA NextUser ==
  ASSUME TypeOK, Idle, Indexed => UserInv, [Next]_vars, TypeOK', Indexed'
  PROVE  UserInv'
<1> USE DEF table, history
<1>0. \A s \in Sess : view[s] \in Store
  BY DEF TypeOK
<1>1. ASSUME NEW s \in Sess, Begin(s) PROVE UserInv'
  <2>1. UserInv /\ unique' = unique /\ db' = db /\ wr' = wr /\ view' = [view EXCEPT ![s] = db]
        /\ wr[s] = {}
    BY <1>1 DEF Begin, Indexed, Idle
  <2>2. \A r \in Row, x \in Field : (db.row[r] = x => db.idx[<<x, r>>] = r)
                                      => Seen(db, {}, db, r, x)
    BY DEF Seen
  <2>3. \A q \in Sess : q # s => view'[q] = view[q]
    BY <2>1 DEF TypeOK
  <2>4. view'[s] = db
    BY <2>1 DEF TypeOK
  <2> QED
    BY <2>1, <2>2, <2>3, <2>4 DEF UserInv, Loyal
<1>2. ASSUME NEW s \in Sess, Abort(s) PROVE UserInv'
  <2>1. /\ UserInv /\ unique' = unique /\ db' = db
        /\ view'[s] = Empty /\ wr'[s] = {}
        /\ \A q \in Sess : q # s => view'[q] = view[q] /\ wr'[q] = wr[q]
    BY <1>2, EndFacts DEF Abort, Indexed
  <2> QED
    BY <2>1, EmptySeen DEF UserInv, Loyal
<1>3. ASSUME NEW s \in Sess, Commit(s) PROVE UserInv'
  <2>1. /\ UserInv /\ unique' = unique
        /\ view'[s] = Empty /\ wr'[s] = {}
        /\ \A q \in Sess : q # s => view'[q] = view[q] /\ wr'[q] = wr[q]
        /\ \A r \in Row : db'.row[r] = IF r \in wr[s] THEN view[s].row[r] ELSE db.row[r]
        /\ \A k \in IdxKey : db'.idx[k] = IF k \in wr[s] THEN view[s].idx[k] ELSE db.idx[k]
    BY <1>3, EndFacts DEF Commit, Indexed
  <2> SUFFICES ASSUME NEW r \in Row, NEW x \in Field, Loyal(x)
               PROVE  /\ db'.row[r] = x => db'.idx[<<x, r>>] = r
                      /\ \A q \in Sess : Seen(view'[q], wr'[q], db', r, x)
    BY <2>1 DEF UserInv, Loyal
  <2>2. <<x, r>> \in IdxKey
    BY LoyalKeys
  <2>3. db.idx[<<x, r>>] = r => db'.idx[<<x, r>>] = r
    BY <2>1, <2>2 DEF UserInv, Seen
  <2>4. db'.row[r] = x => db'.idx[<<x, r>>] = r
    BY <2>1, <2>2, <2>3 DEF UserInv, Seen
  <2>5. ASSUME NEW q \in Sess
        PROVE  Seen(view'[q], wr'[q], db', r, x)
    <3>1. CASE q = s
      BY <2>1, <3>1, EmptySeen
    <3>2. CASE q # s
      BY <2>1, <2>3, <3>2 DEF UserInv, Seen
    <3> QED
      BY <3>1, <3>2
  <2> QED
    BY <2>4, <2>5
<1>4. ASSUME NEW s \in Sess, NEW r \in Row, NEW x \in Field,
             ExecInsert(s, r, x) \/ ExecUpdate(s, r, x)
      PROVE  UserInv'
  <2> DEFINE v == WithRow(view[s], r, x)
             w == WithEntry(v, x, r)
             W == {r, KeyOf(x, r)}
  <2>1. UserInv /\ Write(s, W, w)
    BY <1>4 DEF ExecInsert, ExecUpdate, Indexed, Write
  <2>2. v \in Store /\ v.row = [view[s].row EXCEPT ![r] = x] /\ v.idx = view[s].idx
    BY <1>0, WithRowFacts
  <2>3. w \in Store /\ w.row = v.row /\ w.idx = [v.idx EXCEPT ![KeyOf(x, r)] = r]
    BY <2>2, WithEntryFacts
  <2>4. W \cap IdxKey = {KeyOf(x, r)}
    BY KeyOfIsKey, RecordsApart
  <2>5. x # None
    BY RecordsApart
  <2> HIDE DEF v, w, W
  <2> QED
    BY <2>1, <2>2, <2>3, <2>4, <2>5, UserWriteKeeps
<1>5. ASSUME NEW s \in Sess, NEW r \in Row, ExecDelete(s, r) PROVE UserInv'
  <2> DEFINE w == WithRow(view[s], r, None)
  <2>1. UserInv /\ Write(s, {r}, w)
    BY <1>5 DEF ExecDelete, Indexed, Write
  <2>2. w \in Store /\ w.row = [view[s].row EXCEPT ![r] = None] /\ w.idx = view[s].idx
    BY <1>0, WithRowFacts
  <2>3. {r} \cap IdxKey = {}
    BY RecordsApart
  <2> HIDE DEF w
  <2> QED
    BY <2>1, <2>2, <2>3, UserWriteKeeps
<1>6. ASSUME NEW s \in Sess, NEW r \in Row, NEW x \in Field, CopyFrom(s, r, x) PROVE UserInv'
  BY <1>6 DEF CopyFrom, Indexed
<1>7. CASE BuildIndex
  <2>1. /\ unique' = unique /\ view' = view /\ wr' = wr /\ db'.row = db.row
        /\ \A s \in Sess : view[s] = Empty /\ wr[s] = {}
    BY <1>7 DEF BuildIndex, Idle, TypeOK, Store
  <2>2. \A k \in IdxKey :
          LET R == {r \in Row : db.row[r] # None /\ KeyOf(db.row[r], r) = k}
          IN IF R = {} THEN db'.idx[k] = None ELSE db'.idx[k] \in R
    BY <1>7 DEF BuildIndex, TypeOK, Store
  <2>3. ASSUME NEW r \in Row, NEW x \in Field, Loyal(x), db.row[r] = x
        PROVE  db'.idx[<<x, r>>] = r
    <3> DEFINE R == {q \in Row : db.row[q] # None /\ KeyOf(db.row[q], q) = <<x, r>>}
    <3>1. r \in R /\ <<x, r>> \in IdxKey
      BY <2>3, LoyalKeys, RecordsApart
    <3>2. \A q \in R : q = r
      <4>1. \A q \in Row : db.row[q] # None => db.row[q] \in Field
        BY DEF TypeOK, Store
      <4> QED
        BY <4>1, LoyalKeys
    <3>3. db'.idx[<<x, r>>] \in R
      BY <2>2, <3>1
    <3> QED
      BY <3>2, <3>3
  <2> QED
    BY <2>1, <2>3, EmptySeen DEF UserInv, Loyal
<1>8. ASSUME NEW s \in Sess, NEW r \in Row, NEW x \in Field \cup {None},
             \/ CatalogInsert(s, r, x) \/ CatalogUpdate(s, r, x) \/ CatalogUpdateGone(s, r, x)
             \/ CatalogCaught(s, r, x) \/ ExecCaught(s, r, x)
      PROVE  UserInv'
  BY <1>8 DEF CatalogInsert, CatalogUpdate, CatalogUpdateGone, CatalogCaught,
              ExecCaught, Indexed, Write
<1>9. ASSUME NEW s \in Sess, NEW r \in Row, CatalogTupleDelete(s, r)
      PROVE  UserInv'
  BY <1>9 DEF CatalogTupleDelete, Indexed, Write
<1>10. CASE UNCHANGED vars
  BY <1>10 DEF vars, UserInv, Indexed, Loyal
<1> QED
  BY <1>1, <1>2, <1>3, <1>4, <1>5, <1>6, <1>7, <1>8, <1>9, <1>10 DEF Next

(* ExecInsert, ExecUpdate and k2inbuild leave no committed row of a user   *)
(* table out of its index, whatever transactions overlap, unless a failed  *)
(* statement was hidden or COPY was used; rows with a value in a unique    *)
(* index are excepted.                                                     *)
THEOREM UserIndexesComplete == Spec => []UserIndexComplete
<1>1. Init => UInv
  <2> SUFFICES ASSUME Init PROVE UInv
    OBVIOUS
  <2>1. TypeOK
    BY InitIInv DEF IInv
  <2>2. Idle
    BY DEF Init, Idle
  <2>3. UserInv
    BY EmptyFacts, EmptySeen, RecordsApart DEF Init, UserInv
  <2> QED
    BY <2>1, <2>2, <2>3 DEF UInv
<1>2. UInv /\ [Next]_vars => UInv'
  <2> SUFFICES ASSUME UInv, [Next]_vars PROVE UInv'
    OBVIOUS
  <2>1. TypeOK'
    BY NextType DEF UInv
  <2>2. Idle'
    BY NextIdle DEF UInv
  <2>3. Indexed' => UserInv'
    BY <2>1, NextUser DEF UInv
  <2> QED
    BY <2>1, <2>2, <2>3 DEF UInv
<1>3. ASSUME UInv PROVE UserIndexComplete
  <2> SUFFICES ASSUME Indexed, NEW r \in Row, NEW x \in Field, db.row[r] = x, Loyal(x)
               PROVE  db.idx[KeyOf(x, r)] = r
    BY DEF UserIndexComplete, Indexed, Loyal
  <2>1. db.idx[<<x, r>>] = r
    BY <1>3 DEF UInv, UserInv
  <2>2. KeyOf(x, r) = <<x, r>>
    BY LoyalKeys
  <2> QED
    BY <2>1, <2>2
<1> QED
  BY <1>1, <1>2, <1>3, PTL DEF Spec

=============================================================================
