-------------------------- MODULE DatabasesProofs --------------------------
(***************************************************************************)
(* Proofs about Databases, for any number of instances, backends, OIDs and *)
(* names.  The invariant IInv has three layers: what timestamps keep apart *)
(* (TxnInv), what a transaction may have written of rows and records       *)
(* (Targets to WholeRows), and where the names in views and caches come    *)
(* from (RowNames to NewSince).  The twenty actions are first summed up as *)
(* ten kinds of steps; every layer is then shown for the kinds.            *)
(***************************************************************************)
EXTENDS Databases, TLAPS

-----------------------------------------------------------------------------
(* The transactions of K23SI *)

(* of two open transactions one is before the other *)
InOrder ==
  \A r, s \in Open : r # s => r \in before[s] \/ s \in before[r]

(* a session without a transaction has read and written nothing *)
Closed ==
  \A s \in Session \ Open :
    wr[s] = {} /\ before[s] = {} /\ late[s] = {} /\ view[s] = Empty

(* no record is written by two at a time *)
Exclusive ==
  \A r, s \in Session : r # s => wr[r] \cap wr[s] = {}

(* nothing that is written has been seen by a later transaction *)
NotLate ==
  \A s \in Session : s \notin before[s] /\ wr[s] \cap late[s] = {}

(* a transaction sees what is committed, but for its own writes and those  *)
(* of later ones                                                           *)
Agree ==
  \A s \in Open, d \in Id :
    /\ RowKey(d) \notin wr[s] \cup late[s] => view[s].row[d] = db.row[d]
    /\ RecKey(d) \notin wr[s] \cup late[s] => view[s].rec[d] = db.rec[d]

-----------------------------------------------------------------------------
(* CREATE DATABASE *)

(* s is making d *)
Names(s, d) == \E n \in Name : target[s] = <<d, n>>

(* CREATE DATABASE has a target from its first write to its last, one that *)
(* nobody else has                                                         *)
Targets ==
  \A s \in Session :
    /\ st[s] \in {"idle", "open", "block"} => target[s] = None
    /\ st[s] \in {"named", "between", "copied"} => target[s] # None
    /\ \A d \in Id : Names(s, d) =>
         /\ d \in used /\ d \in coll
         /\ \A r \in Session \ {s} : ~Names(r, d)

(* an OID not handed out has no record anywhere *)
Unused ==
  \A d \in Id \ used :
    /\ db.row[d] = None /\ db.rec[d] = None
    /\ \A s \in Session : /\ RowKey(d) \notin wr[s] /\ RecKey(d) \notin wr[s]
                          /\ view[s].row[d] = None /\ view[s].rec[d] = None

(* nobody but its maker sees a database that is being made *)
Hidden ==
  \A s \in Session, d \in Id : Names(s, d) =>
    /\ db.row[d] = None
    /\ \A r \in Session \ {s} : RowKey(d) \notin wr[r] /\ view[r].row[d] = None

(* the two transactions of CREATE DATABASE *)
Stages ==
  \A s \in Session, d \in Id, n \in Name : target[s] = <<d, n>> =>
    /\ st[s] = "named" =>
         RecKey(d) \in wr[s] /\ view[s].rec[d] = n /\ db.rec[d] = None
    /\ st[s] # "named" => db.rec[d] = n /\ \A e \in Id : RecKey(e) \notin wr[s]
    /\ st[s] \in {"copied", "done"} => TabKey(d) \in wr[s]
    /\ st[s] = "done" => RowKey(d) \in wr[s] /\ view[s].row[d] = n

(* only the maker of a database copies tables into it *)
TabOwner ==
  \A s \in Session, d \in Id : TabKey(d) \in wr[s] => Names(s, d)

-----------------------------------------------------------------------------
(* What may be written *)

(* s has dropped d, and done nothing else *)
Dropping(s, d) ==
  /\ st[s] = "done" /\ target[s] = None
  /\ RowKey(d) \in wr[s] /\ view[s].row[d] = None
  /\ RecKey(d) \in wr[s] /\ view[s].rec[d] = None
  /\ db.row[d] # None
  /\ IdxKey(db.row[d]) \in wr[s]
  /\ \A e \in Id : RowKey(e) \in wr[s] => e = d

(* s has renamed d, perhaps several times *)
Renaming(s, d) ==
  /\ st[s] = "block"
  /\ view[s].row[d] # None /\ IdxKey(view[s].row[d]) \in wr[s]
  /\ db.row[d] # None /\ IdxKey(db.row[d]) \in wr[s]
  /\ d # conn[s]

(* a row is written by CREATE, RENAME or DROP DATABASE *)
RowWrites ==
  \A s \in Session, d \in Id : RowKey(d) \in wr[s] =>
    \/ st[s] = "done" /\ Names(s, d)
    \/ Renaming(s, d)
    \/ Dropping(s, d)

(* a record is written by an OID reservation, which leaves the name, or by *)
(* CREATE or DROP DATABASE                                                 *)
RecWrites ==
  \A s \in Session, d \in Id : RecKey(d) \in wr[s] =>
    \/ view[s].rec[d] = db.rec[d] /\ db.rec[d] # None
    \/ st[s] = "named" /\ Names(s, d)
    \/ Dropping(s, d)

(* a row that is committed has its record, tables and collection *)
WholeRows ==
  \A d \in Id : db.row[d] # None => Whole(db, d)

-----------------------------------------------------------------------------
(* Names *)

(* a name that was never dropped or renamed is that of the record *)
RowNames ==
  \A d \in Id :
    /\ db.row[d] # None /\ db.row[d] \notin touched => db.rec[d] = db.row[d]
    /\ db.row[d] # None /\ db.rec[d] # db.row[d] => db.rec[d] \in touched

(* and what a transaction sees of it is what is committed *)
ViewNames ==
  \A s \in Open, d \in Id :
    RowKey(d) \notin wr[s] /\ view[s].row[d] # None /\ view[s].row[d] \notin touched
      => db.row[d] = view[s].row[d]

(* where a name may come from, and where it may be found *)
NamedBy(s, d, n) == st[s] = "named" /\ target[s] = <<d, n>>

Source(d, n) == db.rec[d] = n \/ \E s \in Session : NamedBy(s, d, n)

Mentioned(d, n) ==
  \/ \E s \in Open : view[s].rec[d] = n
  \/ \E i \in Inst : byName[i][n] = d

(* what views and caches say of such a name has a source *)
Mentions ==
  blind \/ \A d \in Id, n \in Name : n \notin touched /\ Mentioned(d, n) => Source(d, n)

(* a name has one source *)
OneSource ==
  blind \/ \A d, e \in Id, n \in Name : Source(d, n) /\ Source(e, n) => d = e

(* those before a creator may write no record any more, for it read them   *)
(* all                                                                     *)
Fenced ==
  blind \/ \A r, s \in Session : st[r] = "named" /\ s \in before[r] => AllRec \subseteq late[s]

(* nor may those who do not see a record that is new *)
NewSince ==
  blind \/ \A s \in Open, e \in Id :
    RecKey(e) \notin wr[s] /\ db.rec[e] # None /\ db.rec[e] # view[s].rec[e]
      => AllRec \subseteq late[s]

IInv ==
  /\ TypeOK
  /\ InOrder /\ Closed /\ Exclusive /\ NotLate /\ Agree
  /\ Targets /\ Unused /\ Hidden /\ Stages /\ TabOwner
  /\ RowWrites /\ RecWrites /\ WholeRows
  /\ RowNames /\ ViewNames
  /\ Mentions /\ OneSource /\ Fenced /\ NewSince

-----------------------------------------------------------------------------
(* Records and their keys *)

LEMMA KeyFacts ==
  /\ \A d \in Id : /\ RowKey(d) \in Key /\ RecKey(d) \in Key /\ TabKey(d) \in Key
                   /\ RecKey(d) \in AllRec /\ RowKey(d) \notin AllRec
                   /\ RowKey(d) \notin AllIdx /\ RecKey(d) \notin AllIdx
                   /\ TabKey(d) \notin AllRec /\ TabKey(d) \notin AllIdx
  /\ \A n \in Name : IdxKey(n) \in Key /\ IdxKey(n) \in AllIdx /\ IdxKey(n) \notin AllRec
  /\ AllIdx \subseteq Key /\ AllRec \subseteq Key
  /\ \A d, e \in Id : /\ RowKey(d) = RowKey(e) => d = e
                      /\ RecKey(d) = RecKey(e) => d = e
                      /\ TabKey(d) = TabKey(e) => d = e
                      /\ RowKey(d) # RecKey(e) /\ RowKey(d) # TabKey(e)
                      /\ RecKey(d) # TabKey(e)
  /\ \A d \in Id, n \in Name :
       RowKey(d) # IdxKey(n) /\ RecKey(d) # IdxKey(n) /\ TabKey(d) # IdxKey(n)
  /\ \A n, m \in Name : IdxKey(n) = IdxKey(m) => n = m
<1>1. \A d, e : /\ RowKey(d) = RowKey(e) => d = e
                /\ RecKey(d) = RecKey(e) => d = e
                /\ TabKey(d) = TabKey(e) => d = e
                /\ IdxKey(d) = IdxKey(e) => d = e
                /\ RowKey(d) # RecKey(e) /\ RowKey(d) # TabKey(e)
                /\ RecKey(d) # TabKey(e) /\ RowKey(d) # IdxKey(e)
                /\ RecKey(d) # IdxKey(e) /\ TabKey(d) # IdxKey(e)
  BY DEF RowKey, RecKey, TabKey, IdxKey
<1> QED
  BY <1>1, Zenon DEF Key, AllIdx, AllRec

LEMMA StoreFields ==
  ASSUME NEW v \in Store
  PROVE  /\ v.row \in [Id -> Name \cup {None}]
         /\ v.idx \in [Name -> Id \cup {None}]
         /\ v.rec \in [Id -> Name \cup {None}]
         /\ v.tab \in SUBSET Id
BY DEF Store

LEMMA EmptyFacts ==
  /\ Empty \in Store
  /\ \A d \in Id : Empty.row[d] = None /\ Empty.rec[d] = None
BY DEF Empty, Store

(* the records that CreateDatabase and Drop leave *)
LEMMA SetRec ==
  ASSUME NEW v \in Store, NEW d \in Id, NEW n \in Name \cup {None}
  PROVE  LET w == [v EXCEPT !.rec[d] = n] IN
         /\ w \in Store
         /\ w.row = v.row
         /\ w.rec[d] = n
         /\ \A e \in Id : e # d => w.rec[e] = v.rec[e]
BY DEF Store

LEMMA UnsetRow ==
  ASSUME NEW v \in Store, NEW d \in Id
  PROVE  LET w == WithoutRow(v, d) IN
         /\ w \in Store
         /\ w.rec = v.rec
         /\ w.row[d] = None
         /\ \A e \in Id : e # d => w.row[e] = v.row[e]
BY DEF Store, WithoutRow, EntriesOf

LEMMA ApplyFacts ==
  ASSUME NEW s, NEW v \in Store, view[s] \in Store
  PROVE  /\ Apply(v, s) \in Store
         /\ \A d \in Id :
              /\ Apply(v, s).row[d] =
                   IF RowKey(d) \in wr[s] THEN view[s].row[d] ELSE v.row[d]
              /\ Apply(v, s).rec[d] =
                   IF RecKey(d) \in wr[s] THEN view[s].rec[d] ELSE v.rec[d]
              /\ d \in Apply(v, s).tab <=> d \in v.tab \/ TabKey(d) \in wr[s]
BY DEF Store, Apply

-----------------------------------------------------------------------------
(***************************************************************************)
(* A step is one of four things to the transactions: s begins one, uses    *)
(* its own, commits it, or those of S are given up.                        *)
(***************************************************************************)
TxnTypes ==
  /\ view' \in [Session -> Store]
  /\ wr' \in [Session -> SUBSET Key]
  /\ late' \in [Session -> SUBSET Key]

Begins(s, W) ==
  /\ s \in Session \ Open /\ Open' = Open \cup {s}
  /\ db' = db /\ late' = late
  /\ TxnTypes
  /\ before' \in [Session -> SUBSET Session] /\ before'[s] = Open
  /\ \A r \in Session \ {s} :
       view'[r] = view[r] /\ wr'[r] = wr[r] /\ before'[r] = before[r]
  /\ wr'[s] = W
  /\ \A d \in Id : RowKey(d) \notin W /\ RecKey(d) \notin W
  /\ \A d \in Id : view'[s].row[d] = db.row[d] /\ view'[s].rec[d] = db.rec[d]

Looks(s, R, W) ==
  /\ s \in Open /\ Open' = Open
  /\ db' = db /\ before' = before
  /\ TxnTypes
  /\ CanRead(s, R) /\ CanWrite(s, W)
  /\ \A r \in Session :
       late'[r] = IF r \in before[s] THEN late[r] \cup R ELSE late[r]
  /\ \A r \in Session \ {s} : view'[r] = view[r] /\ wr'[r] = wr[r]
  /\ wr'[s] = wr[s] \cup W
  /\ \A d \in Id :
       /\ RowKey(d) \notin W => view'[s].row[d] = view[s].row[d]
       /\ RecKey(d) \notin W => view'[s].rec[d] = view[s].rec[d]

Commits(s) ==
  /\ s \in Open /\ Open' = Open \ {s}
  /\ TxnTypes
  /\ before' \in [Session -> SUBSET Session]
  /\ db' \in Store
  /\ \A d \in Id :
       /\ db'.row[d] = IF RowKey(d) \in wr[s] THEN view[s].row[d] ELSE db.row[d]
       /\ db'.rec[d] = IF RecKey(d) \in wr[s] THEN view[s].rec[d] ELSE db.rec[d]
       /\ d \in db'.tab <=> d \in db.tab \/ TabKey(d) \in wr[s]
  /\ view'[s] = Empty /\ wr'[s] = {} /\ before'[s] = {} /\ late'[s] = {}
  /\ \A r \in Session \ {s} :
       /\ wr'[r] = wr[r]
       /\ before'[r] = before[r] \ {s}
       /\ late'[r] = IF r \in before[s] THEN late[r] \cup wr[s] ELSE late[r]
       /\ s \notin before[r] => view'[r] = view[r]
       /\ s \in before[r] => \A d \in Id :
            /\ view'[r].row[d] =
                 IF RowKey(d) \in wr[s] THEN view[s].row[d] ELSE view[r].row[d]
            /\ view'[r].rec[d] =
                 IF RecKey(d) \in wr[s] THEN view[s].rec[d] ELSE view[r].rec[d]

Quits(S) ==
  /\ S \subseteq Session /\ Open' = Open \ S
  /\ db' = db
  /\ TxnTypes
  /\ before' \in [Session -> SUBSET Session]
  /\ \A r \in S :
       view'[r] = Empty /\ wr'[r] = {} /\ before'[r] = {} /\ late'[r] = {}
  /\ \A r \in Session \ S :
       /\ view'[r] = view[r] /\ wr'[r] = wr[r]
       /\ before'[r] = before[r] \ S
       /\ late[r] \subseteq late'[r]
       /\ late'[r] \cap wr[r] = {}
       /\ r \notin Open => late'[r] = {}

TxnInv == InOrder /\ Closed /\ Exclusive /\ NotLate /\ Agree

BeforeOK == before \in [Session -> SUBSET Open]

LEMMA BeginsTxn ==
  ASSUME TypeOK, TxnInv, NEW s, NEW W, Begins(s, W),
         \A r \in Session \ {s} : wr[r] \cap W = {}
  PROVE  TxnInv' /\ BeforeOK'
<1> USE DEF TxnInv
<1>1. BeforeOK'
  BY DEF Begins, TypeOK, BeforeOK
<1>2. InOrder'
  BY DEF Begins, InOrder
<1>3. Closed'
  BY DEF Begins, Closed
<1>4. Exclusive'
  BY DEF Begins, Exclusive
<1>5. NotLate'
  BY DEF Begins, NotLate, Closed
<1>6. Agree'
  BY DEF Begins, Agree
<1> QED
  BY <1>1, <1>2, <1>3, <1>4, <1>5, <1>6

LEMMA LooksTxn ==
  ASSUME TypeOK, TxnInv, NEW s, NEW R, NEW W, Looks(s, R, W)
  PROVE  TxnInv' /\ BeforeOK'
<1> USE DEF TxnInv
<1>0. s \in Session /\ Open \subseteq Session
  BY DEF Looks, Open
<1>1. BeforeOK'
  BY DEF Looks, TypeOK, BeforeOK
<1>2. InOrder'
  BY DEF Looks, InOrder
<1>3. Closed'
  BY <1>0 DEF Looks, Closed, TypeOK
<1>4. Exclusive'
  BY <1>0 DEF Looks, Exclusive, CanWrite
<1>5. NotLate'
  BY <1>0 DEF Looks, NotLate, CanWrite, CanRead
<1>6. Agree'
  <2> SUFFICES ASSUME NEW r \in Open, NEW d \in Id
               PROVE  /\ RowKey(d) \notin wr'[r] \cup late'[r] => view'[r].row[d] = db.row[d]
                      /\ RecKey(d) \notin wr'[r] \cup late'[r] => view'[r].rec[d] = db.rec[d]
    BY DEF Looks, Agree
  <2>1. late[r] \subseteq late'[r] /\ wr[r] \subseteq wr'[r]
    BY <1>0 DEF Looks
  <2> QED
    BY <1>0, <2>1 DEF Looks, Agree
<1> QED
  BY <1>1, <1>2, <1>3, <1>4, <1>5, <1>6

LEMMA CommitsTxn ==
  ASSUME TypeOK, TxnInv, NEW s, Commits(s)
  PROVE  TxnInv' /\ BeforeOK'
<1> USE DEF TxnInv
<1>0. s \in Session /\ Open \subseteq Session
  BY DEF Commits, Open
<1>9. /\ before' \in [Session -> SUBSET Session] /\ before'[s] = {}
      /\ \A r \in Session \ {s} : before'[r] = before[r] \ {s}
      /\ Open' = Open \ {s} /\ s \in Open
  BY DEF Commits
<1>1. BeforeOK'
  BY <1>0, <1>9 DEF TypeOK, BeforeOK
<1>2. InOrder'
  BY <1>0, <1>9 DEF InOrder
<1>3. Closed'
  <2>1. \A r \in Session \ {s} : r \in Session \ Open =>
          r \notin before[s] /\ s \notin before[r]
    BY <1>0 DEF Closed, TypeOK
  <2> QED
    BY <1>0, <2>1 DEF Commits, Closed
<1>4. Exclusive'
  BY <1>0 DEF Commits, Exclusive
<1>5. NotLate'
  BY <1>0 DEF Commits, NotLate, Exclusive
<1>6. Agree'
  <2> SUFFICES ASSUME NEW r \in Open \ {s}, NEW d \in Id
               PROVE  /\ RowKey(d) \notin wr'[r] \cup late'[r] => view'[r].row[d] = db'.row[d]
                      /\ RecKey(d) \notin wr'[r] \cup late'[r] => view'[r].rec[d] = db'.rec[d]
    BY DEF Commits, Agree
  <2>1. r \in Session \ {s} /\ late[r] \subseteq late'[r] /\ wr'[r] = wr[r]
    BY <1>0 DEF Commits
  <2>2. CASE s \in before[r]
    <3>1. /\ view'[r].row[d] =
               IF RowKey(d) \in wr[s] THEN view[s].row[d] ELSE view[r].row[d]
          /\ view'[r].rec[d] =
               IF RecKey(d) \in wr[s] THEN view[s].rec[d] ELSE view[r].rec[d]
          /\ db'.row[d] = IF RowKey(d) \in wr[s] THEN view[s].row[d] ELSE db.row[d]
          /\ db'.rec[d] = IF RecKey(d) \in wr[s] THEN view[s].rec[d] ELSE db.rec[d]
      BY <2>1, <2>2 DEF Commits
    <3> QED
      BY <2>1, <3>1 DEF Agree
  <2>3. CASE r \in before[s] /\ s \notin before[r]
    <3>1. wr[s] \subseteq late'[r] /\ view'[r] = view[r]
      BY <2>1, <2>3 DEF Commits
    <3> QED
      BY <1>0, <2>1, <3>1 DEF Commits, Agree
  <2> QED
    BY <1>0, <2>2, <2>3 DEF InOrder, Commits
<1> QED
  BY <1>1, <1>2, <1>3, <1>4, <1>5, <1>6

LEMMA QuitsTxn ==
  ASSUME TypeOK, TxnInv, NEW S, Quits(S)
  PROVE  TxnInv' /\ BeforeOK'
<1> USE DEF TxnInv
<1>0. Open \subseteq Session
  BY DEF Open
<1>1. BeforeOK'
  BY DEF Quits, TypeOK, BeforeOK
<1>2. InOrder'
  BY <1>0 DEF Quits, InOrder
<1>3. Closed'
  BY DEF Quits, Closed
<1>4. Exclusive'
  BY DEF Quits, Exclusive
<1>5. NotLate'
  BY DEF Quits, NotLate
<1>6. Agree'
  <2> SUFFICES ASSUME NEW r \in Open \ S, NEW d \in Id
               PROVE  /\ RowKey(d) \notin wr'[r] \cup late'[r] => view'[r].row[d] = db.row[d]
                      /\ RecKey(d) \notin wr'[r] \cup late'[r] => view'[r].rec[d] = db.rec[d]
    BY DEF Quits, Agree
  <2>1. r \in Session \ S /\ late[r] \subseteq late'[r] /\ wr'[r] = wr[r] /\ view'[r] = view[r]
    BY <1>0 DEF Quits
  <2> QED
    BY <2>1 DEF Agree
<1> QED
  BY <1>1, <1>2, <1>3, <1>4, <1>5, <1>6

-----------------------------------------------------------------------------
(* The operators of K23SI as steps of these four sorts *)

LEMMA AccessLooks ==
  ASSUME TypeOK, NEW s \in Open, NEW R \in SUBSET Key, NEW W \in SUBSET Key,
         NEW v \in Store, Access(s, R, W, v), db' = db, Open' = Open,
         \A d \in Id : /\ RowKey(d) \notin W => v.row[d] = view[s].row[d]
                       /\ RecKey(d) \notin W => v.rec[d] = view[s].rec[d]
  PROVE  Looks(s, R, W) /\ view'[s] = v
<1>0. s \in Session
  BY DEF Open
<1>1. view' \in [Session -> Store] /\ view'[s] = v
      /\ \A r \in Session \ {s} : view'[r] = view[r]
  BY <1>0 DEF Access, TypeOK
<1>2. /\ wr' \in [Session -> SUBSET Key] /\ wr'[s] = wr[s] \cup W
      /\ \A r \in Session \ {s} : wr'[r] = wr[r]
  BY <1>0 DEF Access, TypeOK
<1>3. /\ late' \in [Session -> SUBSET Key]
      /\ \A r \in Session :
           late'[r] = IF r \in before[s] THEN late[r] \cup R ELSE late[r]
  BY DEF Access, Reads, TypeOK
<1>4. before' = before /\ CanRead(s, R) /\ CanWrite(s, W)
  BY DEF Access
<1> QED
  BY <1>1, <1>2, <1>3, <1>4 DEF Looks, TxnTypes

LEMMA CommitTxnCommits ==
  ASSUME TypeOK, NEW s \in Open, CommitTxn(s), Open' = Open \ {s}
  PROVE  Commits(s)
<1>0. s \in Session /\ view[s] \in Store /\ db \in Store
  BY DEF Open, TypeOK
<1>1. /\ db' \in Store
      /\ \A d \in Id :
           /\ db'.row[d] = IF RowKey(d) \in wr[s] THEN view[s].row[d] ELSE db.row[d]
           /\ db'.rec[d] = IF RecKey(d) \in wr[s] THEN view[s].rec[d] ELSE db.rec[d]
           /\ d \in db'.tab <=> d \in db.tab \/ TabKey(d) \in wr[s]
  BY <1>0, ApplyFacts DEF CommitTxn
<1>2. /\ wr' \in [Session -> SUBSET Key] /\ wr'[s] = {}
      /\ \A r \in Session \ {s} : wr'[r] = wr[r]
  BY <1>0 DEF CommitTxn, TypeOK
<1>3. /\ before' \in [Session -> SUBSET Session] /\ before'[s] = {}
      /\ \A r \in Session \ {s} : before'[r] = before[r] \ {s}
  BY <1>0 DEF CommitTxn, TypeOK, Open
<1>4. /\ late' \in [Session -> SUBSET Key] /\ late'[s] = {}
      /\ \A r \in Session \ {s} :
           late'[r] = IF r \in before[s] THEN late[r] \cup wr[s] ELSE late[r]
  BY <1>0 DEF CommitTxn, TypeOK
<1>5. \A r \in Session \ {s} :
        view'[r] = IF s \in before[r] THEN Apply(view[r], s) ELSE view[r]
  BY <1>0 DEF CommitTxn
<1>6. view'[s] = Empty /\ view' = [r \in Session |-> view'[r]]
  BY <1>0 DEF CommitTxn
<1>7. \A r \in Session : view[r] \in Store
  BY DEF TypeOK
<1>8. \A r \in Session : view'[r] \in Store
  BY <1>0, <1>5, <1>6, <1>7, ApplyFacts, EmptyFacts
<1>9. view' \in [Session -> Store]
  BY <1>6, <1>8
<1>10. \A r \in Session \ {s} : s \in before[r] => \A d \in Id :
            /\ view'[r].row[d] =
                 IF RowKey(d) \in wr[s] THEN view[s].row[d] ELSE view[r].row[d]
            /\ view'[r].rec[d] =
                 IF RecKey(d) \in wr[s] THEN view[s].rec[d] ELSE view[r].rec[d]
  BY <1>0, <1>5, <1>7, ApplyFacts
<1>11. \A r \in Session \ {s} : s \notin before[r] => view'[r] = view[r]
  BY <1>5
<1> QED
  BY <1>1, <1>2, <1>3, <1>4, <1>6, <1>9, <1>10, <1>11 DEF Commits, TxnTypes

(* what reads add for those who quit nothing *)
Spared(S, l) ==
  /\ l \in [Session -> SUBSET Key]
  /\ \A r \in Session \ S :
       /\ late[r] \subseteq l[r]
       /\ l[r] \cap wr[r] = {}
       /\ r \notin Open => l[r] = {}

LEMMA DropTxnsQuits ==
  ASSUME TypeOK, NEW S \in SUBSET Session, NEW l, Spared(S, l), DropTxns(S, l),
         db' = db, Open' = Open \ S
  PROVE  Quits(S)
<1>1. /\ view' \in [Session -> Store]
      /\ \A r \in S : view'[r] = Empty
      /\ \A r \in Session \ S : view'[r] = view[r]
  BY EmptyFacts DEF DropTxns, TypeOK
<1>2. /\ wr' \in [Session -> SUBSET Key]
      /\ \A r \in S : wr'[r] = {}
      /\ \A r \in Session \ S : wr'[r] = wr[r]
  BY DEF DropTxns, TypeOK
<1>3. /\ before' \in [Session -> SUBSET Session]
      /\ \A r \in S : before'[r] = {}
      /\ \A r \in Session \ S : before'[r] = before[r] \ S
  BY DEF DropTxns, TypeOK, Open
<1>4. /\ late' \in [Session -> SUBSET Key]
      /\ \A r \in S : late'[r] = {}
      /\ \A r \in Session \ S : late'[r] = l[r]
  BY DEF DropTxns, Spared
<1> QED
  BY <1>1, <1>2, <1>3, <1>4 DEF Quits, TxnTypes, Spared

LEMMA ReadsSpared ==
  ASSUME TypeOK, Closed, NotLate, NEW s \in Session, NEW R \in SUBSET Key, CanRead(s, R)
  PROVE  Spared({s}, Reads(s, R))
<1>1. Reads(s, R) \in [Session -> SUBSET Key]
  BY DEF Reads, TypeOK
<1>2. ASSUME NEW r \in Session \ {s}
      PROVE  /\ late[r] \subseteq Reads(s, R)[r]
             /\ Reads(s, R)[r] \cap wr[r] = {}
             /\ r \notin Open => Reads(s, R)[r] = {}
  <2>1. Reads(s, R)[r] = IF r \in before[s] THEN late[r] \cup R ELSE late[r]
    BY DEF Reads
  <2>2. r \in before[s] => r \in Open
    BY DEF TypeOK
  <2> QED
    BY <2>1, <2>2 DEF Closed, NotLate, CanRead
<1> QED
  BY <1>1, <1>2 DEF Spared

LEMMA ReadNowSpared ==
  ASSUME TypeOK, Closed, NotLate, NEW S \in SUBSET Session, NEW R \in SUBSET Key,
         \A r \in Open \ S : wr[r] \cap R = {}
  PROVE  Spared(S, ReadNow(R))
<1>1. ReadNow(R) \in [Session -> SUBSET Key]
  BY DEF ReadNow, TypeOK
<1>2. ASSUME NEW r \in Session \ S
      PROVE  /\ late[r] \subseteq ReadNow(R)[r]
             /\ ReadNow(R)[r] \cap wr[r] = {}
             /\ r \notin Open => ReadNow(R)[r] = {}
  <2>1. ReadNow(R)[r] = IF r \in Open THEN late[r] \cup R ELSE late[r]
    BY DEF ReadNow
  <2> QED
    BY <2>1 DEF Closed, NotLate
<1> QED
  BY <1>1, <1>2 DEF Spared

-----------------------------------------------------------------------------
(***************************************************************************)
(* The operations by what they do to databases and names.                  *)
(***************************************************************************)

(* what the caches have for names that were never dropped or renamed comes *)
(* from records                                                            *)
CachesFrom ==
  /\ byId' \in [Inst -> SUBSET Id]
  /\ byName' \in [Inst -> [Name -> Id \cup {None}]]
  /\ \A i \in Inst, n \in Name, d \in Id : byName'[i][n] = d =>
       n \in touched' \/ Mentioned(d, n) \/ db.rec[d] = n

(* ROLLBACK, a failed statement, a restart, a new connection *)
GivesUp(S) ==
  /\ Quits(S) /\ Leave(S)
  /\ at' = at /\ coll' = coll
  /\ conn' \in [Session -> Id] /\ \A s \in Open \ S : conn'[s] = conn[s]
  /\ used \subseteq used' /\ used' \subseteq Id
  /\ touched \subseteq touched' /\ touched' \subseteq Name /\ Making(S) \subseteq touched'
  /\ blind' \in BOOLEAN /\ (blind => blind')
  /\ CachesFrom

(* CREATE TABLE, the opening of a table, an OID reservation *)
Uses(s) ==
  /\ st[s] \in {"open", "block"}
  /\ \E R \in SUBSET Key, W \in SUBSET Key :
       /\ Looks(s, R, W)
       /\ \/ W = {}
          \/ \E d \in Id : W = {RecKey(d)} /\ view[s].rec[d] # None
  /\ view'[s] = view[s]
  /\ st' \in [Session -> States] /\ st'[s] \in {st[s], "block"}
  /\ \A r \in Session \ {s} : st'[r] = st[r]
  /\ CachesFrom
  /\ UNCHANGED <<at, coll, target, conn, used, touched, blind>>

(* CREATE DATABASE up to its first commit *)
Creates(s, d, n) ==
  /\ st[s] = "open" /\ d \notin used
  /\ \E R \in SUBSET Key :
       /\ Looks(s, R, {RecKey(d)})
       /\ blind' \/ (AllRec \subseteq R /\ \A e \in Id : view[s].rec[e] # n)
  /\ view'[s].rec[d] = n
  /\ st' = [st EXCEPT ![s] = "named"]
  /\ target' = [target EXCEPT ![s] = <<d, n>>]
  /\ coll' = coll \cup {d} /\ used' = used \cup {d}
  /\ blind' \in BOOLEAN /\ (blind => blind')
  /\ byId' \in [Inst -> SUBSET Id]
  /\ byName' \in [Inst -> [Name -> Id \cup {None}]]
  /\ \A i \in Inst, m \in Name, e \in Id : byName'[i][m] = e =>
       Mentioned(e, m) \/ (e = d /\ m = n)
  /\ UNCHANGED <<at, conn, touched>>

(* ... its copy of the tables *)
Copies(s, d) ==
  /\ Begins(s, {TabKey(d)})
  /\ st[s] = "between" /\ Names(s, d)
  /\ st' = [st EXCEPT ![s] = "copied"]
  /\ UNCHANGED <<at, coll, byId, byName, target, conn, used, touched, blind>>

(* ... its row *)
Inserts(s, d, n) ==
  /\ Looks(s, AllIdx, {RowKey(d), IdxKey(n)})
  /\ st[s] = "copied" /\ target[s] = <<d, n>>
  /\ view'[s].row[d] = n
  /\ st' = [st EXCEPT ![s] = "done"]
  /\ UNCHANGED <<at, coll, byId, byName, target, conn, used, touched, blind>>

(* DROP DATABASE *)
Deletes(s, d, n) ==
  /\ \E R \in SUBSET Key, W \in SUBSET Key :
       /\ Looks(s, R, W)
       /\ RowKey(d) \in W /\ RecKey(d) \in W /\ IdxKey(n) \in W
       /\ \A e \in Id \ {d} : /\ RowKey(e) \notin W /\ RecKey(e) \notin W
       /\ \A e \in Id : TabKey(e) \notin W
  /\ st[s] = "open" /\ view[s].row[d] = n /\ view[s].rec[d] # None
  /\ view'[s].row[d] = None /\ view'[s].rec[d] = None
  /\ st' = [st EXCEPT ![s] = "done"]
  /\ UNCHANGED <<at, coll, byId, byName, target, conn, used, touched, blind>>

(* ALTER DATABASE ... RENAME *)
Renames(s, d, n, m) ==
  /\ \E R \in SUBSET Key, W \in SUBSET Key :
       /\ Looks(s, R, W)
       /\ RowKey(d) \in W /\ IdxKey(n) \in W /\ IdxKey(m) \in W
       /\ \A e \in Id \ {d} : RowKey(e) \notin W
       /\ \A e \in Id : RecKey(e) \notin W /\ TabKey(e) \notin W
  /\ st[s] \in {"open", "block"} /\ view[s].row[d] = n
  /\ view'[s].row[d] = m
  /\ d # conn[s]
  /\ st' = [st EXCEPT ![s] = "block"]
  /\ UNCHANGED <<at, coll, byId, byName, target, conn, used, touched, blind>>

(* The first commit of CREATE DATABASE *)
Half(s) ==
  /\ Commits(s)
  /\ st[s] = "named"
  /\ st' = [st EXCEPT ![s] = "between"]
  /\ UNCHANGED <<at, coll, byId, byName, target, conn, used, touched, blind>>

(* COMMIT *)
Settles(s) ==
  /\ Commits(s)
  /\ st[s] \in {"open", "block", "done"}
  /\ Leave({s})
  /\ touched \subseteq touched' /\ touched' \subseteq Name
  /\ target[s] = None => \A n \in Name : IdxKey(n) \in wr[s] => n \in touched'
  /\ UNCHANGED <<at, coll, byId, byName, conn, used, blind>>

Starts(s) ==
  /\ Begins(s, {})
  /\ st[s] = "idle"
  /\ st' = [st EXCEPT ![s] = "open"]
  /\ UNCHANGED <<at, coll, byId, byName, target, conn, used, touched, blind>>

-----------------------------------------------------------------------------
LEMMA LeaveOpen ==
  ASSUME TypeOK, NEW S \in SUBSET Session, Leave(S)
  PROVE  Open' = Open \ S
BY DEF Leave, Open, TypeOK

LEMMA StayOpen ==
  ASSUME TypeOK, NEW s \in Open, NEW x \in States \ {"idle", "between"},
         st' = [st EXCEPT ![s] = x]
  PROVE  Open' = Open
BY DEF Open, TypeOK, States

LEMMA CachesSame ==
  ASSUME TypeOK, UNCHANGED <<byId, byName>>
  PROVE  CachesFrom
<1>1. \A i \in Inst, n \in Name, d \in Id : byName'[i][n] = d => Mentioned(d, n)
  BY DEF Mentioned
<1> QED
  BY <1>1 DEF CachesFrom, TypeOK

LEMMA MapsFacts ==
  ASSUME NEW v \in Store, NEW m \in MapsOf(v)
  PROVE  /\ m \in [Name -> Id \cup {None}]
         /\ \A n \in Name, d \in Id : m[n] = d => v.rec[d] = n
         /\ \A n \in Name : m[n] = None => \A d \in Id : v.rec[d] # n
<1>1. /\ m \in [Name -> Id \cup {None}]
      /\ \A n \in Name : IF \E d \in Id : v.rec[d] = n
                         THEN m[n] \in Id /\ v.rec[m[n]] = n
                         ELSE m[n] = None
  BY DEF MapsOf
<1> QED
  BY <1>1, DatabasesAssumption

(* CheckAndLoadDatabaseByName *)
LEMMA LookupFacts ==
  ASSUME TypeOK, NEW s \in Open, NEW n \in Name, NEW l \in Lookup(s, n)
  PROVE  /\ l.ids \in SUBSET Id
         /\ l.map \in [Name -> Id \cup {None}]
         /\ l.fails \in BOOLEAN
         /\ \A m \in Name, d \in Id : l.map[m] = d => Mentioned(d, m)
         /\ LookedAt(l, n) \in SUBSET Key
         /\ (IF l.scan THEN AllRec ELSE {}) \in SUBSET Key
         /\ l.map[n] = None /\ ~l.fails =>
              AllRec \subseteq LookedAt(l, n) /\ \A d \in Id : view[s].rec[d] # n
<1>0. s \in Session /\ at[s] \in Inst /\ view[s] \in Store
  BY DEF TypeOK, Open
<1>1. LookedAt(l, n) \in SUBSET Key /\ (IF l.scan THEN AllRec ELSE {}) \in SUBSET Key
  BY KeyFacts DEF LookedAt
<1>2. ASSUME l.ids = byId[at[s]], l.map = byName[at[s]]
      PROVE  /\ l.ids \in SUBSET Id
             /\ l.map \in [Name -> Id \cup {None}]
             /\ \A m \in Name, d \in Id : l.map[m] = d => Mentioned(d, m)
  BY <1>0, <1>2 DEF TypeOK, Mentioned
<1>3. CASE byName[at[s]][n] # None
  <2>1. /\ l.ids = byId[at[s]] /\ l.map = byName[at[s]]
        /\ l.scan = FALSE /\ l.fails = FALSE
    BY <1>3 DEF Lookup
  <2> QED
    BY <1>1, <1>2, <1>3, <2>1
<1>4. CASE byName[at[s]][n] = None
  <2>1. \/ \E m \in MapsOf(view[s]) :
             l = [ids |-> {d \in Id : view[s].rec[d] # None}, map |-> m,
                  scan |-> TRUE, fails |-> FALSE]
        \/ l = [ids |-> byId[at[s]], map |-> byName[at[s]], scan |-> FALSE,
                fails |-> TRUE]
    BY <1>4 DEF Lookup
  <2>2. ASSUME NEW m \in MapsOf(view[s]),
               l = [ids |-> {d \in Id : view[s].rec[d] # None}, map |-> m,
                    scan |-> TRUE, fails |-> FALSE]
        PROVE  /\ l.ids \in SUBSET Id
               /\ l.map \in [Name -> Id \cup {None}]
               /\ l.fails \in BOOLEAN
               /\ \A k \in Name, d \in Id : l.map[k] = d => Mentioned(d, k)
               /\ l.map[n] = None /\ ~l.fails =>
                    AllRec \subseteq LookedAt(l, n) /\ \A d \in Id : view[s].rec[d] # n
    BY <1>0, <2>2, MapsFacts DEF Mentioned, LookedAt
  <2>3. CASE l = [ids |-> byId[at[s]], map |-> byName[at[s]], scan |-> FALSE,
                  fails |-> TRUE]
    <3>1. /\ l.ids = byId[at[s]] /\ l.map = byName[at[s]] /\ l.fails = TRUE
      BY <2>3
    <3> QED
      BY <1>1, <1>2, <3>1
  <2> QED
    BY <1>1, <2>1, <2>2, <2>3
<1> QED
  BY <1>3, <1>4

LEMMA SetCachesFrom ==
  ASSUME TypeOK, NEW i \in Inst, NEW ids \in SUBSET Id,
         NEW map \in [Name -> Id \cup {None}], SetCaches(i, ids, map),
         \A n \in Name, d \in Id : map[n] = d =>
           n \in touched' \/ Mentioned(d, n) \/ db.rec[d] = n
  PROVE  CachesFrom
<1>1. byId' \in [Inst -> SUBSET Id]
  BY DEF SetCaches, TypeOK
<1>2. byName' \in [Inst -> [Name -> Id \cup {None}]]
  BY DEF SetCaches, TypeOK
<1>3. \A j \in Inst : byName'[j] = IF j = i THEN map ELSE byName[j]
  BY DEF SetCaches, TypeOK
<1>4. ASSUME NEW j \in Inst, NEW n \in Name, NEW d \in Id, byName'[j][n] = d
      PROVE  n \in touched' \/ Mentioned(d, n) \/ db.rec[d] = n
  <2>1. CASE j = i
    BY <1>3, <1>4, <2>1
  <2>2. CASE j # i
    BY <1>3, <1>4, <2>2 DEF Mentioned
  <2> QED
    BY <2>1, <2>2
<1> QED
  BY <1>1, <1>2, <1>4 DEF CachesFrom

-----------------------------------------------------------------------------
(* Every action is of one of these kinds *)

LEMMA BeginKind ==
  ASSUME TypeOK, Closed, NEW s \in Session, Begin(s)
  PROVE  Starts(s)
<1>1. s \notin Open /\ Open' = Open \cup {s}
  BY DEF Begin, Open, TypeOK
<1>2. /\ view' \in [Session -> Store] /\ view'[s] = db
      /\ \A r \in Session \ {s} : view'[r] = view[r]
  BY DEF Begin, BeginTxn, TypeOK
<1>3. /\ before' \in [Session -> SUBSET Session] /\ before'[s] = Open
      /\ \A r \in Session \ {s} : before'[r] = before[r]
  BY DEF Begin, BeginTxn, TypeOK, Open
<1>4. db' = db /\ wr' = wr /\ late' = late /\ wr[s] = {}
  BY <1>1 DEF Begin, BeginTxn, store, Closed
<1>5. Begins(s, {})
  BY <1>1, <1>2, <1>3, <1>4 DEF Begins, TxnTypes, TypeOK
<1> QED
  BY <1>5 DEF Begin, Starts, store, caches, history

LEMMA CommitKind ==
  ASSUME TypeOK, NEW s \in Session, Commit(s)
  PROVE  Settles(s)
<1>1. s \in Open /\ Open' = Open \ {s}
  BY LeaveOpen DEF Commit, Open
<1>2. Commits(s)
  BY <1>1, CommitTxnCommits DEF Commit
<1> QED
  BY <1>2 DEF Commit, Settles, caches, TypeOK

LEMMA EndFirstKind ==
  ASSUME TypeOK, NEW s \in Session, EndFirst(s)
  PROVE  Half(s)
<1>1. s \in Open /\ Open' = Open \ {s}
  BY DEF EndFirst, Open, TypeOK
<1>2. Commits(s)
  BY <1>1, CommitTxnCommits DEF EndFirst
<1> QED
  BY <1>2 DEF EndFirst, Half, caches, history

LEMMA RollBackQuits ==
  ASSUME TypeOK, Closed, NotLate, NEW s \in Session, NEW R \in SUBSET Key,
         CanRead(s, R), RollBack(s, R), UNCHANGED store
  PROVE  Quits({s}) /\ Leave({s}) /\ at' = at /\ coll' = coll
<1>1. Open' = Open \ {s} /\ Leave({s})
  BY LeaveOpen DEF RollBack
<1>2. Spared({s}, Reads(s, R))
  BY ReadsSpared
<1> QED
  BY <1>1, <1>2, DropTxnsQuits DEF RollBack, store

LEMMA AbortKind ==
  ASSUME TypeOK, Closed, NotLate, NEW s \in Session, Abort(s)
  PROVE  GivesUp({s})
<1>1. Quits({s}) /\ Leave({s}) /\ at' = at /\ coll' = coll
  BY RollBackQuits DEF Abort, CanRead
<1>2. CachesFrom
  BY CachesSame DEF Abort, caches
<1> QED
  BY <1>1, <1>2 DEF Abort, GivesUp, TypeOK, Making

LEMMA ConnectKind ==
  ASSUME TypeOK, Closed, NotLate, NEW s \in Session, NEW d \in Id, Connect(s, d)
  PROVE  GivesUp({})
<1>1. PICK n \in Name : /\ \A r \in Open : IdxKey(n) \notin wr[r]
                        /\ late' = ReadNow({IdxKey(n)})
  BY DEF Connect
<1>2. Spared({}, ReadNow({IdxKey(n)}))
  BY <1>1, ReadNowSpared, KeyFacts
<1>3. UNCHANGED <<at, db, coll, byId, byName, st, target, view, wr, before,
                  used, touched, blind>>
  BY DEF Connect, store, caches, history
<1>4. Open' = Open
  BY <1>3 DEF Open
<1>5. Quits({})
  BY <1>1, <1>2, <1>3, <1>4 DEF Quits, TxnTypes, TypeOK, Spared, Open
<1>6. Leave({})
  BY <1>3 DEF Leave, TypeOK
<1>7. CachesFrom
  BY <1>3, CachesSame
<1>8. conn' \in [Session -> Id] /\ \A r \in Open : conn'[r] = conn[r]
  BY DEF Connect, TypeOK, Open
<1>9. Making({}) = {}
  BY DEF Making
<1> QED
  BY <1>3, <1>5, <1>6, <1>7, <1>8, <1>9 DEF GivesUp, TypeOK

LEMMA RestartKind ==
  ASSUME TypeOK, Closed, NotLate, NEW i \in Inst, Restart(i)
  PROVE  GivesUp({s \in Session : at[s] = i})
<1> DEFINE S == {s \in Session : at[s] = i}
<1>1. /\ \A r \in Open \ S : wr[r] \cap AllRec = {}
      /\ DropTxns(S, ReadNow(AllRec)) /\ Leave(S)
      /\ conn' = [s \in Session |-> IF s \in S THEN Template ELSE conn[s]]
      /\ \E m \in MapsOf(db) : SetCaches(i, {d \in Id : db.rec[d] # None}, m)
      /\ touched' = touched \cup Making(S)
      /\ UNCHANGED <<at, db, coll, used, blind>>
  BY DEF Restart, store
<1>2. S \in SUBSET Session
  OBVIOUS
<1> HIDE DEF S
<1>3. Open' = Open \ S
  BY <1>1, <1>2, LeaveOpen
<1>4. Spared(S, ReadNow(AllRec))
  BY <1>1, <1>2, ReadNowSpared, KeyFacts
<1>5. Quits(S)
  BY <1>1, <1>2, <1>3, <1>4, DropTxnsQuits
<1>6. CachesFrom
  <2>1. PICK m \in MapsOf(db) : SetCaches(i, {d \in Id : db.rec[d] # None}, m)
    BY <1>1
  <2>2. db \in Store
    BY DEF TypeOK
  <2> QED
    BY <2>1, <2>2, MapsFacts, SetCachesFrom
<1>7. conn' \in [Session -> Id] /\ \A s \in Open \ S : conn'[s] = conn[s]
  BY <1>1, DatabasesAssumption DEF TypeOK, Open
<1>8. touched' \subseteq Name
  BY <1>1 DEF TypeOK, Making
<1> QED
  BY <1>1, <1>5, <1>6, <1>7, <1>8 DEF GivesUp, TypeOK, S

LEMMA NoMaking ==
  ASSUME TypeOK, Targets, NEW s \in Session, st[s] \in {"idle", "open", "block"}
  PROVE  Making({s}) = {} /\ target[s] = None
<1>1. target[s] = None
  BY DEF Targets
<1>2. \A d \in Id, n \in Name : <<d, n>> # None
  <2>1. \A d \in Id, n \in Name : <<d, n>> \in Id \X Name
    OBVIOUS
  <2> QED
    BY <2>1, DatabasesAssumption
<1> QED
  BY <1>1, <1>2, Zenon DEF Making

LEMMA CreateRefusedKind ==
  ASSUME TypeOK, Closed, NotLate, Targets, NEW s \in Session, NEW n \in Name, CreateRefused(s, n)
  PROVE  GivesUp({s})
<1>1. s \in Open /\ UNCHANGED <<store, conn, history>> /\ Making({s}) = {}
  BY NoMaking DEF CreateRefused, CanCreate, Open
<1>2. PICK l \in Lookup(s, n) :
       /\ CanRead(s, LookedAt(l, n))
       /\ SetCaches(at[s], l.ids, l.map)
       /\ RollBack(s, LookedAt(l, n))
  BY DEF CreateRefused
<1>3. Quits({s}) /\ Leave({s}) /\ at' = at /\ coll' = coll
  BY <1>1, <1>2, LookupFacts, RollBackQuits
<1>4. CachesFrom
  <2>1. at[s] \in Inst
    BY DEF TypeOK
  <2> QED
    BY <1>1, <1>2, <2>1, LookupFacts, SetCachesFrom
<1> QED
  BY <1>1, <1>3, <1>4 DEF GivesUp, TypeOK, history

LEMMA CreateFailsKind ==
  ASSUME TypeOK, Closed, NotLate, Targets, NEW s \in Session, NEW d \in Id, NEW n \in Name,
         CreateFails(s, d, n)
  PROVE  GivesUp({s})
<1>1. s \in Open /\ UNCHANGED <<store, conn>> /\ Making({s}) = {}
  BY NoMaking DEF CreateFails, CanCreate, Open
<1>2. PICK l \in Lookup(s, n) :
       /\ CanRead(s, LookedAt(l, n))
       /\ \/ SetCaches(at[s], l.ids, l.map)
          \/ SetCaches(at[s], l.ids \cup {d}, [l.map EXCEPT ![n] = d])
       /\ RollBack(s, LookedAt(l, n))
       /\ blind' = (blind \/ l.fails)
  BY DEF CreateFails
<1>3. /\ Quits({s}) /\ Leave({s}) /\ at' = at /\ coll' = coll
  BY <1>1, <1>2, LookupFacts, RollBackQuits
<1>4. touched' = touched \cup {n} /\ used' = used \cup {d}
  BY DEF CreateFails
<1>5. CachesFrom
  <2>1. at[s] \in Inst /\ l.ids \in SUBSET Id /\ l.ids \cup {d} \in SUBSET Id
        /\ l.map \in [Name -> Id \cup {None}]
        /\ [l.map EXCEPT ![n] = d] \in [Name -> Id \cup {None}]
        /\ \A m \in Name, e \in Id : l.map[m] = e => Mentioned(e, m)
    BY <1>1, LookupFacts DEF TypeOK
  <2>2. \A m \in Name, e \in Id :
          [l.map EXCEPT ![n] = d][m] = e => m \in touched' \/ Mentioned(e, m)
    BY <1>4, <2>1
  <2>3. CASE SetCaches(at[s], l.ids, l.map)
    BY <2>1, <2>3, SetCachesFrom
  <2>4. CASE SetCaches(at[s], l.ids \cup {d}, [l.map EXCEPT ![n] = d])
    BY <2>1, <2>2, <2>4, SetCachesFrom
  <2> QED
    BY <1>2, <2>3, <2>4
<1>6. l.fails \in BOOLEAN
  BY <1>1, LookupFacts
<1> QED
  BY <1>1, <1>2, <1>3, <1>4, <1>5, <1>6
     DEF GivesUp, TypeOK

LEMMA DropFailsKind ==
  ASSUME TypeOK, Closed, NotLate, Targets, NEW s \in Session, NEW d \in Id, NEW n \in Name,
         DropFails(s, d, n)
  PROVE  GivesUp({s})
<1>1. /\ s \in Open /\ view[s].rec[d] # None
      /\ RollBack(s, {}) /\ UNCHANGED <<store, conn, history>> /\ Making({s}) = {}
      /\ SetCaches(at[s], byId[at[s]] \ {d},
                   [byName[at[s]] EXCEPT ![view[s].rec[d]] = None])
  BY NoMaking DEF DropFails, CanDrop, Open
<1>2. Quits({s}) /\ Leave({s}) /\ at' = at /\ coll' = coll
  BY <1>1, RollBackQuits DEF CanRead
<1>3. CachesFrom
  <2>1. at[s] \in Inst /\ view[s] \in Store
    BY DEF TypeOK
  <2>2. view[s].rec[d] \in Name
    BY <1>1, <2>1, StoreFields
  <2>3. \A m \in Name, e \in Id :
          [byName[at[s]] EXCEPT ![view[s].rec[d]] = None][m] = e => Mentioned(e, m)
    BY <2>1, <2>2, DatabasesAssumption DEF TypeOK, Mentioned
  <2>4. /\ byId[at[s]] \ {d} \in SUBSET Id
        /\ [byName[at[s]] EXCEPT ![view[s].rec[d]] = None] \in [Name -> Id \cup {None}]
    BY <2>1 DEF TypeOK
  <2> QED
    BY <1>1, <2>1, <2>3, <2>4, SetCachesFrom
<1> QED
  BY <1>1, <1>2, <1>3 DEF GivesUp, TypeOK, history

LEMMA CreateTableKind ==
  ASSUME TypeOK, Closed, NotLate, Targets, NEW s \in Session, CreateTable(s)
  PROVE  GivesUp({s}) \/ Uses(s)
<1> DEFINE n == view[s].row[conn[s]]
<1>1. /\ s \in Open /\ st[s] \in {"open", "block"} /\ n # None
      /\ UNCHANGED <<store, conn, history>>
  BY DEF CreateTable, Open
<1>2. PICK l \in Lookup(s, n) :
       LET R == IF l.scan THEN AllRec ELSE {} IN
       /\ CanRead(s, R)
       /\ SetCaches(at[s], l.ids, l.map)
       /\ \/ /\ l.map[n] # None
             /\ st' = [st EXCEPT ![s] = "block"]
             /\ late' = Reads(s, R)
             /\ UNCHANGED <<target, view, wr, before>>
          \/ /\ l.map[n] = None
             /\ RollBack(s, R)
  BY DEF CreateTable
<1>3. conn[s] \in Id /\ view[s] \in Store /\ at[s] \in Inst
  BY DEF TypeOK
<1>4. n \in Name
  BY <1>1, <1>3, StoreFields
<1> HIDE DEF n
<1> DEFINE R == IF l.scan THEN AllRec ELSE {}
<1>5. R \in SUBSET Key
  BY KeyFacts
<1>6. CachesFrom
  BY <1>1, <1>2, <1>3, <1>4, LookupFacts, SetCachesFrom
<1>7. CanRead(s, R)
  BY <1>2
<1>8. CASE RollBack(s, R)
  <2>1. Quits({s}) /\ Leave({s}) /\ at' = at /\ coll' = coll
    BY <1>1, <1>5, <1>7, <1>8, RollBackQuits
  <2>2. Making({s}) = {}
    BY <1>1, NoMaking
  <2> QED
    BY <1>1, <1>6, <2>1, <2>2 DEF GivesUp, TypeOK, history
<1>9. CASE /\ st' = [st EXCEPT ![s] = "block"]
           /\ late' = Reads(s, R)
           /\ UNCHANGED <<target, view, wr, before>>
  <2>1. Open' = Open
    BY <1>1, <1>9, StayOpen DEF States
  <2> HIDE DEF R
  <2>2. /\ late' \in [Session -> SUBSET Key]
        /\ \A r \in Session :
             late'[r] = IF r \in before[s] THEN late[r] \cup R ELSE late[r]
    BY <1>5, <1>9 DEF Reads, TypeOK
  <2>3. CanWrite(s, {})
    BY DEF CanWrite
  <2>4. Looks(s, R, {})
    BY <1>1, <1>7, <1>9, <2>1, <2>2, <2>3 DEF Looks, TxnTypes, TypeOK, store
  <2>5. st' \in [Session -> States] /\ st'[s] = "block"
        /\ \A r \in Session \ {s} : st'[r] = st[r]
    BY <1>9 DEF TypeOK, States
  <2> QED
    BY <1>1, <1>5, <1>6, <1>9, <2>4, <2>5 DEF Uses, store, history
<1> QED
  BY <1>2, <1>8, <1>9

LEMMA OpenTableKind ==
  ASSUME TypeOK, NEW s \in Session, OpenTable(s)
  PROVE  Uses(s)
<1>1. /\ s \in Open /\ st[s] \in {"open", "block"}
      /\ Access(s, AllRec, {}, view[s])
      /\ UNCHANGED <<store, st, target, conn, history>>
  BY DEF OpenTable, Open
<1>2. PICK m \in MapsOf(view[s]) :
       SetCaches(at[s], {d \in Id : view[s].rec[d] # None}, m)
  BY DEF OpenTable
<1>3. view[s] \in Store /\ at[s] \in Inst
  BY DEF TypeOK
<1>4. CachesFrom
  <2>1. \A n \in Name, d \in Id : m[n] = d => Mentioned(d, n)
    BY <1>1, <1>3, MapsFacts DEF Mentioned
  <2> QED
    BY <1>2, <1>3, <2>1, MapsFacts, SetCachesFrom
<1>5. Open' = Open
  BY <1>1 DEF Open
<1>6. Looks(s, AllRec, {}) /\ view'[s] = view[s]
  BY <1>1, <1>3, <1>5, KeyFacts, AccessLooks DEF store
<1> QED
  BY <1>1, <1>4, <1>6, KeyFacts DEF Uses, store, history, TypeOK

LEMMA ReserveKind ==
  ASSUME TypeOK, NEW s \in Session, Reserve(s)
  PROVE  Uses(s)
<1> DEFINE d == conn[s]
<1>1. /\ s \in Open /\ st[s] \in {"open", "block"} /\ view[s].rec[d] # None
      /\ Access(s, {RecKey(d)}, {RecKey(d)}, view[s])
      /\ UNCHANGED <<store, caches, st, target, conn, history>>
  BY DEF Reserve, Open
<1>2. view[s] \in Store /\ at[s] \in Inst /\ d \in Id
  BY DEF TypeOK
<1> HIDE DEF d
<1>3. CachesFrom
  BY <1>1, CachesSame DEF caches
<1>4. Open' = Open
  BY <1>1 DEF Open
<1>5. {RecKey(d)} \in SUBSET Key
  BY <1>2, KeyFacts
<1>6. Looks(s, {RecKey(d)}, {RecKey(d)}) /\ view'[s] = view[s]
  BY <1>1, <1>2, <1>4, <1>5, AccessLooks DEF store
<1> QED
  BY <1>1, <1>2, <1>3, <1>5, <1>6 DEF Uses, store, history, TypeOK

LEMMA CacheReservedKind ==
  ASSUME TypeOK, NEW s \in Session, CacheReserved(s)
  PROVE  Uses(s)
<1> DEFINE d == conn[s]
           n == view[s].rec[d]
<1>1. /\ s \in Open /\ st[s] \in {"open", "block"} /\ n # None
      /\ SetCaches(at[s], byId[at[s]] \cup {d}, [byName[at[s]] EXCEPT ![n] = d])
      /\ UNCHANGED <<store, st, target, conn, txn, history>>
  BY DEF CacheReserved, Open
<1>2. view[s] \in Store /\ at[s] \in Inst /\ d \in Id
  BY DEF TypeOK
<1>3. n \in Name
  BY <1>1, <1>2, StoreFields
<1>4. Mentioned(d, n)
  BY <1>1 DEF Mentioned
<1> HIDE DEF n, d
<1>5. CachesFrom
  <2>1. \A m \in Name, e \in Id :
          [byName[at[s]] EXCEPT ![n] = d][m] = e => Mentioned(e, m)
    BY <1>2, <1>3, <1>4 DEF TypeOK, Mentioned
  <2>2. /\ byId[at[s]] \cup {d} \in SUBSET Id
        /\ [byName[at[s]] EXCEPT ![n] = d] \in [Name -> Id \cup {None}]
    BY <1>2, <1>3 DEF TypeOK
  <2> QED
    BY <1>1, <1>2, <2>1, <2>2, SetCachesFrom
<1>6. Open' = Open
  BY <1>1 DEF Open
<1>7. CanRead(s, {}) /\ CanWrite(s, {})
  BY DEF CanRead, CanWrite
<1>8. Looks(s, {}, {}) /\ view'[s] = view[s]
  BY <1>1, <1>2, <1>6, <1>7 DEF Looks, TxnTypes, TypeOK, store, txn
<1>9. {} \in SUBSET Key
  OBVIOUS
<1> QED
  BY <1>1, <1>5, <1>8, <1>9 DEF Uses, store, history, TypeOK

LEMMA CreateDatabaseKind ==
  ASSUME TypeOK, NEW s \in Session, NEW d \in Id, NEW n \in Name,
         CreateDatabase(s, d, n)
  PROVE  Creates(s, d, n)
<1>1. /\ s \in Open /\ st[s] = "open" /\ d \notin used
      /\ coll' = coll \cup {d} /\ used' = used \cup {d}
      /\ st' = [st EXCEPT ![s] = "named"]
      /\ target' = [target EXCEPT ![s] = <<d, n>>]
      /\ UNCHANGED <<at, db, conn, touched>>
  BY DEF CreateDatabase, CanCreate, Open
<1>2. PICK l \in Lookup(s, n) :
       /\ l.map[n] = None
       /\ Access(s, LookedAt(l, n), {RecKey(d)}, [view[s] EXCEPT !.rec[d] = n])
       /\ SetCaches(at[s], l.ids \cup {d}, [l.map EXCEPT ![n] = d])
       /\ blind' = (blind \/ l.fails)
  BY DEF CreateDatabase
<1>3. view[s] \in Store /\ at[s] \in Inst
  BY DEF TypeOK
<1>4. Open' = Open
  BY <1>1, StayOpen DEF States
<1> DEFINE v == [view[s] EXCEPT !.rec[d] = n]
<1>5. /\ v \in Store /\ v.row = view[s].row /\ v.rec[d] = n
      /\ \A e \in Id : e # d => v.rec[e] = view[s].rec[e]
  BY <1>3, SetRec
<1>6. Access(s, LookedAt(l, n), {RecKey(d)}, v)
  BY <1>2
<1> HIDE DEF v
<1>7. LookedAt(l, n) \in SUBSET Key /\ {RecKey(d)} \in SUBSET Key
  BY <1>1, LookupFacts, KeyFacts
<1>8. Looks(s, LookedAt(l, n), {RecKey(d)}) /\ view'[s] = v
  BY <1>1, <1>4, <1>5, <1>6, <1>7, AccessLooks
<1>9. blind' \in BOOLEAN /\ (blind => blind')
      /\ (blind' \/ (AllRec \subseteq LookedAt(l, n) /\ \A e \in Id : view[s].rec[e] # n))
  BY <1>1, <1>2, LookupFacts DEF TypeOK
<1>10. /\ l.ids \cup {d} \in SUBSET Id
       /\ l.map \in [Name -> Id \cup {None}]
       /\ [l.map EXCEPT ![n] = d] \in [Name -> Id \cup {None}]
       /\ \A m \in Name, e \in Id : l.map[m] = e => Mentioned(e, m)
  BY <1>1, LookupFacts
<1>11. /\ byId' \in [Inst -> SUBSET Id]
       /\ byName' \in [Inst -> [Name -> Id \cup {None}]]
  BY <1>2, <1>3, <1>10 DEF SetCaches, TypeOK
<1>12. \A i \in Inst, m \in Name, e \in Id : byName'[i][m] = e =>
         Mentioned(e, m) \/ (e = d /\ m = n)
  <2>1. \A i \in Inst : byName'[i] = IF i = at[s] THEN [l.map EXCEPT ![n] = d] ELSE byName[i]
    BY <1>2, <1>3 DEF SetCaches, TypeOK
  <2>2. \A i \in Inst, m \in Name, e \in Id : byName[i][m] = e => Mentioned(e, m)
    BY DEF Mentioned
  <2> QED
    BY <1>10, <2>1, <2>2
<1> QED
  BY <1>1, <1>5, <1>7, <1>8, <1>9, <1>11, <1>12 DEF Creates

(* the database that s is making *)
LEMMA TargetIs ==
  ASSUME TypeOK, Targets, NEW s \in Session, st[s] \in {"named", "between", "copied"}
  PROVE  \E d \in Id, n \in Name : target[s] = <<d, n>>
BY DEF TypeOK, Targets

LEMMA CopyKind ==
  ASSUME TypeOK, Closed, Targets, NEW s \in Session, Copy(s)
  PROVE  \E d \in Id : Copies(s, d)
<1>1. st[s] = "between"
  BY DEF Copy
<1>2. PICK d \in Id : \E n \in Name : target[s] = <<d, n>>
  BY <1>1, TargetIs
<1>3. /\ view' = [view EXCEPT ![s] = [db EXCEPT !.tab = @ \cup {d}]]
      /\ wr' = [wr EXCEPT ![s] = {TabKey(d)}]
      /\ before' = [before EXCEPT ![s] = Open]
      /\ st' = [st EXCEPT ![s] = "copied"]
      /\ UNCHANGED <<at, db, coll, byId, byName, target, conn, late, used, touched, blind>>
  BY <1>2 DEF Copy, store, caches, history
<1>4. s \notin Open /\ Open' = Open \cup {s}
  BY <1>1, <1>3 DEF Open, TypeOK
<1> DEFINE v == [db EXCEPT !.tab = @ \cup {d}]
<1>5. v \in Store /\ v.row = db.row /\ v.rec = db.rec
  BY DEF TypeOK, Store
<1>6. view' = [view EXCEPT ![s] = v]
  BY <1>3
<1> HIDE DEF v
<1>7. /\ view' \in [Session -> Store] /\ view'[s] = v
      /\ \A r \in Session \ {s} : view'[r] = view[r]
  BY <1>5, <1>6 DEF TypeOK
<1>8. /\ wr' \in [Session -> SUBSET Key] /\ wr'[s] = {TabKey(d)}
      /\ \A r \in Session \ {s} : wr'[r] = wr[r]
  BY <1>3, KeyFacts DEF TypeOK
<1>9. /\ before' \in [Session -> SUBSET Session] /\ before'[s] = Open
      /\ \A r \in Session \ {s} : before'[r] = before[r]
  BY <1>3 DEF TypeOK, Open
<1>10. Begins(s, {TabKey(d)})
  BY <1>3, <1>4, <1>5, <1>7, <1>8, <1>9, KeyFacts DEF Begins, TxnTypes, TypeOK
<1> QED
  BY <1>1, <1>2, <1>3, <1>10 DEF Copies, Names

LEMMA InsertRowKind ==
  ASSUME TypeOK, Targets, NEW s \in Session, InsertRow(s)
  PROVE  \E d \in Id, n \in Name : Inserts(s, d, n)
<1>1. st[s] = "copied" /\ s \in Open
  BY DEF InsertRow, Open
<1>2. PICK d \in Id : \E n \in Name : target[s] = <<d, n>>
  BY <1>1, TargetIs
<1>3. PICK n \in Name : target[s] = <<d, n>>
  BY <1>2
<1> DEFINE v == [view[s] EXCEPT !.row[d] = n, !.idx[n] = d]
<1>4. /\ Access(s, AllIdx, {RowKey(d), IdxKey(n)}, v)
      /\ st' = [st EXCEPT ![s] = "done"]
      /\ UNCHANGED <<at, db, coll, byId, byName, target, conn, used, touched, blind>>
  BY <1>3 DEF InsertRow, store, caches, history
<1>5. /\ v \in Store /\ v.rec = view[s].rec /\ v.row[d] = n
      /\ \A e \in Id : e # d => v.row[e] = view[s].row[e]
  <2>1. view[s] \in Store
    BY DEF TypeOK
  <2> QED
    BY <2>1 DEF Store
<1> HIDE DEF v
<1>6. Open' = Open
  BY <1>1, <1>4, StayOpen DEF States
<1>7. {RowKey(d), IdxKey(n)} \in SUBSET Key /\ AllIdx \in SUBSET Key
  BY KeyFacts
<1>8. Looks(s, AllIdx, {RowKey(d), IdxKey(n)}) /\ view'[s] = v
  BY <1>1, <1>4, <1>5, <1>6, <1>7, AccessLooks
<1> QED
  BY <1>1, <1>3, <1>4, <1>5, <1>8 DEF Inserts

LEMMA DropKind ==
  ASSUME TypeOK, NEW s \in Session, NEW d \in Id, NEW n \in Name, Drop(s, d, n)
  PROVE  Deletes(s, d, n)
<1> DEFINE W == {RowKey(d), RecKey(d)} \cup {IdxKey(m) : m \in EntriesOf(view[s], d)}
           R == AllIdx \cup {RecKey(d)}
           v == [WithoutRow(view[s], d) EXCEPT !.rec[d] = None]
<1>1. /\ s \in Open /\ st[s] = "open" /\ view[s].rec[d] # None
      /\ view[s].idx[n] = d /\ view[s].row[d] = n
      /\ Access(s, R, W, v)
      /\ st' = [st EXCEPT ![s] = "done"]
      /\ UNCHANGED <<at, db, coll, byId, byName, target, conn, used, touched, blind>>
  BY DEF Drop, CanDrop, Finds, Open, store, caches, history
<1>2. /\ v \in Store /\ v.row[d] = None /\ v.rec[d] = None
      /\ \A e \in Id : e # d => v.row[e] = view[s].row[e] /\ v.rec[e] = view[s].rec[e]
  <2>1. view[s] \in Store
    BY DEF TypeOK
  <2>2. /\ WithoutRow(view[s], d) \in Store
        /\ WithoutRow(view[s], d).rec = view[s].rec
        /\ WithoutRow(view[s], d).row[d] = None
        /\ \A e \in Id : e # d => WithoutRow(view[s], d).row[e] = view[s].row[e]
    BY <2>1, UnsetRow
  <2> QED
    BY <2>2, SetRec
<1>3. /\ W \in SUBSET Key /\ R \in SUBSET Key
      /\ RowKey(d) \in W /\ RecKey(d) \in W /\ IdxKey(n) \in W
      /\ \A e \in Id \ {d} : /\ RowKey(e) \notin W /\ RecKey(e) \notin W
      /\ \A e \in Id : TabKey(e) \notin W
  <2>1. n \in EntriesOf(view[s], d) /\ EntriesOf(view[s], d) \subseteq Name
    BY <1>1 DEF EntriesOf
  <2> QED
    BY <2>1, KeyFacts
<1> HIDE DEF v, W, R
<1>4. Open' = Open
  BY <1>1, StayOpen DEF States
<1>5. Looks(s, R, W) /\ view'[s] = v
  <2>1. \A e \in Id : /\ RowKey(e) \notin W => v.row[e] = view[s].row[e]
                      /\ RecKey(e) \notin W => v.rec[e] = view[s].rec[e]
    BY <1>2, <1>3
  <2> QED
    BY <1>1, <1>2, <1>3, <1>4, <2>1, AccessLooks
<1> QED
  BY <1>1, <1>2, <1>3, <1>5 DEF Deletes

LEMMA RenameKind ==
  ASSUME TypeOK, NEW s \in Session, NEW d \in Id, NEW n \in Name, NEW m \in Name,
         Rename(s, d, n, m)
  PROVE  Renames(s, d, n, m)
<1> DEFINE W == {RowKey(d), IdxKey(m)} \cup {IdxKey(k) : k \in EntriesOf(view[s], d)}
           v == [WithoutRow(view[s], d) EXCEPT !.row[d] = m, !.idx[m] = d]
<1>1. /\ s \in Open /\ st[s] \in {"open", "block"} /\ d # conn[s]
      /\ view[s].idx[n] = d /\ view[s].row[d] = n
      /\ Access(s, AllIdx, W, v)
      /\ st' = [st EXCEPT ![s] = "block"]
      /\ UNCHANGED <<at, db, coll, byId, byName, target, conn, used, touched, blind>>
  BY DEF Rename, Finds, Open, store, caches, history
<1>2. /\ v \in Store /\ v.row[d] = m /\ v.rec = view[s].rec
      /\ \A e \in Id : e # d => v.row[e] = view[s].row[e]
  <2>1. view[s] \in Store
    BY DEF TypeOK
  <2>2. /\ WithoutRow(view[s], d) \in Store
        /\ WithoutRow(view[s], d).rec = view[s].rec
        /\ \A e \in Id : e # d => WithoutRow(view[s], d).row[e] = view[s].row[e]
    BY <2>1, UnsetRow
  <2> QED
    BY <2>2 DEF Store
<1>3. /\ W \in SUBSET Key /\ AllIdx \in SUBSET Key
      /\ RowKey(d) \in W /\ IdxKey(n) \in W /\ IdxKey(m) \in W
      /\ \A e \in Id \ {d} : RowKey(e) \notin W
      /\ \A e \in Id : RecKey(e) \notin W /\ TabKey(e) \notin W
  <2>1. n \in EntriesOf(view[s], d) /\ EntriesOf(view[s], d) \subseteq Name
    BY <1>1 DEF EntriesOf
  <2> QED
    BY <2>1, KeyFacts
<1> HIDE DEF v, W
<1>4. Open' = Open
  BY <1>1, StayOpen DEF States
<1>5. Looks(s, AllIdx, W) /\ view'[s] = v
  <2>1. \A e \in Id : /\ RowKey(e) \notin W => v.row[e] = view[s].row[e]
                      /\ RecKey(e) \notin W => v.rec[e] = view[s].rec[e]
    BY <1>2, <1>3
  <2> QED
    BY <1>1, <1>2, <1>3, <1>4, <2>1, AccessLooks
<1> QED
  BY <1>1, <1>2, <1>3, <1>5 DEF Renames

(* the kinds of steps *)
Kinds ==
  \/ \E S \in SUBSET Session : GivesUp(S)
  \/ \E s \in Session : Uses(s) \/ Half(s) \/ Settles(s) \/ Starts(s)
  \/ \E s \in Session, d \in Id : Copies(s, d)
  \/ \E s \in Session, d \in Id, n \in Name :
       Creates(s, d, n) \/ Inserts(s, d, n) \/ Deletes(s, d, n)
  \/ \E s \in Session, d \in Id, n, m \in Name : Renames(s, d, n, m)

LEMMA NextKinds ==
  ASSUME TypeOK, Closed, NotLate, Targets, Next
  PROVE  Kinds
<1>1. ASSUME NEW s \in Session,
             \/ Begin(s) \/ Commit(s) \/ Abort(s)
             \/ EndFirst(s) \/ Copy(s) \/ InsertRow(s)
             \/ CreateTable(s) \/ OpenTable(s) \/ Reserve(s) \/ CacheReserved(s)
      PROVE  Kinds
  BY <1>1, BeginKind, CommitKind, AbortKind, EndFirstKind, CopyKind, InsertRowKind,
     CreateTableKind, OpenTableKind, ReserveKind, CacheReservedKind DEF Kinds
<1>2. ASSUME NEW s \in Session, NEW d \in Id, Connect(s, d)
      PROVE  Kinds
  BY <1>2, ConnectKind DEF Kinds
<1>3. ASSUME NEW s \in Session, NEW n \in Name, CreateRefused(s, n)
      PROVE  Kinds
  BY <1>3, CreateRefusedKind DEF Kinds
<1>4. ASSUME NEW s \in Session, NEW d \in Id, NEW n \in Name,
             \/ CreateDatabase(s, d, n) \/ CreateFails(s, d, n)
             \/ Drop(s, d, n) \/ DropFails(s, d, n)
      PROVE  Kinds
  BY <1>4, CreateDatabaseKind, CreateFailsKind, DropKind, DropFailsKind DEF Kinds
<1>5. ASSUME NEW s \in Session, NEW d \in Id, NEW n \in Name, NEW m \in Name,
             Rename(s, d, n, m)
      PROVE  Kinds
  BY <1>5, RenameKind DEF Kinds
<1>6. ASSUME NEW i \in Inst, Restart(i)
      PROVE  Kinds
  <2>1. {s \in Session : at[s] = i} \in SUBSET Session
    OBVIOUS
  <2> QED
    BY <1>6, <2>1, RestartKind DEF Kinds
<1>7. ASSUME NEW s \in Session, Step(s)
      PROVE  Kinds
  BY <1>1, <1>2, <1>3, <1>4, <1>5, <1>7, Zenon DEF Step
<1>8. waiting \subseteq Session
  BY DEF TypeOK
<1> QED
  BY <1>1, <1>6, <1>7, <1>8, Zenon DEF Next

-----------------------------------------------------------------------------
(* The transactions at every kind of step *)

LEMMA PairNotNone ==
  \A d \in Id, n \in Name : <<d, n>> # None
<1>1. \A d \in Id, n \in Name : <<d, n>> \in Id \X Name
  OBVIOUS
<1> QED
  BY <1>1, DatabasesAssumption

LEMMA TxnStep ==
  ASSUME TypeOK, TxnInv, TabOwner, Targets, Kinds
  PROVE  TxnInv' /\ BeforeOK'
<1>1. ASSUME NEW S \in SUBSET Session, GivesUp(S)
      PROVE  TxnInv' /\ BeforeOK'
  BY <1>1, QuitsTxn DEF GivesUp
<1>2. ASSUME NEW s \in Session, NEW R, NEW W, Looks(s, R, W)
      PROVE  TxnInv' /\ BeforeOK'
  BY <1>2, LooksTxn
<1>3. ASSUME NEW s \in Session, Commits(s)
      PROVE  TxnInv' /\ BeforeOK'
  BY <1>3, CommitsTxn
<1>4. ASSUME NEW s \in Session, Starts(s)
      PROVE  TxnInv' /\ BeforeOK'
  BY <1>4, BeginsTxn DEF Starts
<1>5. ASSUME NEW s \in Session, NEW d \in Id, Copies(s, d)
      PROVE  TxnInv' /\ BeforeOK'
  <2>1. Begins(s, {TabKey(d)}) /\ Names(s, d)
    BY <1>5 DEF Copies
  <2>2. \A r \in Session \ {s} : wr[r] \cap {TabKey(d)} = {}
    BY <2>1 DEF TabOwner, Targets
  <2> QED
    BY <2>1, <2>2, BeginsTxn
<1>6. ASSUME NEW s \in Session, Uses(s) \/ Half(s) \/ Settles(s)
      PROVE  TxnInv' /\ BeforeOK'
  <2>1. ASSUME Uses(s)
        PROVE  TxnInv' /\ BeforeOK'
    BY <2>1, <1>2 DEF Uses
  <2> QED
    BY <2>1, <1>3, <1>6 DEF Half, Settles
<1>7. ASSUME NEW s \in Session, NEW d \in Id, NEW n \in Name,
             Creates(s, d, n) \/ Inserts(s, d, n) \/ Deletes(s, d, n)
      PROVE  TxnInv' /\ BeforeOK'
  <2>1. \E R, W : Looks(s, R, W)
    <3>1. ASSUME Creates(s, d, n) PROVE \E R, W : Looks(s, R, W)
      BY <3>1 DEF Creates
    <3>2. ASSUME Inserts(s, d, n) PROVE \E R, W : Looks(s, R, W)
      BY <3>2 DEF Inserts
    <3>3. ASSUME Deletes(s, d, n) PROVE \E R, W : Looks(s, R, W)
      BY <3>3 DEF Deletes
    <3> QED
      BY <1>7, <3>1, <3>2, <3>3
  <2> QED
    BY <2>1, <1>2
<1>8. ASSUME NEW s \in Session, NEW d \in Id, NEW n \in Name, NEW m \in Name,
             Renames(s, d, n, m)
      PROVE  TxnInv' /\ BeforeOK'
  BY <1>8, <1>2 DEF Renames
<1> QED
  BY <1>1, <1>4, <1>5, <1>6, <1>7, <1>8 DEF Kinds

(* what a kind of step does to s, and that it leaves the others alone *)
LEMMA LeaveFacts ==
  ASSUME TypeOK, NEW S \in SUBSET Session, Leave(S)
  PROVE  /\ st' \in [Session -> States]
         /\ target' \in [Session -> (Id \X Name) \cup {None}]
         /\ \A s \in S : st'[s] = "idle" /\ target'[s] = None
         /\ \A s \in Session \ S : st'[s] = st[s] /\ target'[s] = target[s]
BY DEF Leave, TypeOK, States

LEMMA StepFacts ==
  ASSUME TypeOK, NEW s \in Session, NEW x \in States, st' = [st EXCEPT ![s] = x]
  PROVE  /\ st' \in [Session -> States] /\ st'[s] = x
         /\ \A r \in Session \ {s} : st'[r] = st[r]
BY DEF TypeOK

LEMMA TypeStep ==
  ASSUME TypeOK, Kinds, BeforeOK', waiting' \subseteq Session
  PROVE  TypeOK'
<1>1. ASSUME NEW S \in SUBSET Session, GivesUp(S)
      PROVE  TypeOK'
  <2>1. /\ st' \in [Session -> States]
        /\ target' \in [Session -> (Id \X Name) \cup {None}]
    BY <1>1, LeaveFacts DEF GivesUp
  <2> QED
    BY <1>1, <2>1 DEF GivesUp, Quits, TxnTypes, CachesFrom, TypeOK, BeforeOK
<1>2. ASSUME NEW s \in Session, Uses(s)
      PROVE  TypeOK'
  <2>1. db' = db /\ TxnTypes
    BY <1>2 DEF Uses, Looks
  <2> QED
    BY <1>2, <2>1 DEF Uses, TxnTypes, CachesFrom, TypeOK, BeforeOK
<1>3. ASSUME NEW s \in Session, Half(s)
      PROVE  TypeOK'
  <2>1. st' \in [Session -> States]
    BY <1>3, StepFacts DEF Half, States
  <2> QED
    BY <1>3, <2>1 DEF Half, Commits, TxnTypes, TypeOK, BeforeOK
<1>4. ASSUME NEW s \in Session, Settles(s)
      PROVE  TypeOK'
  <2>1. /\ st' \in [Session -> States]
        /\ target' \in [Session -> (Id \X Name) \cup {None}]
    BY <1>4, LeaveFacts DEF Settles
  <2> QED
    BY <1>4, <2>1 DEF Settles, Commits, TxnTypes, TypeOK, BeforeOK
<1>5. ASSUME NEW s \in Session, Starts(s)
      PROVE  TypeOK'
  <2>1. st' \in [Session -> States]
    BY <1>5, StepFacts DEF Starts, States
  <2> QED
    BY <1>5, <2>1 DEF Starts, Begins, TxnTypes, TypeOK, BeforeOK
<1>6. ASSUME NEW s \in Session, NEW d \in Id, Copies(s, d)
      PROVE  TypeOK'
  <2>1. st' \in [Session -> States]
    BY <1>6, StepFacts DEF Copies, States
  <2> QED
    BY <1>6, <2>1 DEF Copies, Begins, TxnTypes, TypeOK, BeforeOK
<1>7. ASSUME NEW s \in Session, NEW d \in Id, NEW n \in Name, Creates(s, d, n)
      PROVE  TypeOK'
  <2>1. st' \in [Session -> States]
    BY <1>7, StepFacts DEF Creates, States
  <2>2. db' = db /\ TxnTypes
    BY <1>7 DEF Creates, Looks
  <2>3. target' \in [Session -> (Id \X Name) \cup {None}]
    BY <1>7 DEF Creates, TypeOK
  <2> QED
    BY <1>7, <2>1, <2>2, <2>3 DEF Creates, TxnTypes, TypeOK, BeforeOK
<1>8. ASSUME NEW s \in Session, NEW d \in Id, NEW n \in Name, Inserts(s, d, n)
      PROVE  TypeOK'
  <2>1. st' \in [Session -> States]
    BY <1>8, StepFacts DEF Inserts, States
  <2>2. db' = db /\ TxnTypes
    BY <1>8 DEF Inserts, Looks
  <2> QED
    BY <1>8, <2>1, <2>2 DEF Inserts, TxnTypes, TypeOK, BeforeOK
<1>9. ASSUME NEW s \in Session, NEW d \in Id, NEW n \in Name, Deletes(s, d, n)
      PROVE  TypeOK'
  <2>1. st' \in [Session -> States]
    BY <1>9, StepFacts DEF Deletes, States
  <2>2. db' = db /\ TxnTypes
    BY <1>9 DEF Deletes, Looks
  <2> QED
    BY <1>9, <2>1, <2>2 DEF Deletes, TxnTypes, TypeOK, BeforeOK
<1>10. ASSUME NEW s \in Session, NEW d \in Id, NEW n \in Name, NEW m \in Name,
              Renames(s, d, n, m)
       PROVE  TypeOK'
  <2>1. st' \in [Session -> States]
    BY <1>10, StepFacts DEF Renames, States
  <2>2. db' = db /\ TxnTypes
    BY <1>10 DEF Renames, Looks
  <2> QED
    BY <1>10, <2>1, <2>2 DEF Renames, TxnTypes, TypeOK, BeforeOK
<1> QED
  BY <1>1, <1>2, <1>3, <1>4, <1>5, <1>6, <1>7, <1>8, <1>9, <1>10 DEF Kinds

-----------------------------------------------------------------------------
(* CREATE DATABASE at every kind of step *)

(* a statement of s, in its own transaction *)
Works(s) ==
  \/ Uses(s) \/ Starts(s)
  \/ \E d \in Id : Copies(s, d)
  \/ \E d \in Id, n \in Name : Creates(s, d, n) \/ Inserts(s, d, n) \/ Deletes(s, d, n)
  \/ \E d \in Id, n \in Name, m \in Name : Renames(s, d, n, m)

OthersAlone(s) ==
  /\ db' = db /\ conn' = conn /\ touched' = touched /\ (blind => blind')
  /\ coll \subseteq coll' /\ used \subseteq used'
  /\ \A r \in Session \ {s} :
       /\ view'[r] = view[r] /\ wr'[r] = wr[r] /\ before'[r] = before[r]
       /\ late[r] \subseteq late'[r]
       /\ st'[r] = st[r] /\ target'[r] = target[r]

LEMMA WorksAlone ==
  ASSUME TypeOK, NEW s \in Session, Works(s)
  PROVE  OthersAlone(s)
<1>1. ASSUME NEW R, NEW W, Looks(s, R, W)
      PROVE  /\ db' = db
             /\ \A r \in Session \ {s} :
                  /\ view'[r] = view[r] /\ wr'[r] = wr[r] /\ before'[r] = before[r]
                  /\ late[r] \subseteq late'[r]
  BY <1>1 DEF Looks
<1>2. CASE Uses(s)
  <2>1. PICK R, W : Looks(s, R, W)
    BY <1>2 DEF Uses
  <2> QED
    BY <1>1, <1>2, <2>1 DEF Uses, OthersAlone
<1>3. CASE Starts(s)
  BY <1>3 DEF Starts, Begins, OthersAlone, TypeOK
<1>4. ASSUME NEW d \in Id, Copies(s, d)
      PROVE  OthersAlone(s)
  BY <1>4 DEF Copies, Begins, OthersAlone, TypeOK
<1>5. ASSUME NEW d \in Id, NEW n \in Name, Creates(s, d, n)
      PROVE  OthersAlone(s)
  <2>1. PICK R : Looks(s, R, {RecKey(d)})
    BY <1>5 DEF Creates
  <2>2. \A r \in Session \ {s} : st'[r] = st[r] /\ target'[r] = target[r]
    BY <1>5 DEF Creates, TypeOK
  <2> QED
    BY <1>1, <1>5, <2>1, <2>2 DEF Creates, OthersAlone
<1>6. ASSUME NEW d \in Id, NEW n \in Name, Inserts(s, d, n)
      PROVE  OthersAlone(s)
  <2>1. Looks(s, AllIdx, {RowKey(d), IdxKey(n)})
    BY <1>6 DEF Inserts
  <2> QED
    BY <1>1, <1>6, <2>1 DEF Inserts, OthersAlone, TypeOK
<1>7. ASSUME NEW d \in Id, NEW n \in Name, Deletes(s, d, n)
      PROVE  OthersAlone(s)
  <2>1. PICK R, W : Looks(s, R, W)
    BY <1>7 DEF Deletes
  <2> QED
    BY <1>1, <1>7, <2>1 DEF Deletes, OthersAlone, TypeOK
<1>8. ASSUME NEW d \in Id, NEW n \in Name, NEW m \in Name, Renames(s, d, n, m)
      PROVE  OthersAlone(s)
  <2>1. PICK R, W : Looks(s, R, W)
    BY <1>8 DEF Renames
  <2> QED
    BY <1>1, <1>8, <2>1 DEF Renames, OthersAlone, TypeOK
<1> QED
  BY <1>2, <1>3, <1>4, <1>5, <1>6, <1>7, <1>8 DEF Works

(* the five sorts of steps the invariants tell apart *)
LEMMA KindsAre ==
  ASSUME Kinds
  PROVE  \/ \E S \in SUBSET Session : GivesUp(S)
         \/ \E s \in Session : Works(s)
         \/ \E s \in Session : Half(s)
         \/ \E s \in Session : Settles(s)
BY DEF Kinds, Works

LEMMA TargetsStep ==
  ASSUME IInv, Kinds
  PROVE  Targets'
<1> USE DEF IInv
<1>1. ASSUME NEW S \in SUBSET Session, GivesUp(S)
      PROVE  Targets'
  <2>1. /\ \A s \in S : st'[s] = "idle" /\ target'[s] = None
        /\ \A s \in Session \ S : st'[s] = st[s] /\ target'[s] = target[s]
        /\ used \subseteq used' /\ coll' = coll
    BY <1>1, LeaveFacts DEF GivesUp
  <2>2. \A s \in Session, d \in Id : Names(s, d)' => s \notin S /\ Names(s, d)
    BY <2>1, PairNotNone DEF Names
  <2> QED
    BY <2>1, <2>2 DEF Targets
<1>2. ASSUME NEW s \in Session, Works(s)
      PROVE  Targets'
  <2> DEFINE OK(r, x, t) == /\ x \in {"idle", "open", "block"} => t = None
                            /\ x \in {"named", "between", "copied"} => t # None
  <2>1. OthersAlone(s)
    BY <1>2, WorksAlone
  <2>2. CASE target'[s] = target[s] /\ OK(s, st'[s], target[s])
    <3>1. \A r \in Session : target'[r] = target[r]
      BY <2>1, <2>2 DEF OthersAlone
    <3>2. \A r \in Session, d \in Id : Names(r, d)' <=> Names(r, d)
      BY <3>1 DEF Names
    <3> QED
      BY <2>1, <2>2, <3>1, <3>2 DEF Targets, OthersAlone
  <2>3. CASE Uses(s) \/ Starts(s)
    <3>1. target'[s] = target[s] /\ st[s] \in {"idle", "open", "block"}
          /\ st'[s] \in {"open", "block"}
      BY <2>3 DEF Uses, Starts, TypeOK
    <3> QED
      BY <2>2, <3>1 DEF Targets
  <2>4. ASSUME NEW d \in Id, Copies(s, d)
        PROVE  Targets'
    <3>1. target'[s] = target[s] /\ st[s] = "between" /\ st'[s] = "copied"
      BY <2>4 DEF Copies, TypeOK
    <3> QED
      BY <2>2, <3>1 DEF Targets
  <2>5. ASSUME NEW d \in Id, NEW n \in Name, Creates(s, d, n)
        PROVE  Targets'
    <3>1. /\ target'[s] = <<d, n>> /\ st'[s] = "named" /\ d \notin used
          /\ d \in used' /\ d \in coll'
      BY <2>5 DEF Creates, TypeOK
    <3>2. \A e \in Id : Names(s, e)' <=> e = d
      BY <3>1 DEF Names
    <3>3. \A r \in Session \ {s}, e \in Id : Names(r, e)' <=> Names(r, e)
      BY <2>1 DEF Names, OthersAlone
    <3>4. target'[s] # None
      BY <3>1, PairNotNone
    <3>5. ASSUME NEW r \in Session, r # s
          PROVE  /\ st'[r] \in {"idle", "open", "block"} => target'[r] = None
                 /\ st'[r] \in {"named", "between", "copied"} => target'[r] # None
                 /\ \A e \in Id : Names(r, e)' =>
                      /\ e \in used' /\ e \in coll'
                      /\ \A q \in Session \ {r} : ~Names(q, e)'
      BY <2>1, <3>1, <3>2, <3>3, <3>5 DEF Targets, OthersAlone
    <3>6. \A r \in Session \ {s} : ~Names(r, d)
      BY <3>1 DEF Targets
    <3> QED
      BY <3>1, <3>2, <3>3, <3>4, <3>5, <3>6 DEF Targets
  <2>6. ASSUME NEW d \in Id, NEW n \in Name, Inserts(s, d, n)
        PROVE  Targets'
    <3>1. target'[s] = target[s] /\ st'[s] = "done"
      BY <2>6 DEF Inserts, TypeOK
    <3> QED
      BY <2>2, <3>1
  <2>7. ASSUME NEW d \in Id, NEW n \in Name, Deletes(s, d, n)
        PROVE  Targets'
    <3>1. target'[s] = target[s] /\ st'[s] = "done"
      BY <2>7 DEF Deletes, TypeOK
    <3> QED
      BY <2>2, <3>1
  <2>8. ASSUME NEW d \in Id, NEW n \in Name, NEW m \in Name, Renames(s, d, n, m)
        PROVE  Targets'
    <3>1. target'[s] = target[s] /\ st[s] \in {"open", "block"} /\ st'[s] = "block"
      BY <2>8 DEF Renames, TypeOK
    <3> QED
      BY <2>2, <3>1 DEF Targets
  <2> QED
    BY <1>2, <2>3, <2>4, <2>5, <2>6, <2>7, <2>8 DEF Works
<1>3. ASSUME NEW s \in Session, Half(s)
      PROVE  Targets'
  <2>1. /\ target' = target /\ used' = used /\ coll' = coll /\ st[s] = "named"
        /\ st'[s] = "between" /\ \A r \in Session \ {s} : st'[r] = st[r]
    BY <1>3 DEF Half, TypeOK
  <2>2. \A r \in Session, d \in Id : Names(r, d)' <=> Names(r, d)
    BY <2>1 DEF Names
  <2> QED
    BY <2>1, <2>2 DEF Targets
<1>4. ASSUME NEW s \in Session, Settles(s)
      PROVE  Targets'
  <2>1. /\ st'[s] = "idle" /\ target'[s] = None
        /\ \A r \in Session \ {s} : st'[r] = st[r] /\ target'[r] = target[r]
        /\ used' = used /\ coll' = coll
    BY <1>4, LeaveFacts DEF Settles
  <2>2. \A r \in Session, d \in Id : Names(r, d)' => r # s /\ Names(r, d)
    BY <2>1, PairNotNone DEF Names
  <2> QED
    BY <2>1, <2>2 DEF Targets
<1> QED
  BY KindsAre, <1>1, <1>2, <1>3, <1>4

(* what the commit of s leaves of the others *)
LEMMA CommitsOthers ==
  ASSUME NEW s \in Session, Commits(s), NEW r \in Session \ {s}, NEW d \in Id
  PROVE  /\ wr'[r] = wr[r] /\ before'[r] = before[r] \ {s} /\ late[r] \subseteq late'[r]
         /\ RowKey(d) \notin wr[s] => view'[r].row[d] = view[r].row[d]
         /\ RecKey(d) \notin wr[s] => view'[r].rec[d] = view[r].rec[d]
         /\ s \notin before[r] => view'[r] = view[r]
         /\ s \in before[r] /\ RowKey(d) \in wr[s] => view'[r].row[d] = view[s].row[d]
         /\ s \in before[r] /\ RecKey(d) \in wr[s] => view'[r].rec[d] = view[s].rec[d]
<1>1. /\ wr'[r] = wr[r] /\ before'[r] = before[r] \ {s} /\ late[r] \subseteq late'[r]
      /\ s \notin before[r] => view'[r] = view[r]
  BY DEF Commits
<1>2. CASE s \in before[r]
  <2>1. /\ view'[r].row[d] =
             IF RowKey(d) \in wr[s] THEN view[s].row[d] ELSE view[r].row[d]
        /\ view'[r].rec[d] =
             IF RecKey(d) \in wr[s] THEN view[s].rec[d] ELSE view[r].rec[d]
    BY <1>2 DEF Commits
  <2> QED
    BY <1>1, <1>2, <2>1
<1> QED
  BY <1>1, <1>2

LEMMA UnusedStep ==
  ASSUME IInv, Kinds
  PROVE  Unused'
<1> USE DEF IInv
<1> DEFINE Blank(r, d) == /\ RowKey(d) \notin wr'[r] /\ RecKey(d) \notin wr'[r]
                          /\ view'[r].row[d] = None /\ view'[r].rec[d] = None
<1>1. ASSUME NEW S \in SUBSET Session, GivesUp(S)
      PROVE  Unused'
  <2>1. db' = db /\ used \subseteq used'
    BY <1>1 DEF GivesUp, Quits
  <2>2. \A r \in Session : \/ view'[r] = Empty /\ wr'[r] = {}
                           \/ view'[r] = view[r] /\ wr'[r] = wr[r]
    BY <1>1 DEF GivesUp, Quits
  <2> QED
    BY <2>1, <2>2, EmptyFacts DEF Unused
<1>2. ASSUME NEW s \in Session, Works(s)
      PROVE  Unused'
  <2>1. OthersAlone(s)
    BY <1>2, WorksAlone
  <2>2. ASSUME \A d \in Id \ used' : Blank(s, d)
        PROVE  Unused'
    <3>1. \A d \in Id \ used' : d \notin used
      BY <2>1 DEF OthersAlone
    <3> QED
      BY <2>1, <2>2, <3>1 DEF Unused, OthersAlone
  <2>3. CASE Starts(s) \/ \E d \in Id : Copies(s, d)
    <3>1. /\ used' = used
          /\ \A d \in Id : /\ RowKey(d) \notin wr'[s] /\ RecKey(d) \notin wr'[s]
                           /\ view'[s].row[d] = db.row[d] /\ view'[s].rec[d] = db.rec[d]
      BY <2>3 DEF Starts, Copies, Begins
    <3> QED
      BY <2>2, <3>1 DEF Unused
  <2>4. CASE Uses(s)
    <3>1. PICK R, W : /\ Looks(s, R, W)
                      /\ W = {} \/ \E d \in Id : W = {RecKey(d)} /\ view[s].rec[d] # None
      BY <2>4 DEF Uses
    <3>2. used' = used /\ view'[s] = view[s] /\ wr'[s] = wr[s] \cup W
      BY <2>4, <3>1 DEF Uses, Looks
    <3>3. \A d \in Id \ used : RowKey(d) \notin W /\ RecKey(d) \notin W
      BY <3>1, KeyFacts DEF Unused
    <3> QED
      BY <2>2, <3>2, <3>3 DEF Unused
  <2>5. ASSUME NEW R, NEW W, Looks(s, R, W),
               \A d \in Id \ used' : RowKey(d) \notin W /\ RecKey(d) \notin W
        PROVE  Unused'
    <3>1. \A d \in Id \ used' : d \notin used
      BY <2>1 DEF OthersAlone
    <3> QED
      BY <2>2, <2>5, <3>1 DEF Looks, Unused
  <2>6. ASSUME NEW d \in Id, NEW n \in Name, Creates(s, d, n)
        PROVE  Unused'
    <3>1. (\E R : Looks(s, R, {RecKey(d)})) /\ used' = used \cup {d}
      BY <2>6 DEF Creates
    <3>2. \A e \in Id \ used' : RowKey(e) \notin {RecKey(d)} /\ RecKey(e) \notin {RecKey(d)}
      BY <3>1, KeyFacts
    <3> QED
      BY <2>5, <3>1, <3>2
  <2>7. ASSUME NEW d \in Id, NEW n \in Name, Inserts(s, d, n)
        PROVE  Unused'
    <3>1. /\ Looks(s, AllIdx, {RowKey(d), IdxKey(n)})
          /\ used' = used /\ target[s] = <<d, n>>
      BY <2>7 DEF Inserts
    <3>2. d \in used
      BY <3>1 DEF Targets, Names
    <3>3. \A e \in Id \ used' : /\ RowKey(e) \notin {RowKey(d), IdxKey(n)}
                                /\ RecKey(e) \notin {RowKey(d), IdxKey(n)}
      BY <3>1, <3>2, KeyFacts
    <3> QED
      BY <2>5, <3>1, <3>3
  <2>8. ASSUME NEW d \in Id, NEW n \in Name, Deletes(s, d, n)
        PROVE  Unused'
    <3>1. PICK R, W : /\ Looks(s, R, W)
                      /\ \A e \in Id \ {d} : RowKey(e) \notin W /\ RecKey(e) \notin W
      BY <2>8 DEF Deletes
    <3>2. used' = used /\ d \in used
      BY <2>8 DEF Deletes, Unused
    <3> QED
      BY <2>5, <3>1, <3>2
  <2>9. ASSUME NEW d \in Id, NEW n \in Name, NEW m \in Name, Renames(s, d, n, m)
        PROVE  Unused'
    <3>1. PICK R, W : /\ Looks(s, R, W)
                      /\ \A e \in Id \ {d} : RowKey(e) \notin W
                      /\ \A e \in Id : RecKey(e) \notin W
      BY <2>9 DEF Renames
    <3>2. used' = used /\ view[s].row[d] = n
      BY <2>9 DEF Renames
    <3>3. d \in used
      BY <3>2, DatabasesAssumption DEF Unused
    <3> QED
      BY <2>5, <3>1, <3>2, <3>3
  <2> QED
    BY <1>2, <2>3, <2>4, <2>6, <2>7, <2>8, <2>9 DEF Works
<1>3. ASSUME NEW s \in Session, Commits(s), used' = used
      PROVE  Unused'
  <2> SUFFICES ASSUME NEW d \in Id \ used
               PROVE  /\ db'.row[d] = None /\ db'.rec[d] = None
                      /\ \A r \in Session : Blank(r, d)
    BY <1>3 DEF Unused
  <2>1. db'.row[d] = None /\ db'.rec[d] = None
    BY <1>3 DEF Unused, Commits
  <2>2. Blank(s, d)
    BY <1>3, EmptyFacts DEF Commits
  <2>3. ASSUME NEW r \in Session \ {s}
        PROVE  Blank(r, d)
    BY <1>3, CommitsOthers DEF Unused
  <2> QED
    BY <2>1, <2>2, <2>3
<1> QED
  BY KindsAre, <1>1, <1>2, <1>3 DEF Half, Settles

(* no row is written before the last step *)
LEMMA NoRowYet ==
  ASSUME RowWrites, NEW s \in Session, st[s] \notin {"block", "done"}
  PROVE  \A d \in Id : RowKey(d) \notin wr[s]
BY DEF RowWrites, Renaming, Dropping

LEMMA HiddenStep ==
  ASSUME IInv, Kinds
  PROVE  Hidden'
<1> USE DEF IInv
<1>1. ASSUME NEW S \in SUBSET Session, GivesUp(S)
      PROVE  Hidden'
  <2>1. db' = db
    BY <1>1 DEF GivesUp, Quits
  <2>2. \A r \in Session : \/ view'[r] = Empty /\ wr'[r] = {}
                           \/ view'[r] = view[r] /\ wr'[r] = wr[r]
    BY <1>1 DEF GivesUp, Quits
  <2>3. /\ \A s \in S : target'[s] = None
        /\ \A s \in Session \ S : target'[s] = target[s]
    BY <1>1, LeaveFacts DEF GivesUp
  <2>4. \A s \in Session, d \in Id : Names(s, d)' => Names(s, d)
    BY <2>3, PairNotNone DEF Names
  <2> QED
    BY <2>1, <2>2, <2>4, EmptyFacts DEF Hidden
<1>2. ASSUME NEW s \in Session, Works(s)
      PROVE  Hidden'
  <2>1. OthersAlone(s)
    BY <1>2, WorksAlone
  <2>2. ASSUME target'[s] = target[s],
               \A r \in Session \ {s}, d \in Id : Names(r, d) =>
                 RowKey(d) \notin wr'[s] /\ view'[s].row[d] = None
        PROVE  Hidden'
    <3>1. \A r \in Session, d \in Id : Names(r, d)' <=> Names(r, d)
      BY <2>1, <2>2 DEF OthersAlone, Names
    <3> QED
      BY <2>1, <2>2, <3>1 DEF Hidden, OthersAlone
  <2>3. CASE Starts(s) \/ \E d \in Id : Copies(s, d)
    <3>1. /\ target'[s] = target[s]
          /\ \A d \in Id : RowKey(d) \notin wr'[s] /\ view'[s].row[d] = db.row[d]
      BY <2>3 DEF Starts, Copies, Begins
    <3> QED
      BY <2>2, <3>1 DEF Hidden
  <2>4. CASE Uses(s)
    <3>1. PICK R, W : /\ Looks(s, R, W)
                      /\ W = {} \/ \E d \in Id : W = {RecKey(d)} /\ view[s].rec[d] # None
      BY <2>4 DEF Uses
    <3>2. target'[s] = target[s] /\ view'[s] = view[s] /\ wr'[s] = wr[s] \cup W
      BY <2>4, <3>1 DEF Uses, Looks
    <3>3. \A d \in Id : RowKey(d) \notin W
      BY <3>1, KeyFacts
    <3> QED
      BY <2>2, <3>2, <3>3 DEF Hidden
  <2>5. ASSUME NEW R, NEW W, Looks(s, R, W), target'[s] = target[s],
               \A r \in Session \ {s}, d \in Id : Names(r, d) => RowKey(d) \notin W
        PROVE  Hidden'
    <3>1. ASSUME NEW r \in Session \ {s}, NEW d \in Id, Names(r, d)
          PROVE  RowKey(d) \notin wr'[s] /\ view'[s].row[d] = None
      BY <2>5, <3>1 DEF Looks, Hidden
    <3> QED
      BY <2>2, <2>5, <3>1
  <2>6. ASSUME NEW d \in Id, NEW n \in Name, Creates(s, d, n)
        PROVE  Hidden'
    <3>1. PICK R : Looks(s, R, {RecKey(d)})
      BY <2>6 DEF Creates
    <3>2. /\ d \notin used /\ target'[s] = <<d, n>>
      BY <2>6 DEF Creates, TypeOK
    <3>3. /\ \A e \in Id : RowKey(e) \notin wr[s] => RowKey(e) \notin wr'[s]
          /\ \A e \in Id : view'[s].row[e] = view[s].row[e]
      BY <3>1, KeyFacts DEF Looks
    <3>4. \A e \in Id : Names(s, e)' <=> e = d
      BY <3>2 DEF Names
    <3>5. \A r \in Session \ {s}, e \in Id : Names(r, e)' <=> Names(r, e)
      BY <2>1 DEF Names, OthersAlone
    <3>6. ASSUME NEW r \in Session \ {s}, NEW e \in Id, Names(r, e)
          PROVE  /\ db'.row[e] = None
                 /\ \A q \in Session \ {r} : RowKey(e) \notin wr'[q] /\ view'[q].row[e] = None
      BY <2>1, <3>3, <3>6 DEF Hidden, OthersAlone
    <3>7. /\ db'.row[d] = None
          /\ \A q \in Session \ {s} : RowKey(d) \notin wr'[q] /\ view'[q].row[d] = None
      BY <2>1, <3>2 DEF Unused, OthersAlone
    <3> QED
      BY <3>4, <3>5, <3>6, <3>7 DEF Hidden
  <2>7. ASSUME NEW d \in Id, NEW n \in Name, Inserts(s, d, n)
        PROVE  Hidden'
    <3>1. /\ Looks(s, AllIdx, {RowKey(d), IdxKey(n)})
          /\ target[s] = <<d, n>> /\ target'[s] = target[s]
      BY <2>7 DEF Inserts
    <3>2. \A r \in Session \ {s} : ~Names(r, d)
      BY <3>1 DEF Targets, Names
    <3>3. \A r \in Session \ {s}, e \in Id : Names(r, e) => RowKey(e) \notin {RowKey(d), IdxKey(n)}
      BY <3>2, KeyFacts
    <3> QED
      BY <2>5, <3>1, <3>3
  <2>8. ASSUME NEW d \in Id, NEW n \in Name, Deletes(s, d, n)
        PROVE  Hidden'
    <3>1. PICK R, W : Looks(s, R, W) /\ \A e \in Id \ {d} : RowKey(e) \notin W
      BY <2>8 DEF Deletes
    <3>2. target' = target /\ view[s].row[d] = n
      BY <2>8 DEF Deletes
    <3>3. \A r \in Session \ {s} : ~Names(r, d)
      BY <3>2, DatabasesAssumption DEF Hidden
    <3> QED
      BY <2>5, <3>1, <3>2, <3>3
  <2>9. ASSUME NEW d \in Id, NEW n \in Name, NEW m \in Name, Renames(s, d, n, m)
        PROVE  Hidden'
    <3>1. PICK R, W : Looks(s, R, W) /\ \A e \in Id \ {d} : RowKey(e) \notin W
      BY <2>9 DEF Renames
    <3>2. target' = target /\ view[s].row[d] = n
      BY <2>9 DEF Renames
    <3>3. \A r \in Session \ {s} : ~Names(r, d)
      BY <3>2, DatabasesAssumption DEF Hidden
    <3> QED
      BY <2>5, <3>1, <3>2, <3>3
  <2> QED
    BY <1>2, <2>3, <2>4, <2>6, <2>7, <2>8, <2>9 DEF Works
<1>3. ASSUME NEW s \in Session, Commits(s),
             \A r \in Session, d \in Id :
               Names(r, d)' => Names(r, d) /\ RowKey(d) \notin wr[s]
      PROVE  Hidden'
  <2>1. ASSUME NEW r \in Session, NEW d \in Id, Names(r, d)'
        PROVE  /\ db'.row[d] = None
               /\ \A q \in Session \ {r} : RowKey(d) \notin wr'[q] /\ view'[q].row[d] = None
    <3>1. Names(r, d) /\ RowKey(d) \notin wr[s]
      BY <1>3, <2>1
    <3>2. db'.row[d] = None
      BY <1>3, <3>1 DEF Commits, Hidden
    <3>3. ASSUME NEW q \in Session \ {s}
          PROVE  wr'[q] = wr[q] /\ view'[q].row[d] = view[q].row[d]
      BY <1>3, <3>1, CommitsOthers
    <3>4. wr'[s] = {} /\ view'[s].row[d] = None
      BY <1>3, EmptyFacts DEF Commits
    <3> QED
      BY <3>1, <3>2, <3>3, <3>4 DEF Hidden
  <2> QED
    BY <2>1 DEF Hidden
<1>4. ASSUME NEW s \in Session, Half(s)
      PROVE  Hidden'
  <2>1. Commits(s) /\ target' = target /\ st[s] = "named"
    BY <1>4 DEF Half
  <2>2. \A d \in Id : RowKey(d) \notin wr[s]
    BY <2>1, NoRowYet
  <2>3. \A r \in Session, d \in Id : Names(r, d)' => Names(r, d)
    BY <2>1 DEF Names
  <2> QED
    BY <1>3, <2>1, <2>2, <2>3
<1>5. ASSUME NEW s \in Session, Settles(s)
      PROVE  Hidden'
  <2>1. /\ target'[s] = None
        /\ \A r \in Session \ {s} : target'[r] = target[r]
    BY <1>5, LeaveFacts DEF Settles
  <2>2. \A r \in Session, d \in Id : Names(r, d)' => r # s /\ Names(r, d)
    BY <2>1, PairNotNone DEF Names
  <2>3. \A r \in Session, d \in Id : Names(r, d)' => RowKey(d) \notin wr[s]
    BY <2>2 DEF Hidden
  <2> QED
    BY <1>3, <1>5, <2>2, <2>3 DEF Settles
<1> QED
  BY KindsAre, <1>1, <1>2, <1>4, <1>5

(* what a commit does to a row and to a record *)
LEMMA CommitsRow ==
  ASSUME IInv, NEW s \in Session, Commits(s), NEW d \in Id
  PROVE  \/ RowKey(d) \notin wr[s] /\ db'.row[d] = db.row[d]
         \/ /\ RowKey(d) \in wr[s] /\ st[s] = "done" /\ db.row[d] = None
            /\ \E n \in Name : target[s] = <<d, n>> /\ db'.row[d] = n
         \/ RowKey(d) \in wr[s] /\ Renaming(s, d) /\ db'.row[d] = view[s].row[d]
         \/ RowKey(d) \in wr[s] /\ Dropping(s, d) /\ db'.row[d] = None
<1>1. db'.row[d] = IF RowKey(d) \in wr[s] THEN view[s].row[d] ELSE db.row[d]
  BY DEF Commits
<1>2. CASE RowKey(d) \notin wr[s]
  BY <1>1, <1>2
<1>3. CASE RowKey(d) \in wr[s] /\ st[s] = "done" /\ Names(s, d)
  <2>1. PICK n \in Name : target[s] = <<d, n>>
    BY <1>3 DEF Names
  <2>2. view[s].row[d] = n
    BY <1>3, <2>1 DEF IInv, Stages
  <2>3. db.row[d] = None
    BY <1>3 DEF IInv, Hidden
  <2> QED
    BY <1>1, <1>3, <2>1, <2>2, <2>3
<1>4. CASE RowKey(d) \in wr[s] /\ Renaming(s, d)
  BY <1>1, <1>4
<1>5. CASE RowKey(d) \in wr[s] /\ Dropping(s, d)
  BY <1>1, <1>5 DEF Dropping
<1> QED
  BY <1>2, <1>3, <1>4, <1>5 DEF IInv, RowWrites

LEMMA CommitsRec ==
  ASSUME IInv, NEW s \in Session, Commits(s), NEW d \in Id
  PROVE  \/ RecKey(d) \notin wr[s] /\ db'.rec[d] = db.rec[d]
         \/ RecKey(d) \in wr[s] /\ db'.rec[d] = db.rec[d] /\ view[s].rec[d] = db.rec[d]
         \/ /\ RecKey(d) \in wr[s] /\ st[s] = "named" /\ db.row[d] = None
            /\ \E n \in Name : target[s] = <<d, n>> /\ db'.rec[d] = n
         \/ RecKey(d) \in wr[s] /\ Dropping(s, d) /\ db'.rec[d] = None
<1>1. db'.rec[d] = IF RecKey(d) \in wr[s] THEN view[s].rec[d] ELSE db.rec[d]
  BY DEF Commits
<1>2. CASE RecKey(d) \notin wr[s]
  BY <1>1, <1>2
<1>3. CASE RecKey(d) \in wr[s] /\ st[s] = "named" /\ Names(s, d)
  <2>1. PICK n \in Name : target[s] = <<d, n>>
    BY <1>3 DEF Names
  <2>2. view[s].rec[d] = n
    BY <1>3, <2>1 DEF IInv, Stages
  <2>3. db.row[d] = None
    BY <1>3 DEF IInv, Hidden
  <2> QED
    BY <1>1, <1>3, <2>1, <2>2, <2>3
<1>4. CASE RecKey(d) \in wr[s] /\ view[s].rec[d] = db.rec[d]
  BY <1>1, <1>4
<1>5. CASE RecKey(d) \in wr[s] /\ Dropping(s, d)
  BY <1>1, <1>5 DEF Dropping
<1> QED
  BY <1>2, <1>3, <1>4, <1>5 DEF IInv, RecWrites

(* the stage of s in CREATE DATABASE, from what it has *)
StageOK(x, t, v, w, b) ==
  \A d \in Id, n \in Name : t = <<d, n>> =>
    /\ x = "named" => RecKey(d) \in w /\ v.rec[d] = n /\ b.rec[d] = None
    /\ x # "named" => b.rec[d] = n /\ \A e \in Id : RecKey(e) \notin w
    /\ x \in {"copied", "done"} => TabKey(d) \in w
    /\ x = "done" => RowKey(d) \in w /\ v.row[d] = n

LEMMA StagesAre ==
  /\ Stages <=> \A s \in Session : StageOK(st[s], target[s], view[s], wr[s], db)
  /\ Stages' <=> \A s \in Session : StageOK(st'[s], target'[s], view'[s], wr'[s], db')
BY DEF Stages, StageOK

LEMMA StagesStep ==
  ASSUME IInv, Kinds
  PROVE  Stages'
<1> USE DEF IInv
<1> DEFINE OK(r) == StageOK(st'[r], target'[r], view'[r], wr'[r], db')
<1>0. ASSUME NEW r, target'[r] = None
      PROVE  OK(r)
  BY <1>0, PairNotNone DEF StageOK
<1>1. ASSUME NEW S \in SUBSET Session, GivesUp(S)
      PROVE  Stages'
  <2>1. /\ \A s \in S : target'[s] = None
        /\ \A s \in Session \ S : target'[s] = target[s] /\ st'[s] = st[s]
    BY <1>1, LeaveFacts DEF GivesUp
  <2>2. db' = db /\ \A s \in Session \ S : view'[s] = view[s] /\ wr'[s] = wr[s]
    BY <1>1 DEF GivesUp, Quits
  <2> QED
    BY <1>0, <2>1, <2>2, StagesAre
<1>2. ASSUME NEW s \in Session, Works(s)
      PROVE  Stages'
  <2>1. OthersAlone(s)
    BY <1>2, WorksAlone
  <2>2. ASSUME OK(s)
        PROVE  Stages'
    BY <2>1, <2>2, StagesAre DEF OthersAlone
  <2>3. ASSUME st[s] \in {"idle", "open", "block"}, target'[s] = target[s]
        PROVE  Stages'
    BY <2>3, <2>2, <1>0 DEF Targets
  <2>4. CASE Starts(s) \/ Uses(s)
    BY <2>3, <2>4 DEF Starts, Uses
  <2>5. ASSUME NEW d \in Id, Copies(s, d)
        PROVE  Stages'
    <3>1. /\ st[s] = "between" /\ st'[s] = "copied" /\ target'[s] = target[s]
          /\ Names(s, d) /\ wr'[s] = {TabKey(d)} /\ db' = db
      BY <2>5 DEF Copies, Begins, TypeOK
    <3>2. \A e \in Id : RecKey(e) \notin wr'[s]
      BY <3>1, KeyFacts
    <3>3. PICK n \in Name : target[s] = <<d, n>>
      BY <3>1 DEF Names
    <3>4. db.rec[d] = n
      BY <3>1, <3>3 DEF Stages
    <3>5. \A e \in Id, m \in Name : target'[s] = <<e, m>> => e = d /\ m = n
      BY <3>1, <3>3
    <3>6. OK(s)
      BY <3>1, <3>2, <3>4, <3>5 DEF StageOK
    <3> QED
      BY <2>2, <3>6
  <2>6. ASSUME NEW d \in Id, NEW n \in Name, Creates(s, d, n)
        PROVE  Stages'
    <3>1. PICK R : Looks(s, R, {RecKey(d)})
      BY <2>6 DEF Creates
    <3>2. /\ target'[s] = <<d, n>> /\ st'[s] = "named" /\ view'[s].rec[d] = n
          /\ RecKey(d) \in wr'[s] /\ db' = db /\ d \notin used
      BY <2>6, <3>1 DEF Creates, TypeOK, Looks
    <3>4. db'.rec[d] = None
      BY <3>2 DEF Unused
    <3>5. \A e \in Id, m \in Name : target'[s] = <<e, m>> => e = d /\ m = n
      BY <3>2
    <3>6. OK(s)
      BY <3>2, <3>4, <3>5 DEF StageOK
    <3> QED
      BY <2>2, <3>6
  <2>7. ASSUME NEW d \in Id, NEW n \in Name, Inserts(s, d, n)
        PROVE  Stages'
    <3>1. /\ target[s] = <<d, n>> /\ target'[s] = target[s] /\ st[s] = "copied"
          /\ st'[s] = "done" /\ view'[s].row[d] = n /\ db' = db
          /\ wr'[s] = wr[s] \cup {RowKey(d), IdxKey(n)}
      BY <2>7 DEF Inserts, TypeOK, Looks
    <3>2. \A e \in Id : RecKey(e) \notin {RowKey(d), IdxKey(n)}
      BY KeyFacts
    <3>3. \A e \in Id, m \in Name : target'[s] = <<e, m>> => e = d /\ m = n
      BY <3>1
    <3>4. db.rec[d] = n /\ TabKey(d) \in wr[s] /\ \A e \in Id : RecKey(e) \notin wr[s]
      BY <3>1 DEF Stages
    <3>6. OK(s)
      BY <3>1, <3>2, <3>3, <3>4 DEF StageOK
    <3> QED
      BY <2>2, <3>6
  <2>8. ASSUME NEW d \in Id, NEW n \in Name, Deletes(s, d, n)
        PROVE  Stages'
    BY <2>3, <2>8 DEF Deletes
  <2>9. ASSUME NEW d \in Id, NEW n \in Name, NEW m \in Name, Renames(s, d, n, m)
        PROVE  Stages'
    BY <2>3, <2>9 DEF Renames
  <2> QED
    BY <1>2, <2>4, <2>5, <2>6, <2>7, <2>8, <2>9 DEF Works
<1>3. ASSUME NEW s \in Session, Commits(s), NEW r \in Session \ {s},
             st'[r] = st[r], target'[r] = target[r]
      PROVE  OK(r)
  <2> SUFFICES ASSUME NEW d \in Id, NEW n \in Name, target[r] = <<d, n>>
               PROVE  /\ st[r] = "named" => /\ RecKey(d) \in wr'[r] /\ view'[r].rec[d] = n
                                            /\ db'.rec[d] = None
                      /\ st[r] # "named" => /\ db'.rec[d] = n
                                            /\ \A e \in Id : RecKey(e) \notin wr'[r]
                      /\ st[r] \in {"copied", "done"} => TabKey(d) \in wr'[r]
                      /\ st[r] = "done" => RowKey(d) \in wr'[r] /\ view'[r].row[d] = n
    BY <1>3 DEF StageOK
  <2>1. /\ wr'[r] = wr[r]
        /\ RowKey(d) \notin wr[s] => view'[r].row[d] = view[r].row[d]
        /\ RecKey(d) \notin wr[s] => view'[r].rec[d] = view[r].rec[d]
    BY <1>3, CommitsOthers
  <2>2. /\ RowKey(d) \in wr[r] => RowKey(d) \notin wr[s]
        /\ RecKey(d) \in wr[r] => RecKey(d) \notin wr[s]
    BY DEF Exclusive
  <2>3. Names(r, d)
    BY DEF Names
  <2>4. st[r] # "named" => db'.rec[d] = db.rec[d]
    <3>1. ~Names(s, d) /\ db.row[d] = None
      BY <2>3 DEF Targets, Hidden
    <3> QED
      BY <1>3, <3>1, CommitsRec DEF Names, Dropping
  <2>5. RecKey(d) \notin wr[s] => db'.rec[d] = db.rec[d]
    BY <1>3 DEF Commits
  <2> QED
    BY <2>1, <2>2, <2>4, <2>5 DEF Stages
<1>4. ASSUME NEW s \in Session, Half(s)
      PROVE  Stages'
  <2>1. /\ Commits(s) /\ target' = target /\ st[s] = "named" /\ st'[s] = "between"
        /\ \A r \in Session \ {s} : st'[r] = st[r]
    BY <1>4 DEF Half, TypeOK
  <2>2. wr'[s] = {}
    BY <2>1 DEF Commits
  <2>3. ASSUME NEW d \in Id, NEW n \in Name, target[s] = <<d, n>>
        PROVE  db'.rec[d] = n
    <3>1. RecKey(d) \in wr[s] /\ view[s].rec[d] = n
      BY <2>1, <2>3 DEF Stages
    <3> QED
      BY <2>1, <3>1 DEF Commits
  <2>4. OK(s)
    BY <2>1, <2>2, <2>3 DEF StageOK
  <2> QED
    BY <1>3, <2>1, <2>4, StagesAre
<1>5. ASSUME NEW s \in Session, Settles(s)
      PROVE  Stages'
  <2>1. /\ target'[s] = None
        /\ \A r \in Session \ {s} : target'[r] = target[r] /\ st'[r] = st[r]
    BY <1>5, LeaveFacts DEF Settles
  <2>2. Commits(s)
    BY <1>5 DEF Settles
  <2> QED
    BY <1>0, <1>3, <2>1, <2>2, StagesAre
<1> QED
  BY KindsAre, <1>1, <1>2, <1>4, <1>5

LEMMA TabOwnerStep ==
  ASSUME IInv, Kinds
  PROVE  TabOwner'
<1> USE DEF IInv
<1>1. ASSUME NEW S \in SUBSET Session, GivesUp(S)
      PROVE  TabOwner'
  <2>1. \A s \in Session \ S : target'[s] = target[s]
    BY <1>1, LeaveFacts DEF GivesUp
  <2>2. /\ \A s \in S : wr'[s] = {}
        /\ \A s \in Session \ S : wr'[s] = wr[s]
    BY <1>1 DEF GivesUp, Quits
  <2> QED
    BY <2>1, <2>2 DEF TabOwner, Names
<1>2. ASSUME NEW s \in Session, Works(s)
      PROVE  TabOwner'
  <2>1. OthersAlone(s)
    BY <1>2, WorksAlone
  <2>2. ASSUME \A d \in Id : TabKey(d) \in wr'[s] => Names(s, d)'
        PROVE  TabOwner'
    BY <2>1, <2>2 DEF TabOwner, OthersAlone, Names
  <2>3. ASSUME NEW R, NEW W, Looks(s, R, W), target'[s] = target[s],
               \A d \in Id : TabKey(d) \notin W
        PROVE  TabOwner'
    <3>1. wr'[s] = wr[s] \cup W
      BY <2>3 DEF Looks
    <3> QED
      BY <2>2, <2>3, <3>1 DEF TabOwner, Names
  <2>4. CASE Starts(s)
    BY <2>2, <2>4 DEF Starts, Begins
  <2>5. ASSUME NEW d \in Id, Copies(s, d)
        PROVE  TabOwner'
    <3>1. wr'[s] = {TabKey(d)} /\ Names(s, d)'
      BY <2>5 DEF Copies, Begins, Names
    <3> QED
      BY <2>2, <3>1, KeyFacts
  <2>6. CASE Uses(s)
    <3>1. PICK R, W : /\ Looks(s, R, W)
                      /\ W = {} \/ \E d \in Id : W = {RecKey(d)}
      BY <2>6 DEF Uses
    <3> QED
      BY <2>3, <2>6, <3>1, KeyFacts DEF Uses
  <2>7. ASSUME NEW d \in Id, NEW n \in Name, Creates(s, d, n)
        PROVE  TabOwner'
    <3>1. PICK R : Looks(s, R, {RecKey(d)})
      BY <2>7 DEF Creates
    <3>2. st[s] = "open" /\ wr'[s] = wr[s] \cup {RecKey(d)}
      BY <2>7, <3>1 DEF Creates, Looks
    <3>3. \A e \in Id : TabKey(e) \notin wr[s]
      BY <3>2, PairNotNone DEF TabOwner, Targets, Names
    <3> QED
      BY <2>2, <3>2, <3>3, KeyFacts
  <2>8. ASSUME NEW d \in Id, NEW n \in Name, Inserts(s, d, n)
        PROVE  TabOwner'
    <3>1. Looks(s, AllIdx, {RowKey(d), IdxKey(n)}) /\ target'[s] = target[s]
      BY <2>8 DEF Inserts
    <3>2. \A e \in Id : TabKey(e) \notin {RowKey(d), IdxKey(n)}
      BY KeyFacts
    <3> QED
      BY <2>3, <3>1, <3>2
  <2>9. ASSUME NEW d \in Id, NEW n \in Name, Deletes(s, d, n)
        PROVE  TabOwner'
    <3>1. PICK R, W : Looks(s, R, W) /\ \A e \in Id : TabKey(e) \notin W
      BY <2>9 DEF Deletes
    <3> QED
      BY <2>3, <2>9, <3>1 DEF Deletes
  <2>10. ASSUME NEW d \in Id, NEW n \in Name, NEW m \in Name, Renames(s, d, n, m)
         PROVE  TabOwner'
    <3>1. PICK R, W : Looks(s, R, W) /\ \A e \in Id : TabKey(e) \notin W
      BY <2>10 DEF Renames
    <3> QED
      BY <2>3, <2>10, <3>1 DEF Renames
  <2> QED
    BY <1>2, <2>4, <2>5, <2>6, <2>7, <2>8, <2>9, <2>10 DEF Works
<1>3. ASSUME NEW s \in Session, Commits(s), \A r \in Session \ {s} : target'[r] = target[r]
      PROVE  TabOwner'
  <2>1. wr'[s] = {} /\ \A r \in Session \ {s} : wr'[r] = wr[r]
    BY <1>3 DEF Commits
  <2> QED
    BY <1>3, <2>1 DEF TabOwner, Names
<1>4. ASSUME NEW s \in Session, Settles(s)
      PROVE  TabOwner'
  BY <1>3, <1>4, LeaveFacts DEF Settles
<1>5. ASSUME NEW s \in Session, Half(s)
      PROVE  TabOwner'
  BY <1>3, <1>5 DEF Half
<1> QED
  BY KindsAre, <1>1, <1>2, <1>4, <1>5

-----------------------------------------------------------------------------
(* What is written, at every kind of step *)

RowWrite(s, d) ==
  \/ st[s] = "done" /\ Names(s, d)
  \/ Renaming(s, d)
  \/ Dropping(s, d)

RecWrite(s, d) ==
  \/ view[s].rec[d] = db.rec[d] /\ db.rec[d] # None
  \/ st[s] = "named" /\ Names(s, d)
  \/ Dropping(s, d)

LEMMA WritesAre ==
  /\ RowWrites <=> \A s \in Session, d \in Id : RowKey(d) \in wr[s] => RowWrite(s, d)
  /\ RecWrites <=> \A s \in Session, d \in Id : RecKey(d) \in wr[s] => RecWrite(s, d)
BY DEF RowWrites, RecWrites, RowWrite, RecWrite

(* what s has written means the same as long as it and db stay the same *)
LEMMA WritesStay ==
  ASSUME NEW s \in Session, NEW d \in Id,
         st'[s] = st[s], target'[s] = target[s], wr'[s] = wr[s], conn'[s] = conn[s],
         view'[s].row[d] = view[s].row[d], view'[s].rec[d] = view[s].rec[d],
         db'.rec[d] = db.rec[d], RowKey(d) \in wr[s] => db'.row[d] = db.row[d]
  PROVE  /\ RowKey(d) \in wr[s] /\ RowWrite(s, d) => RowWrite(s, d)'
         /\ RecKey(d) \in wr[s] /\ RecWrite(s, d) => RecWrite(s, d)'
<1>1. Names(s, d)' <=> Names(s, d)
  BY DEF Names
<1>2. RowKey(d) \in wr[s] => (Renaming(s, d)' <=> Renaming(s, d))
  BY DEF Renaming
<1>3. RowKey(d) \in wr[s] => (Dropping(s, d)' <=> Dropping(s, d))
  BY DEF Dropping
<1>4. Dropping(s, d) => RowKey(d) \in wr[s]
  BY DEF Dropping
<1> QED
  BY <1>1, <1>2, <1>3, <1>4 DEF RowWrite, RecWrite

(* a record committed by another than its writer *)
LEMMA WritesOfOthers ==
  ASSUME IInv, NEW s \in Session, Commits(s), NEW r \in Session \ {s}, NEW d \in Id,
         st'[r] = st[r], target'[r] = target[r], conn'[r] = conn[r]
  PROVE  /\ RowKey(d) \in wr'[r] => RowWrite(r, d)'
         /\ RecKey(d) \in wr'[r] => RecWrite(r, d)'
<1>1. /\ wr'[r] = wr[r]
      /\ RowKey(d) \notin wr[s] => view'[r].row[d] = view[r].row[d] /\ db'.row[d] = db.row[d]
      /\ RecKey(d) \notin wr[s] => view'[r].rec[d] = view[r].rec[d] /\ db'.rec[d] = db.rec[d]
  BY CommitsOthers DEF Commits
<1>2. /\ RowKey(d) \in wr[r] => RowKey(d) \notin wr[s]
      /\ RecKey(d) \in wr[r] => RecKey(d) \notin wr[s]
  BY DEF IInv, Exclusive
<1>3. /\ RowKey(d) \in wr[r] => RowWrite(r, d)
      /\ RecKey(d) \in wr[r] => RecWrite(r, d)
  BY WritesAre DEF IInv
<1>4. Names(r, d)' <=> Names(r, d)
  BY DEF Names
<1>5. ASSUME RowKey(d) \in wr[r] PROVE RowWrite(r, d)'
  <2>1. /\ wr'[r] = wr[r] /\ view'[r].row[d] = view[r].row[d] /\ db'.row[d] = db.row[d]
    BY <1>1, <1>2, <1>5
  <2>2. Renaming(r, d) => Renaming(r, d)'
    BY <2>1 DEF Renaming
  <2>3. Dropping(r, d) => Dropping(r, d)'
    <3>1. Dropping(r, d) => view'[r].rec[d] = view[r].rec[d]
      BY <1>1, <1>2 DEF Dropping
    <3> QED
      BY <2>1, <3>1 DEF Dropping
  <2> QED
    BY <1>3, <1>4, <1>5, <2>2, <2>3 DEF RowWrite
<1>6. ASSUME RecKey(d) \in wr[r] PROVE RecWrite(r, d)'
  <2>1. view'[r].rec[d] = view[r].rec[d] /\ db'.rec[d] = db.rec[d]
    BY <1>1, <1>2, <1>6
  <2>2. Dropping(r, d) => Dropping(r, d)'
    <3>1. Dropping(r, d) => view'[r].row[d] = view[r].row[d] /\ db'.row[d] = db.row[d]
      BY <1>1, <1>2 DEF Dropping
    <3> QED
      BY <1>1, <2>1, <3>1 DEF Dropping
  <2> QED
    BY <1>3, <1>4, <1>6, <2>1, <2>2 DEF RecWrite
<1> QED
  BY <1>1, <1>5, <1>6

LEMMA WritesStep ==
  ASSUME IInv, Kinds
  PROVE  RowWrites' /\ RecWrites'
<1> USE DEF IInv
<1> DEFINE OK(r, d) == /\ RowKey(d) \in wr'[r] => RowWrite(r, d)'
                       /\ RecKey(d) \in wr'[r] => RecWrite(r, d)'
<1>0. ASSUME \A r \in Session, d \in Id : OK(r, d)
      PROVE  RowWrites' /\ RecWrites'
  BY <1>0 DEF RowWrites, RecWrites, RowWrite, RecWrite
<1>1. ASSUME NEW S \in SUBSET Session, GivesUp(S)
      PROVE  RowWrites' /\ RecWrites'
  <2>1. \A r \in Session \ S : target'[r] = target[r] /\ st'[r] = st[r]
    BY <1>1, LeaveFacts DEF GivesUp
  <2>2. db' = db /\ \A r \in Session \ S : view'[r] = view[r] /\ wr'[r] = wr[r]
    BY <1>1 DEF GivesUp, Quits
  <2>3. \A r \in Open \ S : conn'[r] = conn[r]
    BY <1>1 DEF GivesUp
  <2>4. \A r \in S : wr'[r] = {}
    BY <1>1 DEF GivesUp, Quits
  <2>5. ASSUME NEW r \in Session \ S, NEW d \in Id PROVE OK(r, d)
    <3>1. CASE r \in Open
      BY <2>1, <2>2, <2>3, <3>1, WritesStay, WritesAre
    <3>2. CASE r \notin Open
      <4>1. wr'[r] = {}
        BY <2>2, <3>2 DEF Closed
      <4> QED
        BY <4>1
    <3> QED
      BY <3>1, <3>2
  <2> QED
    BY <1>0, <2>4, <2>5
<1>2. ASSUME NEW s \in Session, Works(s)
      PROVE  RowWrites' /\ RecWrites'
  <2>1. OthersAlone(s)
    BY <1>2, WorksAlone
  <2>2. ASSUME \A d \in Id : OK(s, d)
        PROVE  RowWrites' /\ RecWrites'
    <3>1. ASSUME NEW r \in Session \ {s}, NEW d \in Id PROVE OK(r, d)
      BY <2>1, WritesStay, WritesAre DEF OthersAlone
    <3> QED
      BY <1>0, <2>2, <3>1
  <2>3. CASE Starts(s) \/ \E d \in Id : Copies(s, d)
    <3>1. \A d \in Id : RowKey(d) \notin wr'[s] /\ RecKey(d) \notin wr'[s]
      BY <2>3 DEF Starts, Copies, Begins
    <3> QED
      BY <2>2, <3>1
  <2>4. CASE Uses(s)
    <3>1. PICK R, W : /\ Looks(s, R, W)
                      /\ W = {} \/ \E d \in Id : W = {RecKey(d)} /\ view[s].rec[d] # None
      BY <2>4 DEF Uses
    <3>2. /\ view'[s] = view[s] /\ wr'[s] = wr[s] \cup W /\ db' = db /\ conn' = conn
          /\ target' = target /\ s \in Open
          /\ st[s] \in {"open", "block"} /\ st'[s] \in {st[s], "block"}
          /\ W \cap late[s] = {}
      BY <2>4, <3>1 DEF Uses, Looks, CanWrite
    <3>3. ASSUME NEW d \in Id, RowKey(d) \in wr'[s]
          PROVE  RowWrite(s, d)'
      <4>1. RowKey(d) \in wr[s]
        BY <3>1, <3>2, <3>3, KeyFacts
      <4>2. Renaming(s, d)
        BY <3>2, <4>1 DEF RowWrites, Dropping
      <4>3. Renaming(s, d)'
        BY <3>2, <4>2 DEF Renaming
      <4> QED
        BY <4>3 DEF RowWrite
    <3>4. ASSUME NEW d \in Id, RecKey(d) \in wr'[s]
          PROVE  RecWrite(s, d)'
      <4>1. CASE RecKey(d) \in wr[s]
        BY <3>2, <4>1 DEF RecWrites, Dropping, RecWrite
      <4>2. CASE RecKey(d) \notin wr[s]
        <5>1. RecKey(d) \in W /\ view[s].rec[d] # None
          BY <3>1, <3>2, <3>4, <4>2, KeyFacts
        <5>2. view[s].rec[d] = db.rec[d]
          BY <3>2, <4>2, <5>1 DEF Agree
        <5> QED
          BY <3>2, <5>1, <5>2 DEF RecWrite
      <4> QED
        BY <4>1, <4>2
    <3> QED
      BY <2>2, <3>3, <3>4
  <2>5. ASSUME NEW d \in Id, NEW n \in Name, Creates(s, d, n)
        PROVE  RowWrites' /\ RecWrites'
    <3>1. PICK R : Looks(s, R, {RecKey(d)})
      BY <2>5 DEF Creates
    <3>2. /\ st[s] = "open" /\ st'[s] = "named" /\ target'[s] = <<d, n>>
          /\ wr'[s] = wr[s] \cup {RecKey(d)} /\ db' = db
          /\ \A e \in Id \ {d} : view'[s].rec[e] = view[s].rec[e]
      BY <2>5, <3>1, KeyFacts DEF Creates, Looks, TypeOK
    <3>3. \A e \in Id : RowKey(e) \notin wr'[s]
      BY <3>2, NoRowYet, KeyFacts
    <3>4. RecWrite(s, d)'
      BY <3>2 DEF RecWrite, Names
    <3>5. ASSUME NEW e \in Id \ {d}, RecKey(e) \in wr'[s]
          PROVE  RecWrite(s, e)'
      <4>1. RecKey(e) \in wr[s]
        BY <3>2, <3>5, KeyFacts
      <4>2. view[s].rec[e] = db.rec[e] /\ db.rec[e] # None
        BY <3>2, <4>1 DEF RecWrites, Dropping
      <4> QED
        BY <3>2, <4>2 DEF RecWrite
    <3> QED
      BY <2>2, <3>3, <3>4, <3>5
  <2>6. ASSUME NEW d \in Id, NEW n \in Name, Inserts(s, d, n)
        PROVE  RowWrites' /\ RecWrites'
    <3>1. /\ target[s] = <<d, n>> /\ target'[s] = target[s] /\ st[s] = "copied"
          /\ st'[s] = "done"
          /\ wr'[s] = wr[s] \cup {RowKey(d), IdxKey(n)}
      BY <2>6 DEF Inserts, TypeOK, Looks
    <3>2. /\ \A e \in Id : RowKey(e) \notin wr[s]
          /\ \A e \in Id : RecKey(e) \notin wr[s]
      BY <3>1, NoRowYet DEF Stages
    <3>3. RowWrite(s, d)'
      BY <3>1 DEF RowWrite, Names
    <3>4. \A e \in Id : RecKey(e) \notin wr'[s] /\ (RowKey(e) \in wr'[s] => e = d)
      BY <3>1, <3>2, KeyFacts
    <3> QED
      BY <2>2, <3>3, <3>4
  <2>7. ASSUME NEW d \in Id, NEW n \in Name, Deletes(s, d, n)
        PROVE  RowWrites' /\ RecWrites'
    <3>1. PICK R, W : /\ Looks(s, R, W)
                      /\ RowKey(d) \in W /\ RecKey(d) \in W /\ IdxKey(n) \in W
                      /\ \A e \in Id \ {d} : RowKey(e) \notin W /\ RecKey(e) \notin W
      BY <2>7 DEF Deletes
    <3>2. /\ st[s] = "open" /\ st'[s] = "done" /\ target'[s] = target[s]
          /\ view[s].row[d] = n
          /\ view'[s].row[d] = None /\ view'[s].rec[d] = None
          /\ s \in Open
      BY <2>7, <3>1 DEF Deletes, TypeOK, Looks
    <3>3. /\ wr'[s] = wr[s] \cup W /\ db' = db /\ W \cap late[s] = {}
          /\ \A e \in Id \ {d} : view'[s].rec[e] = view[s].rec[e]
      BY <3>1 DEF Looks, CanWrite
    <3>4. \A e \in Id : RowKey(e) \notin wr[s]
      BY <3>2, NoRowYet
    <3>5. db.row[d] = n /\ n # None
      BY <3>1, <3>2, <3>3, <3>4, DatabasesAssumption DEF Agree
    <3>6. target[s] = None
      BY <3>2 DEF Targets
    <3>7. Dropping(s, d)'
      BY <3>1, <3>2, <3>3, <3>4, <3>5, <3>6 DEF Dropping
    <3>8. ASSUME NEW e \in Id \ {d}
          PROVE  OK(s, e)
      <4>1. RowKey(e) \notin wr'[s] /\ (RecKey(e) \in wr'[s] => RecKey(e) \in wr[s])
        BY <3>1, <3>3, <3>4
      <4>2. RecKey(e) \in wr[s] => view[s].rec[e] = db.rec[e] /\ db.rec[e] # None
        BY <3>2 DEF RecWrites, Dropping
      <4> QED
        BY <3>3, <4>1, <4>2 DEF RecWrite
    <3> QED
      BY <2>2, <3>7, <3>8 DEF RowWrite, RecWrite
  <2>8. ASSUME NEW d \in Id, NEW n \in Name, NEW m \in Name, Renames(s, d, n, m)
        PROVE  RowWrites' /\ RecWrites'
    <3>1. PICK R, W : /\ Looks(s, R, W)
                      /\ RowKey(d) \in W /\ IdxKey(n) \in W /\ IdxKey(m) \in W
                      /\ \A e \in Id \ {d} : RowKey(e) \notin W
                      /\ \A e \in Id : RecKey(e) \notin W
      BY <2>8 DEF Renames
    <3>2. /\ st[s] \in {"open", "block"} /\ st'[s] = "block" /\ conn' = conn
          /\ view[s].row[d] = n /\ view'[s].row[d] = m /\ d # conn[s]
          /\ s \in Open
      BY <2>8, <3>1 DEF Renames, TypeOK, Looks
    <3>3. /\ wr'[s] = wr[s] \cup W /\ db' = db /\ W \cap late[s] = {}
          /\ \A e \in Id : view'[s].rec[e] = view[s].rec[e]
          /\ \A e \in Id \ {d} : view'[s].row[e] = view[s].row[e]
      BY <3>1 DEF Looks, CanWrite
    <3>4. \A e \in Id : RowKey(e) \in wr[s] => Renaming(s, e)
      BY <3>2 DEF RowWrites, Dropping
    <3>5. db.row[d] # None /\ IdxKey(db.row[d]) \in wr'[s]
      <4>1. CASE RowKey(d) \in wr[s]
        BY <3>3, <3>4, <4>1 DEF Renaming
      <4>2. CASE RowKey(d) \notin wr[s]
        <5>1. db.row[d] = n
          BY <3>1, <3>2, <3>3, <4>2 DEF Agree
        <5> QED
          BY <3>1, <3>3, <5>1, DatabasesAssumption
      <4> QED
        BY <4>1, <4>2
    <3>6. Renaming(s, d)'
      BY <3>1, <3>2, <3>3, <3>5, DatabasesAssumption DEF Renaming
    <3>7. ASSUME NEW e \in Id \ {d}, RowKey(e) \in wr'[s]
          PROVE  Renaming(s, e)'
      BY <3>1, <3>2, <3>3, <3>4, <3>7 DEF Renaming
    <3>8. ASSUME NEW e \in Id, RecKey(e) \in wr'[s]
          PROVE  RecWrite(s, e)'
      <4>1. RecKey(e) \in wr[s]
        BY <3>1, <3>3, <3>8
      <4>2. view[s].rec[e] = db.rec[e] /\ db.rec[e] # None
        BY <3>2, <4>1 DEF RecWrites, Dropping
      <4> QED
        BY <3>3, <4>2 DEF RecWrite
    <3> QED
      BY <2>2, <3>6, <3>7, <3>8 DEF RowWrite
  <2> QED
    BY <1>2, <2>3, <2>4, <2>5, <2>6, <2>7, <2>8 DEF Works
<1>3. ASSUME NEW s \in Session, Commits(s), conn' = conn,
             \A r \in Session \ {s} : target'[r] = target[r] /\ st'[r] = st[r]
      PROVE  RowWrites' /\ RecWrites'
  <2>1. wr'[s] = {}
    BY <1>3 DEF Commits
  <2>2. ASSUME NEW r \in Session \ {s}, NEW d \in Id PROVE OK(r, d)
    BY <1>3, WritesOfOthers
  <2> QED
    BY <1>0, <2>1, <2>2
<1>4. ASSUME NEW s \in Session, Settles(s)
      PROVE  RowWrites' /\ RecWrites'
  BY <1>3, <1>4, LeaveFacts DEF Settles
<1>5. ASSUME NEW s \in Session, Half(s)
      PROVE  RowWrites' /\ RecWrites'
  BY <1>3, <1>5 DEF Half, TypeOK
<1> QED
  BY KindsAre, <1>1, <1>2, <1>4, <1>5

LEMMA WholeRowsStep ==
  ASSUME IInv, Kinds
  PROVE  WholeRows'
<1> USE DEF IInv
<1>1. ASSUME db' = db, coll \subseteq coll'
      PROVE  WholeRows'
  BY <1>1 DEF WholeRows, Whole
<1>2. ASSUME NEW s \in Session, Commits(s), coll' = coll
      PROVE  WholeRows'
  <2> SUFFICES ASSUME NEW d \in Id, db'.row[d] # None
               PROVE  db'.rec[d] # None /\ d \in db'.tab /\ d \in coll
    BY <1>2 DEF WholeRows, Whole
  <2>1. d \in db'.tab <=> d \in db.tab \/ TabKey(d) \in wr[s]
    BY <1>2 DEF Commits
  <2>2. CASE db.row[d] # None
    <3>1. db.rec[d] # None /\ d \in db.tab /\ d \in coll
      BY <2>2 DEF WholeRows, Whole
    <3>2. ~Dropping(s, d)
      BY <1>2 DEF Commits, Dropping
    <3>3. db'.rec[d] = db.rec[d]
      BY <1>2, <2>2, <3>2, CommitsRec
    <3> QED
      BY <2>1, <3>1, <3>3
  <2>3. CASE db.row[d] = None
    <3>1. st[s] = "done" /\ \E n \in Name : target[s] = <<d, n>>
      BY <1>2, <2>3, CommitsRow DEF Renaming, Dropping
    <3>2. PICK n \in Name : target[s] = <<d, n>>
      BY <3>1
    <3>3. db.rec[d] = n /\ RecKey(d) \notin wr[s] /\ TabKey(d) \in wr[s]
      BY <3>1, <3>2 DEF Stages
    <3>4. db'.rec[d] = n
      BY <1>2, <3>3 DEF Commits
    <3>5. d \in coll
      BY <3>2 DEF Targets, Names
    <3> QED
      BY <2>1, <3>3, <3>4, <3>5, DatabasesAssumption
  <2> QED
    BY <2>2, <2>3
<1>3. ASSUME NEW s \in Session, Works(s)
      PROVE  WholeRows'
  BY <1>1, <1>3, WorksAlone DEF OthersAlone
<1> QED
  BY KindsAre, <1>1, <1>2, <1>3 DEF GivesUp, Quits, Half, Settles

-----------------------------------------------------------------------------
(* Names at every kind of step *)

(* the names of a row whose database s renames or drops *)
LEMMA TouchedRow ==
  ASSUME IInv, NEW s \in Session, Settles(s), NEW d \in Id,
         Renaming(s, d) \/ Dropping(s, d)
  PROVE  /\ db.row[d] \in Name /\ db.row[d] \in touched'
         /\ Renaming(s, d) => view[s].row[d] \in touched'
<1>1. target[s] = None
  BY DEF IInv, Renaming, Dropping, Targets
<1>2. \A n \in Name : IdxKey(n) \in wr[s] => n \in touched'
  BY <1>1 DEF Settles
<1>3. db \in Store /\ view[s] \in Store
  BY DEF IInv, TypeOK
<1>4. db.row[d] # None /\ IdxKey(db.row[d]) \in wr[s]
  BY DEF Renaming, Dropping
<1>5. db.row[d] \in Name
  BY <1>3, <1>4, StoreFields
<1>6. Renaming(s, d) => view[s].row[d] \in Name /\ IdxKey(view[s].row[d]) \in wr[s]
  BY <1>3, StoreFields DEF Renaming
<1> QED
  BY <1>2, <1>4, <1>5, <1>6

LEMMA RowNamesStep ==
  ASSUME IInv, Kinds
  PROVE  RowNames'
<1> USE DEF IInv
<1>1. ASSUME db' = db, touched \subseteq touched'
      PROVE  RowNames'
  BY <1>1 DEF RowNames
<1>2. ASSUME NEW s \in Session, Commits(s), touched \subseteq touched', Half(s) \/ Settles(s)
      PROVE  RowNames'
  <2> SUFFICES ASSUME NEW d \in Id, db'.row[d] # None
               PROVE  /\ db'.row[d] \notin touched' => db'.rec[d] = db'.row[d]
                      /\ db'.rec[d] # db'.row[d] => db'.rec[d] \in touched'
    BY DEF RowNames
  <2>1. ~Dropping(s, d)
    BY <1>2 DEF Commits, Dropping
  <2>2. CASE db.row[d] = None
    <3>1. /\ st[s] = "done"
          /\ \E n \in Name : target[s] = <<d, n>> /\ db'.row[d] = n
      BY <1>2, <2>2, CommitsRow DEF Renaming, Dropping
    <3>2. PICK n \in Name : target[s] = <<d, n>> /\ db'.row[d] = n
      BY <3>1
    <3>3. db.rec[d] = n /\ RecKey(d) \notin wr[s]
      BY <3>1, <3>2 DEF Stages
    <3>4. db'.rec[d] = n
      BY <1>2, <3>3 DEF Commits
    <3> QED
      BY <3>2, <3>4
  <2>3. CASE db.row[d] # None
    <3>1. db'.rec[d] = db.rec[d]
      BY <1>2, <2>1, <2>3, CommitsRec
    <3>2. CASE db'.row[d] = db.row[d]
      BY <1>2, <2>3, <3>1, <3>2 DEF RowNames
    <3>3. CASE db'.row[d] # db.row[d]
      <4>1. Renaming(s, d) /\ db'.row[d] = view[s].row[d]
        BY <1>2, <2>1, <2>3, <3>3, CommitsRow
      <4>2. Settles(s)
        BY <1>2, <4>1 DEF Half, Renaming
      <4>3. db.row[d] \in touched' /\ db'.row[d] \in touched'
        BY <4>1, <4>2, TouchedRow
      <4> QED
        BY <1>2, <2>3, <3>1, <4>3 DEF RowNames
    <3> QED
      BY <3>2, <3>3
  <2> QED
    BY <2>2, <2>3
<1>3. ASSUME NEW s \in Session, Works(s)
      PROVE  RowNames'
  BY <1>1, <1>3, WorksAlone DEF OthersAlone
<1> QED
  BY KindsAre, <1>1, <1>2, <1>3 DEF GivesUp, Quits, Half, Settles

LEMMA ViewNamesStep ==
  ASSUME IInv, Kinds
  PROVE  ViewNames'
<1> USE DEF IInv
<1>1. ASSUME NEW S \in SUBSET Session, GivesUp(S)
      PROVE  ViewNames'
  <2>1. /\ db' = db /\ Open' = Open \ S /\ touched \subseteq touched'
        /\ \A r \in Session \ S : view'[r] = view[r] /\ wr'[r] = wr[r]
    BY <1>1 DEF GivesUp, Quits
  <2>2. Open \subseteq Session
    BY DEF Open
  <2> QED
    BY <2>1, <2>2 DEF ViewNames
<1>2. ASSUME NEW s \in Session, Works(s)
      PROVE  ViewNames'
  <2>1. OthersAlone(s)
    BY <1>2, WorksAlone
  <2>2. Open' \subseteq Open \cup {s} /\ Open' \subseteq Session
    BY <2>1 DEF OthersAlone, Open
  <2>3. ASSUME s \in Open', \A d \in Id : /\ RowKey(d) \notin wr'[s] /\ view'[s].row[d] # None
                                          /\ view'[s].row[d] \notin touched
                                          => db.row[d] = view'[s].row[d]
        PROVE  ViewNames'
    BY <2>1, <2>2, <2>3 DEF OthersAlone, ViewNames
  <2>4. CASE Starts(s) \/ \E d \in Id : Copies(s, d)
    <3>1. s \in Open' /\ \A d \in Id : view'[s].row[d] = db.row[d]
      BY <2>4 DEF Starts, Copies, Begins
    <3> QED
      BY <2>3, <3>1
  <2>5. ASSUME NEW R, NEW W, Looks(s, R, W)
        PROVE  ViewNames'
    <3>1. /\ s \in Open /\ Open' = Open /\ wr'[s] = wr[s] \cup W
          /\ \A d \in Id : RowKey(d) \notin W => view'[s].row[d] = view[s].row[d]
      BY <2>5 DEF Looks
    <3> QED
      BY <2>3, <3>1 DEF ViewNames
  <2>6. CASE \E R, W : Looks(s, R, W)
    BY <2>5, <2>6
  <2>7. ASSUME NEW d \in Id, NEW n \in Name,
               Creates(s, d, n) \/ Inserts(s, d, n) \/ Deletes(s, d, n)
        PROVE  ViewNames'
    <3>1. ASSUME Creates(s, d, n) PROVE \E R, W : Looks(s, R, W)
      BY <3>1 DEF Creates
    <3>2. ASSUME Inserts(s, d, n) PROVE \E R, W : Looks(s, R, W)
      BY <3>2 DEF Inserts
    <3>3. ASSUME Deletes(s, d, n) PROVE \E R, W : Looks(s, R, W)
      BY <3>3 DEF Deletes
    <3> QED
      BY <2>6, <2>7, <3>1, <3>2, <3>3
  <2>8. ASSUME NEW d \in Id, NEW n \in Name, NEW m \in Name, Renames(s, d, n, m)
        PROVE  ViewNames'
    BY <2>5, <2>8 DEF Renames
  <2>9. CASE Uses(s)
    BY <2>5, <2>9 DEF Uses
  <2> QED
    BY <1>2, <2>4, <2>7, <2>8, <2>9 DEF Works
<1>3. ASSUME NEW s \in Session, Commits(s), touched \subseteq touched', Half(s) \/ Settles(s)
      PROVE  ViewNames'
  <2> SUFFICES ASSUME NEW r \in Open', NEW d \in Id, RowKey(d) \notin wr'[r],
                      view'[r].row[d] # None, view'[r].row[d] \notin touched'
               PROVE  db'.row[d] = view'[r].row[d]
    BY DEF ViewNames
  <2>1. r \in Open /\ r \in Session \ {s} /\ s \in Open
    BY <1>3 DEF Commits, Open
  <2>0. db'.row[d] = IF RowKey(d) \in wr[s] THEN view[s].row[d] ELSE db.row[d]
    BY <1>3 DEF Commits
  <2>2. CASE RowKey(d) \notin wr[s]
    <3>1. /\ wr'[r] = wr[r] /\ view'[r].row[d] = view[r].row[d]
          /\ db'.row[d] = db.row[d]
      BY <1>3, <2>0, <2>1, <2>2, CommitsOthers
    <3> QED
      BY <1>3, <2>1, <3>1 DEF ViewNames
  <2>3. CASE RowKey(d) \in wr[s] /\ s \in before[r]
    BY <1>3, <2>0, <2>1, <2>3, CommitsOthers
  <2>4. CASE RowKey(d) \in wr[s] /\ s \notin before[r]
    <3>1. wr'[r] = wr[r] /\ view'[r] = view[r]
      BY <1>3, <2>1, <2>4, CommitsOthers
    <3>2. db.row[d] = view[r].row[d] /\ db.row[d] # None
      BY <1>3, <2>1, <3>1 DEF ViewNames
    <3>3. Renaming(s, d) \/ Dropping(s, d)
      BY <1>3, <2>4, <3>2, CommitsRow
    <3>4. Settles(s)
      BY <1>3, <3>3 DEF Half, Renaming, Dropping
    <3>5. db.row[d] \in touched'
      BY <3>3, <3>4, TouchedRow
    <3> QED
      BY <3>1, <3>2, <3>5
  <2> QED
    BY <2>2, <2>3, <2>4
<1> QED
  BY KindsAre, <1>1, <1>2, <1>3 DEF Half, Settles

(* the source of a name that is not touched stays; one that is new is made *)
LEMMA SourceStep ==
  ASSUME IInv, Kinds, NEW d \in Id, NEW n \in Name
  PROVE  /\ Source(d, n) => Source(d, n)' \/ n \in touched'
         /\ Source(d, n)' => Source(d, n) \/ \E s \in Session : Creates(s, d, n)
<1> USE DEF IInv
<1>1. ASSUME NEW S \in SUBSET Session, GivesUp(S)
      PROVE  /\ Source(d, n) => Source(d, n)' \/ n \in touched'
             /\ Source(d, n)' => Source(d, n)
  <2>1. /\ \A s \in S : st'[s] = "idle" /\ target'[s] = None
        /\ \A s \in Session \ S : st'[s] = st[s] /\ target'[s] = target[s]
    BY <1>1, LeaveFacts DEF GivesUp
  <2>2. db' = db /\ Making(S) \subseteq touched'
    BY <1>1 DEF GivesUp, Quits
  <2>3. \A s \in S : NamedBy(s, d, n) => n \in touched'
    BY <2>2 DEF NamedBy, Making
  <2> QED
    BY <2>1, <2>2, <2>3 DEF Source, NamedBy
<1>2. ASSUME NEW s \in Session, Works(s)
      PROVE  /\ Source(d, n) => Source(d, n)' \/ n \in touched'
             /\ Source(d, n)' => Source(d, n) \/ \E r \in Session : Creates(r, d, n)
  <2>1. OthersAlone(s)
    BY <1>2, WorksAlone
  <2>2. ASSUME ~NamedBy(s, d, n), ~NamedBy(s, d, n)'
        PROVE  Source(d, n) <=> Source(d, n)'
    <3>1. \A r \in Session : NamedBy(r, d, n)' <=> NamedBy(r, d, n)
      BY <2>1, <2>2 DEF OthersAlone, NamedBy
    <3> QED
      BY <2>1, <3>1 DEF OthersAlone, Source
  <2>3. CASE Starts(s) \/ Uses(s)
    BY <2>2, <2>3 DEF Starts, Uses, NamedBy, TypeOK
  <2>4. ASSUME NEW e \in Id, Copies(s, e)
        PROVE  Source(d, n) <=> Source(d, n)'
    BY <2>2, <2>4 DEF Copies, NamedBy, TypeOK
  <2>5. ASSUME NEW e \in Id, NEW m \in Name, Creates(s, e, m)
        PROVE  /\ Source(d, n) => Source(d, n)'
               /\ Source(d, n)' => Source(d, n) \/ Creates(s, d, n)
    <3>1. st[s] = "open" /\ st'[s] = "named" /\ target'[s] = <<e, m>>
      BY <2>5 DEF Creates, TypeOK
    <3>2. ~NamedBy(s, d, n) /\ (NamedBy(s, d, n)' => e = d /\ m = n)
      BY <3>1 DEF NamedBy
    <3>3. \A r \in Session \ {s} : NamedBy(r, d, n)' <=> NamedBy(r, d, n)
      BY <2>1 DEF OthersAlone, NamedBy
    <3> QED
      BY <2>1, <2>5, <3>2, <3>3 DEF OthersAlone, Source
  <2>6. ASSUME NEW e \in Id, NEW m \in Name, Inserts(s, e, m) \/ Deletes(s, e, m)
        PROVE  Source(d, n) <=> Source(d, n)'
    <3>1. ASSUME Inserts(s, e, m)
          PROVE  st[s] # "named" /\ st'[s] # "named"
      BY <3>1 DEF Inserts, TypeOK
    <3>2. ASSUME Deletes(s, e, m)
          PROVE  st[s] # "named" /\ st'[s] # "named"
      BY <3>2 DEF Deletes, TypeOK
    <3> QED
      BY <2>2, <2>6, <3>1, <3>2 DEF NamedBy
  <2>7. ASSUME NEW e \in Id, NEW m \in Name, NEW k \in Name, Renames(s, e, m, k)
        PROVE  Source(d, n) <=> Source(d, n)'
    <3>1. st[s] # "named" /\ st'[s] # "named"
      BY <2>7 DEF Renames, TypeOK
    <3> QED
      BY <2>2, <3>1 DEF NamedBy
  <2> QED
    BY <1>2, <2>3, <2>4, <2>5, <2>6, <2>7 DEF Works
<1>3. ASSUME NEW s \in Session, Half(s)
      PROVE  Source(d, n) <=> Source(d, n)'
  <2>1. /\ Commits(s) /\ target' = target /\ st[s] = "named" /\ st'[s] = "between"
        /\ \A r \in Session \ {s} : st'[r] = st[r]
    BY <1>3 DEF Half, TypeOK
  <2>2. NamedBy(s, d, n) => db'.rec[d] = n
    <3>1. NamedBy(s, d, n) => RecKey(d) \in wr[s] /\ view[s].rec[d] = n
      BY <2>1 DEF NamedBy, Stages
    <3> QED
      BY <2>1, <3>1 DEF Commits
  <2>3. db.rec[d] = n => db'.rec[d] = n \/ NamedBy(s, d, n)
    <3>1. ~Dropping(s, d)
      BY <2>1 DEF Dropping
    <3>2. \A m \in Name : target[s] = <<d, m>> => db.rec[d] = None
      BY <2>1 DEF Stages
    <3>3. None # n
      BY DatabasesAssumption
    <3> QED
      BY <2>1, <3>1, <3>2, <3>3, CommitsRec DEF NamedBy
  <2>4. db'.rec[d] = n => db.rec[d] = n \/ NamedBy(s, d, n)
    <3>1. ~Dropping(s, d)
      BY <2>1 DEF Dropping
    <3> QED
      BY <2>1, <3>1, CommitsRec DEF NamedBy
  <2>5. \A r \in Session \ {s} : NamedBy(r, d, n)' <=> NamedBy(r, d, n)
    BY <2>1 DEF NamedBy
  <2>6. ~NamedBy(s, d, n)'
    BY <2>1 DEF NamedBy
  <2> QED
    BY <2>2, <2>3, <2>4, <2>5, <2>6 DEF Source
<1>4. ASSUME NEW s \in Session, Settles(s)
      PROVE  /\ Source(d, n) => Source(d, n)' \/ n \in touched'
             /\ Source(d, n)' => Source(d, n)
  <2>1. /\ st'[s] = "idle" /\ target'[s] = None /\ st[s] # "named"
        /\ \A r \in Session \ {s} : st'[r] = st[r] /\ target'[r] = target[r]
        /\ Commits(s) /\ touched \subseteq touched'
    BY <1>4, LeaveFacts DEF Settles
  <2>2. \A r \in Session : NamedBy(r, d, n)' <=> NamedBy(r, d, n)
    BY <2>1 DEF NamedBy
  <2>3. CASE db'.rec[d] = db.rec[d]
    BY <2>2, <2>3 DEF Source
  <2>4. CASE Dropping(s, d) /\ db'.rec[d] = None
    <3>1. db.rec[d] = n => n \in touched'
      <4>1. db.row[d] \in touched' /\ db.row[d] # None
        BY <1>4, <2>4, TouchedRow DEF Dropping
      <4> QED
        BY <2>1, <4>1 DEF RowNames
    <3>2. None # n
      BY DatabasesAssumption
    <3> QED
      BY <2>2, <2>4, <3>1, <3>2 DEF Source
  <2> QED
    BY <2>1, <2>3, <2>4, CommitsRec
<1> QED
  BY KindsAre, <1>1, <1>2, <1>3, <1>4

LEMMA HistoryGrows ==
  ASSUME TypeOK, Kinds
  PROVE  touched \subseteq touched' /\ (blind => blind')
<1>1. ASSUME NEW s \in Session, Works(s)
      PROVE  touched \subseteq touched' /\ (blind => blind')
  BY <1>1, WorksAlone DEF OthersAlone
<1>2. ASSUME NEW S \in SUBSET Session, GivesUp(S)
      PROVE  touched \subseteq touched' /\ (blind => blind')
  BY <1>2 DEF GivesUp
<1>3. ASSUME NEW s \in Session, Half(s)
      PROVE  touched \subseteq touched' /\ (blind => blind')
  BY <1>3 DEF Half
<1>4. ASSUME NEW s \in Session, Settles(s)
      PROVE  touched \subseteq touched' /\ (blind => blind')
  BY <1>4 DEF Settles
<1> QED
  BY <1>1, <1>2, <1>3, <1>4, KindsAre

LEMMA MentionedStep ==
  ASSUME IInv, Kinds, NEW d \in Id, NEW n \in Name, Mentioned(d, n)'
  PROVE  \/ n \in touched' \/ Mentioned(d, n) \/ db.rec[d] = n
         \/ \E s \in Session : Creates(s, d, n)
<1> USE DEF IInv
<1> DEFINE Old == n \in touched' \/ Mentioned(d, n) \/ db.rec[d] = n
<1>0. \A r \in Open : view[r].rec[d] = n => Old
  BY DEF Mentioned
<1>1. ASSUME NEW S \in SUBSET Session, GivesUp(S)
      PROVE  Old
  <2>1. CachesFrom /\ Open' = Open \ S /\ \A r \in Session \ S : view'[r] = view[r]
    BY <1>1 DEF GivesUp, Quits
  <2>2. Open \subseteq Session
    BY DEF Open
  <2>3. ASSUME NEW r \in Open', view'[r].rec[d] = n
        PROVE  Old
    BY <1>0, <2>1, <2>2, <2>3
  <2>4. ASSUME NEW i \in Inst, byName'[i][n] = d
        PROVE  Old
    BY <2>1, <2>4 DEF CachesFrom
  <2> QED
    BY <2>3, <2>4 DEF Mentioned
<1>2. ASSUME NEW s \in Session, Works(s)
      PROVE  Old \/ \E r \in Session : Creates(r, d, n)
  <2>1. OthersAlone(s)
    BY <1>2, WorksAlone
  <2>2. \A r \in Open' \ {s} : view'[r].rec[d] = n => Old
    <3>1. \A r \in Open' \ {s} : r \in Open /\ view'[r] = view[r]
      BY <2>1 DEF OthersAlone, Open
    <3> QED
      BY <1>0, <3>1
  <2>3. ASSUME UNCHANGED byName
        PROVE  Mentioned(d, n) \/ \E r \in Open' : view'[r].rec[d] = n
    BY <2>3 DEF Mentioned
  <2>4. CASE Starts(s) \/ \E e \in Id : Copies(s, e)
    <3>1. UNCHANGED byName /\ view'[s].rec[d] = db.rec[d]
      BY <2>4 DEF Starts, Copies, Begins
    <3> QED
      BY <2>2, <2>3, <3>1
  <2>5. CASE Uses(s)
    <3>1. CachesFrom /\ view'[s] = view[s] /\ s \in Open
      BY <2>5 DEF Uses, Looks
    <3>2. \A i \in Inst : byName'[i][n] = d => Old
      BY <3>1 DEF CachesFrom
    <3> QED
      BY <1>0, <2>2, <3>1, <3>2 DEF Mentioned
  <2>6. ASSUME NEW R, NEW W, Looks(s, R, W), UNCHANGED byName, n # None,
               RecKey(d) \in W => view'[s].rec[d] = None
        PROVE  Old
    <3>1. s \in Open /\ (view'[s].rec[d] = n => view[s].rec[d] = n)
      BY <2>6 DEF Looks
    <3> QED
      BY <1>0, <2>2, <2>3, <2>6, <3>1
  <2>7. ASSUME NEW e \in Id, NEW m \in Name, Creates(s, e, m)
        PROVE  Old \/ Creates(s, d, n)
    <3>1. PICK R : Looks(s, R, {RecKey(e)})
      BY <2>7 DEF Creates
    <3>2. /\ view'[s].rec[e] = m
          /\ e # d => view'[s].rec[d] = view[s].rec[d]
          /\ s \in Open
      BY <2>7, <3>1, KeyFacts DEF Creates, Looks
    <3>3. \A i \in Inst : byName'[i][n] = d => Mentioned(d, n) \/ (d = e /\ n = m)
      BY <2>7 DEF Creates
    <3>4. view'[s].rec[d] = n => Mentioned(d, n) \/ (d = e /\ n = m)
      BY <3>2 DEF Mentioned
    <3>5. ~(d = e /\ n = m) => Old
      BY <2>2, <3>3, <3>4 DEF Mentioned
    <3> QED
      BY <2>7, <3>5
  <2>0. n # None
    BY DatabasesAssumption
  <2>8. ASSUME NEW e \in Id, NEW m \in Name, Inserts(s, e, m)
        PROVE  Old
    <3>1. Looks(s, AllIdx, {RowKey(e), IdxKey(m)}) /\ UNCHANGED byName
      BY <2>8 DEF Inserts
    <3>2. RecKey(d) \notin {RowKey(e), IdxKey(m)}
      BY KeyFacts
    <3> QED
      BY <2>0, <2>6, <3>1, <3>2
  <2>9. ASSUME NEW e \in Id, NEW m \in Name, Deletes(s, e, m)
        PROVE  Old
    <3>1. PICK R, W : Looks(s, R, W) /\ \A k \in Id \ {e} : RecKey(k) \notin W
      BY <2>9 DEF Deletes
    <3>2. view'[s].rec[e] = None /\ UNCHANGED byName
      BY <2>9 DEF Deletes
    <3> QED
      BY <2>0, <2>6, <3>1, <3>2
  <2>10. ASSUME NEW e \in Id, NEW m \in Name, NEW k \in Name, Renames(s, e, m, k)
         PROVE  Old
    <3>1. PICK R, W : Looks(s, R, W) /\ \A x \in Id : RecKey(x) \notin W
      BY <2>10 DEF Renames
    <3> QED
      BY <2>0, <2>6, <2>10, <3>1 DEF Renames
  <2> QED
    BY <1>2, <2>4, <2>5, <2>7, <2>8, <2>9, <2>10 DEF Works
<1>3. ASSUME NEW s \in Session, Commits(s), UNCHANGED byName
      PROVE  Old
  <2>1. s \in Open /\ Open' = Open \ {s} /\ Open \subseteq Session
    BY <1>3 DEF Commits, Open
  <2>2. ASSUME NEW r \in Open', view'[r].rec[d] = n
        PROVE  Old
    <3>1. r \in Session \ {s} /\ r \in Open
      BY <2>1
    <3>2. view'[r].rec[d] = view[r].rec[d] \/ view'[r].rec[d] = view[s].rec[d]
      BY <1>3, <3>1, CommitsOthers
    <3> QED
      BY <1>0, <2>1, <2>2, <3>1, <3>2
  <2>3. \A i \in Inst : byName'[i][n] = d => Old
    BY <1>3 DEF Mentioned
  <2> QED
    BY <2>2, <2>3 DEF Mentioned
<1> QED
  BY KindsAre, <1>1, <1>2, <1>3 DEF Half, Settles

LEMMA MentionsStep ==
  ASSUME IInv, Kinds
  PROVE  Mentions'
<1> USE DEF IInv
<1> SUFFICES ASSUME ~blind', NEW d \in Id, NEW n \in Name, n \notin touched', Mentioned(d, n)'
             PROVE  Source(d, n)'
  BY DEF Mentions
<1>1. ~blind /\ n \notin touched
  BY HistoryGrows
<1>2. CASE Mentioned(d, n) \/ db.rec[d] = n
  <2>1. Source(d, n)
    BY <1>1, <1>2 DEF Mentions, Source
  <2> QED
    BY <2>1, SourceStep
<1>3. ASSUME NEW s \in Session, Creates(s, d, n)
      PROVE  Source(d, n)'
  <2>1. NamedBy(s, d, n)'
    BY <1>3 DEF Creates, NamedBy, TypeOK
  <2> QED
    BY <2>1 DEF Source
<1> QED
  BY <1>2, <1>3, MentionedStep

(* nobody else has or makes a database of the name that s takes *)
LEMMA CreatesNew ==
  ASSUME IInv, NEW s \in Session, NEW d \in Id, NEW n \in Name, Creates(s, d, n), ~blind',
         NEW e \in Id, Source(e, n)
  PROVE  FALSE
<1> USE DEF IInv
<1>1. PICK R \in SUBSET Key :
       /\ Looks(s, R, {RecKey(d)})
       /\ blind' \/ (AllRec \subseteq R /\ \A x \in Id : view[s].rec[x] # n)
  BY DEF Creates
<1>2. AllRec \subseteq R /\ view[s].rec[e] # n
  BY <1>1
<1>3. /\ s \in Open /\ \A r \in before[s] : wr[r] \cap R = {}
      /\ RecKey(d) \notin late[s]
  BY <1>1 DEF Looks, CanRead, CanWrite
<1>4. ~(AllRec \subseteq late[s])
  BY <1>3, KeyFacts
<1>5. ~blind /\ st[s] = "open"
  BY DEF Creates
<1>6. CASE db.rec[e] = n
  <2>1. RecKey(e) \notin wr[s]
    BY <1>2, <1>5, <1>6 DEF RecWrites, Dropping
  <2>2. n # None
    BY DatabasesAssumption
  <2> QED
    BY <1>2, <1>3, <1>4, <1>5, <1>6, <2>1, <2>2 DEF NewSince
<1>7. ASSUME NEW r \in Session, NamedBy(r, e, n)
      PROVE  FALSE
  <2>1. st[r] = "named" /\ r # s /\ r \in Open /\ RecKey(e) \in wr[r]
    BY <1>5, <1>7 DEF NamedBy, Stages, Open
  <2>2. r \notin before[s]
    BY <1>2, <1>3, <2>1, KeyFacts
  <2>3. s \in before[r]
    BY <1>3, <2>1, <2>2 DEF InOrder
  <2> QED
    BY <1>4, <1>5, <2>1, <2>3 DEF Fenced
<1> QED
  BY <1>6, <1>7 DEF Source

LEMMA OneSourceStep ==
  ASSUME IInv, Kinds
  PROVE  OneSource'
<1> USE DEF IInv
<1> SUFFICES ASSUME ~blind', NEW d \in Id, NEW e \in Id, NEW n \in Name,
                    Source(d, n)', Source(e, n)'
             PROVE  d = e
  BY DEF OneSource
<1>1. ~blind
  BY HistoryGrows
<1>2. ASSUME NEW s \in Session, NEW x \in Id, Creates(s, x, n)
      PROVE  ~Source(d, n) /\ ~Source(e, n)
  BY <1>2, CreatesNew
<1>3. CASE Source(d, n) /\ Source(e, n)
  BY <1>1, <1>3 DEF OneSource
<1>4. /\ Source(d, n) \/ \E s \in Session : Creates(s, d, n)
      /\ Source(e, n) \/ \E s \in Session : Creates(s, e, n)
  BY SourceStep
<1>5. CASE ~Source(d, n) /\ ~Source(e, n)
  <2>1. PICK s \in Session : Creates(s, d, n)
    BY <1>4, <1>5
  <2>2. PICK r \in Session : Creates(r, e, n)
    BY <1>4, <1>5
  <2>3. used' = used \cup {d} /\ used' = used \cup {e} /\ d \notin used /\ e \notin used
    BY <2>1, <2>2 DEF Creates
  <2> QED
    BY <2>3
<1> QED
  BY <1>2, <1>3, <1>4, <1>5

LEMMA FencedStep ==
  ASSUME IInv, Kinds
  PROVE  Fenced'
<1> USE DEF IInv
<1> SUFFICES ASSUME ~blind', NEW r \in Session, NEW q \in Session,
                    st'[r] = "named", q \in before'[r]
             PROVE  AllRec \subseteq late'[q]
  BY DEF Fenced
<1>1. ~blind
  BY HistoryGrows
<1>2. ASSUME st[r] = "named", q \in before[r], late[q] \subseteq late'[q]
      PROVE  AllRec \subseteq late'[q]
  BY <1>1, <1>2 DEF Fenced
<1>3. ASSUME NEW S \in SUBSET Session, GivesUp(S)
      PROVE  AllRec \subseteq late'[q]
  <2>1. /\ \A s \in S : st'[s] = "idle"
        /\ \A s \in Session \ S : st'[s] = st[s]
    BY <1>3, LeaveFacts DEF GivesUp
  <2>2. \A s \in Session \ S : before'[s] = before[s] \ S /\ late[s] \subseteq late'[s]
    BY <1>3 DEF GivesUp, Quits
  <2> QED
    BY <1>2, <2>1, <2>2
<1>4. ASSUME NEW s \in Session, Works(s)
      PROVE  AllRec \subseteq late'[q]
  <2>1. OthersAlone(s)
    BY <1>4, WorksAlone
  <2>3. CASE \E d \in Id : Copies(s, d)
    BY <1>2, <2>1, <2>3 DEF Copies, Begins, OthersAlone, TypeOK
  <2>4. CASE Starts(s)
    BY <1>2, <2>1, <2>4 DEF Starts, Begins, OthersAlone, TypeOK
  <2>5. ASSUME NEW R, NEW W, Looks(s, R, W), st'[s] # "named"
        PROVE  AllRec \subseteq late'[q]
    <3>1. before' = before /\ late[q] \subseteq late'[q]
      BY <2>5 DEF Looks
    <3> QED
      BY <1>2, <2>1, <2>5, <3>1 DEF OthersAlone
  <2>6. CASE Uses(s)
    <3>1. PICK R, W : Looks(s, R, W)
      BY <2>6 DEF Uses
    <3> QED
      BY <2>5, <2>6, <3>1 DEF Uses
  <2>7. ASSUME NEW d \in Id, NEW n \in Name, Creates(s, d, n)
        PROVE  AllRec \subseteq late'[q]
    <3>1. PICK R : Looks(s, R, {RecKey(d)}) /\ AllRec \subseteq R
      BY <2>7 DEF Creates
    <3>2. before' = before /\ late[q] \subseteq late'[q]
          /\ (q \in before[s] => R \subseteq late'[q])
      BY <3>1 DEF Looks
    <3> QED
      BY <1>2, <2>1, <3>1, <3>2 DEF OthersAlone
  <2>8. ASSUME NEW d \in Id, NEW n \in Name, Inserts(s, d, n) \/ Deletes(s, d, n)
        PROVE  AllRec \subseteq late'[q]
    <3>1. ASSUME Inserts(s, d, n)
          PROVE  (\E R, W : Looks(s, R, W)) /\ st'[s] # "named"
      BY <3>1 DEF Inserts, TypeOK
    <3>2. ASSUME Deletes(s, d, n)
          PROVE  (\E R, W : Looks(s, R, W)) /\ st'[s] # "named"
      BY <3>2 DEF Deletes, TypeOK
    <3> QED
      BY <2>5, <2>8, <3>1, <3>2
  <2>9. ASSUME NEW d \in Id, NEW n \in Name, NEW m \in Name, Renames(s, d, n, m)
        PROVE  AllRec \subseteq late'[q]
    <3>1. (\E R, W : Looks(s, R, W)) /\ st'[s] # "named"
      BY <2>9 DEF Renames, TypeOK
    <3> QED
      BY <2>5, <3>1
  <2> QED
    BY <1>4, <2>3, <2>4, <2>6, <2>7, <2>8, <2>9 DEF Works
<1>5. ASSUME NEW s \in Session, Commits(s), st'[s] # "named",
             \A x \in Session \ {s} : st'[x] = st[x]
      PROVE  AllRec \subseteq late'[q]
  <2>1. r # s /\ before'[r] = before[r] \ {s} /\ st[r] = "named"
    BY <1>5 DEF Commits
  <2>2. q # s /\ late[q] \subseteq late'[q]
    BY <1>5, <2>1 DEF Commits
  <2> QED
    BY <1>2, <2>1, <2>2
<1>6. ASSUME NEW s \in Session, Half(s)
      PROVE  AllRec \subseteq late'[q]
  BY <1>5, <1>6 DEF Half, TypeOK
<1>7. ASSUME NEW s \in Session, Settles(s)
      PROVE  AllRec \subseteq late'[q]
  BY <1>5, <1>7, LeaveFacts DEF Settles
<1> QED
  BY KindsAre, <1>3, <1>4, <1>6, <1>7

LEMMA NewSinceStep ==
  ASSUME IInv, Kinds
  PROVE  NewSince'
<1> USE DEF IInv
<1> SUFFICES ASSUME ~blind', NEW q \in Open', NEW e \in Id,
                    RecKey(e) \notin wr'[q], db'.rec[e] # None,
                    db'.rec[e] # view'[q].rec[e]
             PROVE  AllRec \subseteq late'[q]
  BY DEF NewSince
<1>0. q \in Session /\ Open \subseteq Session
  BY DEF Open
<1>1. ~blind
  BY HistoryGrows
<1>2. ASSUME q \in Open, RecKey(e) \notin wr[q], db.rec[e] = db'.rec[e],
             view'[q].rec[e] = view[q].rec[e], late[q] \subseteq late'[q]
      PROVE  AllRec \subseteq late'[q]
  BY <1>1, <1>2 DEF NewSince
<1>3. ASSUME NEW S \in SUBSET Session, GivesUp(S)
      PROVE  AllRec \subseteq late'[q]
  <2>1. /\ db' = db /\ Open' = Open \ S
        /\ \A s \in Session \ S : /\ view'[s] = view[s] /\ wr'[s] = wr[s]
                                  /\ late[s] \subseteq late'[s]
    BY <1>3 DEF GivesUp, Quits
  <2> QED
    BY <1>0, <1>2, <2>1
<1>4. ASSUME NEW s \in Session, Works(s)
      PROVE  AllRec \subseteq late'[q]
  <2>1. OthersAlone(s)
    BY <1>4, WorksAlone
  <2>2. CASE q # s
    <3>1. q \in Open
      BY <1>0, <2>1, <2>2 DEF OthersAlone, Open
    <3> QED
      BY <1>0, <1>2, <2>1, <2>2, <3>1 DEF OthersAlone
  <2>3. ASSUME q = s, Starts(s) \/ \E d \in Id : Copies(s, d)
        PROVE  FALSE
    BY <2>3 DEF Starts, Copies, Begins
  <2>4. ASSUME q = s, NEW R, NEW W, Looks(s, R, W)
        PROVE  AllRec \subseteq late'[q]
    BY <1>2, <2>4 DEF Looks
  <2>5. CASE q = s
    <3>1. (\E R, W : Looks(s, R, W)) \/ Starts(s) \/ \E d \in Id : Copies(s, d)
      <4>1. ASSUME NEW d \in Id, NEW n \in Name,
                   Creates(s, d, n) \/ Inserts(s, d, n) \/ Deletes(s, d, n)
            PROVE  \E R, W : Looks(s, R, W)
        <5>1. ASSUME Creates(s, d, n) PROVE \E R, W : Looks(s, R, W)
          BY <5>1 DEF Creates
        <5>2. ASSUME Inserts(s, d, n) PROVE \E R, W : Looks(s, R, W)
          BY <5>2 DEF Inserts
        <5>3. ASSUME Deletes(s, d, n) PROVE \E R, W : Looks(s, R, W)
          BY <5>3 DEF Deletes
        <5> QED
          BY <4>1, <5>1, <5>2, <5>3
      <4>2. ASSUME NEW d \in Id, NEW n \in Name, NEW m \in Name, Renames(s, d, n, m)
            PROVE  \E R, W : Looks(s, R, W)
        BY <4>2 DEF Renames
      <4>3. ASSUME Uses(s) PROVE \E R, W : Looks(s, R, W)
        BY <4>3 DEF Uses
      <4> QED
        BY <1>4, <4>1, <4>2, <4>3 DEF Works
    <3> QED
      BY <2>3, <2>4, <2>5, <3>1
  <2> QED
    BY <2>2, <2>5
<1>5. ASSUME NEW s \in Session, Commits(s)
      PROVE  AllRec \subseteq late'[q]
  <2>1. q \in Open /\ q \in Session \ {s} /\ s \in Open
    BY <1>0, <1>5 DEF Commits
  <2>2. /\ wr'[q] = wr[q] /\ late[q] \subseteq late'[q]
        /\ RecKey(e) \notin wr[s] => view'[q].rec[e] = view[q].rec[e]
        /\ s \notin before[q] => view'[q] = view[q]
        /\ s \in before[q] /\ RecKey(e) \in wr[s] => view'[q].rec[e] = view[s].rec[e]
    BY <1>5, <2>1, CommitsOthers
  <2>3. db'.rec[e] = IF RecKey(e) \in wr[s] THEN view[s].rec[e] ELSE db.rec[e]
    BY <1>5 DEF Commits
  <2>4. CASE s \in before[q]
    BY <1>2, <2>1, <2>2, <2>3, <2>4
  <2>5. CASE s \notin before[q]
    <3>1. CASE db'.rec[e] = db.rec[e]
      BY <1>2, <2>1, <2>2, <2>5, <3>1
    <3>2. CASE st[s] = "named"
      <4>1. q \in before[s]
        BY <2>1, <2>5 DEF InOrder
      <4> QED
        BY <1>1, <2>1, <2>2, <3>2, <4>1 DEF Fenced
    <3> QED
      BY <1>5, <3>1, <3>2, CommitsRec
  <2> QED
    BY <2>4, <2>5
<1> QED
  BY KindsAre, <1>3, <1>4, <1>5 DEF Half, Settles

-----------------------------------------------------------------------------
(* The invariant *)

LEMMA InitIInv ==
  Init => IInv
<1> SUFFICES ASSUME Init PROVE IInv
  OBVIOUS
<1>0. Open = {}
  BY DEF Init, Open
<1>1. db \in Store
  BY DatabasesAssumption DEF Init, Store
<1>2. \A d \in Id : /\ db.row[d] = IF d = Template THEN TemplateName ELSE None
                    /\ db.rec[d] = IF d = Template THEN TemplateName ELSE None
                    /\ d = Template => d \in db.tab /\ d \in coll
  BY DEF Init
<1>3. \A s \in Session : /\ st[s] = "idle" /\ target[s] = None /\ view[s] = Empty
                         /\ wr[s] = {} /\ before[s] = {} /\ late[s] = {}
  BY DEF Init
<1>4. \A i \in Inst, n \in Name, d \in Id : byName[i][n] = d => d = Template /\ n = TemplateName
  BY DatabasesAssumption DEF Init
<1>5. touched = {} /\ blind = FALSE /\ used = {Template}
  BY DEF Init
<1>6. \A s \in Session, d \in Id : ~Names(s, d)
  BY <1>3, PairNotNone DEF Names
<1>7. \A s \in Session, d \in Id, n \in Name : ~NamedBy(s, d, n)
  BY <1>3 DEF NamedBy
<1>8. TypeOK
  <2>1. byId \in [Inst -> SUBSET Id] /\ byName \in [Inst -> [Name -> Id \cup {None}]]
    BY DatabasesAssumption DEF Init
  <2>2. view \in [Session -> Store]
    BY EmptyFacts DEF Init
  <2>3. /\ st \in [Session -> States] /\ target \in [Session -> (Id \X Name) \cup {None}]
        /\ conn \in [Session -> Id] /\ wr \in [Session -> SUBSET Key]
        /\ before \in [Session -> SUBSET Open] /\ late \in [Session -> SUBSET Key]
    BY DatabasesAssumption DEF Init, States
  <2> QED
    BY <1>1, <2>1, <2>2, <2>3, DatabasesAssumption DEF Init, TypeOK
<1>9. InOrder /\ Closed /\ Exclusive /\ NotLate /\ Agree
  BY <1>0, <1>3 DEF InOrder, Closed, Exclusive, NotLate, Agree
<1>10. Targets
  BY <1>3, <1>6 DEF Targets
<1>11. Unused
  BY <1>2, <1>3, <1>5, EmptyFacts DEF Unused
<1>12. Hidden /\ Stages /\ TabOwner
  BY <1>3, <1>6 DEF Hidden, Stages, TabOwner, Names
<1>13. RowWrites /\ RecWrites
  BY <1>3 DEF RowWrites, RecWrites
<1>14. WholeRows /\ RowNames
  BY <1>2, DatabasesAssumption DEF WholeRows, RowNames, Whole
<1>15. ViewNames /\ NewSince
  BY <1>0 DEF ViewNames, NewSince
<1>16. Mentions
  BY <1>0, <1>2, <1>4 DEF Mentions, Mentioned, Source
<1>17. OneSource
  <2>1. \A d \in Id, n \in Name : Source(d, n) => d = Template
    BY <1>2, <1>7, DatabasesAssumption DEF Source
  <2> QED
    BY <2>1 DEF OneSource
<1>18. Fenced
  BY <1>3 DEF Fenced
<1> QED
  BY <1>8, <1>9, <1>10, <1>11, <1>12, <1>13, <1>14, <1>15, <1>16, <1>17, <1>18 DEF IInv

LEMMA StepIInv ==
  IInv /\ [Next]_vars => IInv'
<1> SUFFICES ASSUME IInv, [Next]_vars
             PROVE  IInv'
  OBVIOUS
<1>1. CASE Next
  <2>1. Kinds
    BY <1>1, NextKinds DEF IInv
  <2>2. TxnInv' /\ BeforeOK'
    BY <2>1, TxnStep DEF IInv, TxnInv
  <2>3. TypeOK'
    <3>1. waiting' \subseteq Session
      BY <1>1 DEF IInv, TypeOK, Next
    <3> QED
      BY <2>1, <2>2, <3>1, TypeStep DEF IInv
  <2>4. Targets' /\ Unused' /\ Hidden' /\ Stages' /\ TabOwner'
    BY <2>1, TargetsStep, UnusedStep, HiddenStep, StagesStep, TabOwnerStep
  <2>5. RowWrites' /\ RecWrites' /\ WholeRows' /\ RowNames' /\ ViewNames'
    BY <2>1, WritesStep, WholeRowsStep, RowNamesStep, ViewNamesStep
  <2>6. Mentions' /\ OneSource' /\ Fenced' /\ NewSince'
    BY <2>1, MentionsStep, OneSourceStep, FencedStep, NewSinceStep
  <2> QED
    BY <2>2, <2>3, <2>4, <2>5, <2>6 DEF IInv, TxnInv
<1>2. CASE UNCHANGED vars
  <2> USE <1>2 DEF vars
  <2>0. Open' = Open
    BY DEF Open
  <2>1. TypeOK'
    BY <2>0 DEF IInv, TypeOK
  <2>2. InOrder' /\ Closed' /\ Exclusive' /\ NotLate' /\ Agree'
    BY <2>0 DEF IInv, InOrder, Closed, Exclusive, NotLate, Agree
  <2>3. /\ \A s \in Session, d \in Id : Names(s, d)' <=> Names(s, d)
        /\ \A s \in Session, d \in Id : Dropping(s, d)' <=> Dropping(s, d)
        /\ \A s \in Session, d \in Id : Renaming(s, d)' <=> Renaming(s, d)
    BY DEF Names, Dropping, Renaming
  <2>4. Targets' /\ Unused' /\ Hidden' /\ Stages' /\ TabOwner'
    BY <2>3 DEF IInv, Targets, Unused, Hidden, Stages, TabOwner
  <2>5. RowWrites' /\ RecWrites'
    BY <2>3 DEF IInv, RowWrites, RecWrites
  <2>6. WholeRows' /\ RowNames' /\ ViewNames'
    BY <2>0 DEF IInv, WholeRows, RowNames, ViewNames, Whole
  <2>7. /\ \A d \in Id, n \in Name : Source(d, n)' <=> Source(d, n)
        /\ \A d \in Id, n \in Name : Mentioned(d, n)' <=> Mentioned(d, n)
    BY <2>0 DEF Source, NamedBy, Mentioned
  <2>8. Mentions' /\ OneSource'
    BY <2>7 DEF IInv, Mentions, OneSource
  <2>9. Fenced' /\ NewSince'
    BY <2>0 DEF IInv, Fenced, NewSince
  <2> QED
    BY <2>1, <2>2, <2>4, <2>5, <2>6, <2>8, <2>9 DEF IInv
<1> QED
  BY <1>1, <1>2

LEMMA Inductive ==
  Spec => []IInv
<1> QED
  BY InitIInv, StepIInv, PTL DEF Spec

(* Every variable keeps its type; an open transaction is only ever before  *)
(* open ones.                                                              *)
THEOREM DatabasesTypes ==
  Spec => []TypeOK
<1>1. IInv => TypeOK
  BY DEF IInv
<1> QED
  BY <1>1, Inductive, PTL

(* Of the CREATE DATABASEs of one name that run at the same time on any    *)
(* instances at most one commits its DatabaseInfo record, unless a list    *)
(* that could not be read was taken for an empty one.                      *)
THEOREM NameHasOneRecord ==
  Spec => []OneRecordPerName
<1>1. IInv => OneRecordPerName
  <2> SUFFICES ASSUME IInv, ~blind, NEW d \in Id, NEW e \in Id, d # e,
                      db.rec[d] # None, db.rec[d] = db.rec[e]
               PROVE  FALSE
    BY DEF OneRecordPerName
  <2>1. db \in Store
    BY DEF IInv, TypeOK
  <2>2. db.rec[d] \in Name
    BY <2>1, StoreFields
  <2> QED
    BY <2>2 DEF IInv, OneSource, Source
<1> QED
  BY <1>1, Inductive, PTL

(* CREATE TABLE never goes to the collection of another database by way of *)
(* a cached name, if the name was never dropped, renamed or left over.     *)
THEOREM TablesGoHome ==
  Spec => []TablesAtHome
<1>1. IInv => TablesAtHome
  <2> SUFFICES ASSUME IInv, NEW s \in Session, st[s] \in {"open", "block"},
                      view[s].row[conn[s]] # None, view[s].row[conn[s]] \notin touched, ~blind,
                      NEW l \in Lookup(s, view[s].row[conn[s]])
               PROVE  l.map[view[s].row[conn[s]]] \in {None, conn[s]}
    BY DEF TablesAtHome
  <2> DEFINE c == conn[s]
             n == view[s].row[c]
  <2>0. s \in Open /\ c \in Id /\ view[s] \in Store /\ l \in Lookup(s, n)
    BY DEF Open, IInv, TypeOK
  <2>1. n \in Name /\ n # None /\ n \notin touched
    BY <2>0, StoreFields
  <2>2. RowKey(c) \notin wr[s]
    BY <2>0 DEF IInv, RowWrites, Renaming, Dropping
  <2>3. db.row[c] = n
    BY <2>0, <2>1, <2>2 DEF IInv, ViewNames
  <2>4. Source(c, n)
    BY <2>0, <2>1, <2>3 DEF IInv, RowNames, Source
  <2> HIDE DEF n
  <2>5. /\ l.map \in [Name -> Id \cup {None}]
        /\ \A d \in Id : l.map[n] = d => Mentioned(d, n)
    BY <2>0, <2>1, LookupFacts DEF IInv
  <2>6. \A d \in Id : Mentioned(d, n) => d = c
    BY <2>0, <2>1, <2>4 DEF IInv, Mentions, OneSource
  <2>7. l.map[n] \in {None, c}
    BY <2>1, <2>5, <2>6
  <2> QED
    BY <2>7 DEF n
<1> QED
  BY <1>1, Inductive, PTL

-----------------------------------------------------------------------------
(* RENAME never unmakes a row, so a row that goes is dropped *)
LEMMA RecordGoes ==
  ASSUME IInv, Kinds, NEW d \in Id
  PROVE  /\ db.row[d] # None /\ db'.row[d] = None => db'.rec[d] = None
         /\ d \in used /\ Maker(d) = {} /\ db.rec[d] = None => db'.rec[d] = None
<1>1. ASSUME NEW s \in Session, Commits(s)
      PROVE  /\ db.row[d] # None /\ db'.row[d] = None => db'.rec[d] = None
             /\ d \in used /\ Maker(d) = {} /\ db.rec[d] = None => db'.rec[d] = None
  <2>1. ASSUME db.row[d] # None, db'.row[d] = None
        PROVE  db'.rec[d] = None
    <3>1. Dropping(s, d)
      BY <1>1, <2>1, CommitsRow DEF Renaming
    <3> QED
      BY <1>1, <3>1 DEF Dropping, Commits
  <2>2. ASSUME Maker(d) = {}, db.rec[d] = None
        PROVE  db'.rec[d] = None
    <3>1. \A n \in Name : target[s] # <<d, n>>
      BY <2>2 DEF Maker
    <3> QED
      BY <1>1, <2>2, <3>1, CommitsRec
  <2> QED
    BY <2>1, <2>2
<1>2. ASSUME NEW s \in Session, Works(s)
      PROVE  db' = db
  BY <1>2, WorksAlone DEF OthersAlone, IInv
<1>3. ASSUME NEW S \in SUBSET Session, GivesUp(S)
      PROVE  db' = db
  BY <1>3 DEF GivesUp, Quits
<1>4. ASSUME NEW s \in Session, Half(s) \/ Settles(s)
      PROVE  Commits(s)
  BY <1>4 DEF Half, Settles
<1> QED
  BY KindsAre, <1>1, <1>2, <1>3, <1>4

(* A row of pg_database never goes without its DatabaseInfo record, and no *)
(* OID reservation or rename that read the record before writes it back,   *)
(* in any order of commits and on any number of instances.                 *)
THEOREM RecordsGoWithRows ==
  Spec => RecordGoesWithRow
<1> DEFINE Goes == \A d \in Id :
       /\ db.row[d] # None /\ db'.row[d] = None => db'.rec[d] = None
       /\ d \in used /\ Maker(d) = {} /\ db.rec[d] = None => db'.rec[d] = None
<1>1. IInv /\ [Next]_vars => [Goes]_vars
  <2> SUFFICES ASSUME IInv, Next PROVE Goes
    OBVIOUS
  <2>1. Kinds
    BY NextKinds DEF IInv
  <2> QED
    BY <2>1, RecordGoes
<1> QED
  BY <1>1, Inductive, PTL DEF Spec, RecordGoesWithRow

-----------------------------------------------------------------------------
(* What readers of pg_database see *)

LEMMA SeenIs ==
  ASSUME IInv
  PROVE  \A d \in Id :
           Seen[d] = IF db.row[d] # None THEN db.row[d]
                     ELSE IF d \notin used THEN "free"
                     ELSE IF Maker(d) # {} THEN "coming" ELSE "gone"
BY DEF Seen, IInv, WholeRows

LEMMA SeenNext ==
  ASSUME IInv'
  PROVE  /\ Seen' = [d \in Id |-> Seen'[d]]
         /\ \A d \in Id :
              Seen'[d] = IF db'.row[d] # None THEN db'.row[d]
                         ELSE IF d \notin used' THEN "free"
                         ELSE IF Maker(d)' # {} THEN "coming" ELSE "gone"
BY DEF Seen, IInv, WholeRows

(* it depends on the rows, the OIDs handed out and who makes what *)
LEMMA SeenSame ==
  ASSUME IInv, IInv', NEW d \in Id, db'.row[d] = db.row[d],
         d \in used' <=> d \in used,
         \A s \in Session : Names(s, d)' <=> Names(s, d)
  PROVE  Seen'[d] = Seen[d]
<1>1. Maker(d)' = Maker(d)
  BY DEF Maker, Names
<1> QED
  BY <1>1, SeenIs, SeenNext

LEMMA GivesUpSeen ==
  ASSUME IInv, IInv', NEW S \in SUBSET Session, GivesUp(S)
  PROVE  \E D \in SUBSET Id : Atomic!GiveUp(D)
<1> DEFINE D == {d \in Id : Seen'[d] # Seen[d]}
<1>1. db' = db /\ used \subseteq used'
  BY DEF GivesUp, Quits
<1>2. /\ \A s \in S : target'[s] = None
      /\ \A s \in Session \ S : target'[s] = target[s]
  BY LeaveFacts DEF GivesUp, IInv
<1>3. \A d \in Id : Maker(d)' \subseteq Maker(d)
  BY <1>2, PairNotNone DEF Maker
<1>4. \A d \in Id \ used : Maker(d) = {}
  BY DEF Maker, Names, Targets, IInv
<1>5. \A d \in D : Seen[d] \in {"free", "coming"} /\ Seen'[d] = "gone"
  BY <1>1, <1>3, <1>4, SeenIs, SeenNext
<1>6. Seen' = [d \in Id |-> IF d \in D THEN "gone" ELSE Seen[d]]
  BY <1>5, SeenNext
<1>7. Atomic!GiveUp(D)
  BY <1>5, <1>6 DEF Atomic!GiveUp
<1> QED
  BY <1>7

LEMMA CreatesSeen ==
  ASSUME IInv, IInv', NEW s \in Session, NEW d \in Id, NEW n \in Name, Creates(s, d, n)
  PROVE  Atomic!Pick(d)
<1>1. /\ st[s] = "open" /\ target'[s] = <<d, n>> /\ d \notin used /\ used' = used \cup {d}
      /\ db' = db
      /\ \A r \in Session \ {s} : target'[r] = target[r]
  BY DEF Creates, Looks, IInv, TypeOK
<1>2. target[s] = None
  BY <1>1 DEF IInv, Targets
<1>3. s \in Maker(d)'
  BY <1>1 DEF Maker
<1>4. db.row[d] = None
  BY <1>1 DEF IInv, Unused
<1>5. Seen[d] = "free" /\ Seen'[d] = "coming"
  BY <1>1, <1>3, <1>4, SeenIs, SeenNext
<1>6. ASSUME NEW e \in Id, e # d
      PROVE  Seen'[e] = Seen[e]
  <2>1. \A r \in Session : Names(r, e)' <=> Names(r, e)
    BY <1>1, <1>2, <1>6, PairNotNone DEF Names
  <2> QED
    BY <1>1, <1>6, <2>1, SeenSame
<1>7. Seen' = [Seen EXCEPT ![d] = "coming"]
  BY <1>5, <1>6, SeenNext DEF Seen
<1> QED
  BY <1>5, <1>7 DEF Atomic!Pick

(* the commit of CREATE DATABASE *)
LEMMA AppearsSeen ==
  ASSUME IInv, IInv', NEW s \in Session, Settles(s), NEW d \in Id, NEW n \in Name,
         target[s] = <<d, n>>
  PROVE  Atomic!Appear(d, n)
<1>1. /\ target'[s] = None /\ Commits(s) /\ used' = used
      /\ \A r \in Session \ {s} : target'[r] = target[r]
  BY LeaveFacts DEF Settles, IInv
<1>2. st[s] = "done"
  BY PairNotNone DEF Settles, IInv, Targets
<1>3. RowKey(d) \in wr[s] /\ view[s].row[d] = n
  BY <1>2 DEF IInv, Stages
<1>4. db'.row[d] = n
  BY <1>1, <1>3 DEF Commits
<1>5. db.row[d] = None /\ d \in used /\ s \in Maker(d)
  BY DEF IInv, Hidden, Targets, Names, Maker
<1>6. Seen[d] = "coming" /\ Seen'[d] = n
  BY <1>4, <1>5, SeenIs, SeenNext, DatabasesAssumption
<1>7. ASSUME NEW e \in Id, e # d
      PROVE  Seen'[e] = Seen[e]
  <2>1. \A r \in Session : Names(r, e)' <=> Names(r, e)
    BY <1>1, <1>7, PairNotNone DEF Names
  <2>2. target[s] # None
    BY PairNotNone
  <2>3. \A m \in Name : target[s] # <<e, m>>
    BY <1>7
  <2>4. db'.row[e] = db.row[e]
    BY <1>1, <1>2, <2>2, <2>3, CommitsRow DEF Renaming, Dropping
  <2> QED
    BY <1>1, <2>1, <2>4, SeenSame
<1>8. Seen' = [Seen EXCEPT ![d] = n]
  BY <1>6, <1>7, SeenNext DEF Seen
<1> QED
  BY <1>6, <1>8 DEF Atomic!Appear

(* the commit of DROP DATABASE *)
LEMMA DropsSeen ==
  ASSUME IInv, IInv', NEW s \in Session, Settles(s), NEW d \in Id, Dropping(s, d)
  PROVE  Atomic!Drop(d)
<1>1. /\ target'[s] = None /\ Commits(s) /\ used' = used
      /\ \A r \in Session \ {s} : target'[r] = target[r]
  BY LeaveFacts DEF Settles, IInv
<1>2. /\ st[s] = "done" /\ target[s] = None /\ RowKey(d) \in wr[s]
      /\ db.row[d] # None /\ view[s].row[d] = None
      /\ \A e \in Id : RowKey(e) \in wr[s] => e = d
  BY DEF Dropping
<1>3. db'.row[d] = None /\ \A e \in Id : e # d => db'.row[e] = db.row[e]
  BY <1>1, <1>2 DEF Commits
<1>4. \A r \in Session, e \in Id : Names(r, e)' <=> Names(r, e)
  BY <1>1, <1>2 DEF Names
<1>5. \A r \in Session : ~Names(r, d)
  BY <1>2 DEF IInv, Hidden
<1>6. Maker(d)' = {}
  BY <1>4, <1>5 DEF Maker, Names
<1>7. d \in used /\ db.row[d] \in Name
  <2>1. db \in Store
    BY DEF IInv, TypeOK
  <2> QED
    BY <1>2, <2>1, StoreFields DEF IInv, Unused
<1>8. Seen[d] \in Name /\ Seen'[d] = "gone"
  BY <1>1, <1>2, <1>3, <1>6, <1>7, SeenIs, SeenNext
<1>9. ASSUME NEW e \in Id, e # d
      PROVE  Seen'[e] = Seen[e]
  BY <1>1, <1>3, <1>4, <1>9, SeenSame
<1>10. Seen' = [Seen EXCEPT ![d] = "gone"]
  BY <1>8, <1>9, SeenNext DEF Seen
<1> QED
  BY <1>8, <1>10 DEF Atomic!Drop

(* any other commit *)
LEMMA RenamesSeen ==
  ASSUME IInv, IInv', NEW s \in Session, Settles(s), target[s] = None,
         \A d \in Id : ~Dropping(s, d)
  PROVE  \E f \in [Id -> Name] : Atomic!Rename(f)
<1> DEFINE f == [d \in Id |-> IF Seen'[d] \in Name THEN Seen'[d] ELSE TemplateName]
<1>1. /\ target'[s] = None /\ Commits(s) /\ used' = used
      /\ \A r \in Session \ {s} : target'[r] = target[r]
  BY LeaveFacts DEF Settles, IInv
<1>2. \A r \in Session, e \in Id : Names(r, e)' <=> Names(r, e)
  BY <1>1 DEF Names
<1>3. ASSUME NEW d \in Id
      PROVE  \/ Seen'[d] = Seen[d]
             \/ Seen[d] \in Name /\ Seen'[d] \in Name
  <2>1. CASE db'.row[d] = db.row[d]
    BY <1>1, <1>2, <2>1, SeenSame
  <2>2. CASE db'.row[d] # db.row[d]
    <3>1. \A n \in Name : target[s] # <<d, n>>
      BY PairNotNone
    <3>2. Renaming(s, d) /\ db'.row[d] = view[s].row[d]
      BY <1>1, <2>2, <3>1, CommitsRow
    <3>3. db \in Store /\ db' \in Store
      BY DEF IInv, TypeOK
    <3>4. db.row[d] \in Name /\ db'.row[d] \in Name /\ None \notin Name
      BY <3>2, <3>3, StoreFields, DatabasesAssumption DEF Renaming
    <3> QED
      BY <3>4, SeenIs, SeenNext
  <2> QED
    BY <2>1, <2>2
<1>4. f \in [Id -> Name]
  BY DatabasesAssumption
<1>5. Seen' = [d \in Id |-> IF Seen[d] \in Name THEN f[d] ELSE Seen[d]]
  BY <1>3, SeenNext
<1>6. Atomic!Rename(f)
  BY <1>5 DEF Atomic!Rename
<1> QED
  BY <1>4, <1>6

LEMMA StutterSeen ==
  ASSUME IInv, IInv', \A d \in Id : db'.row[d] = db.row[d],
         used' = used, target' = target
  PROVE  Seen' = Seen
<1>1. \A r \in Session, e \in Id : Names(r, e)' <=> Names(r, e)
  BY DEF Names
<1>2. \A d \in Id : Seen'[d] = Seen[d]
  BY <1>1, SeenSame
<1> QED
  BY <1>2, SeenNext DEF Seen

LEMMA WorksSeen ==
  ASSUME IInv, IInv', NEW s \in Session, Works(s)
  PROVE  Seen' = Seen \/ \E d \in Id : Atomic!Pick(d)
<1>1. db' = db
  BY WorksAlone DEF OthersAlone, IInv
<1>2. ASSUME NEW d \in Id, NEW n \in Name, Creates(s, d, n)
      PROVE  \E e \in Id : Atomic!Pick(e)
  BY <1>2, CreatesSeen
<1>3. CASE UNCHANGED <<used, target>>
  BY <1>1, <1>3, StutterSeen
<1>4. ASSUME NEW d \in Id, NEW n \in Name, NEW m \in Name,
             \/ Inserts(s, d, n) \/ Deletes(s, d, n) \/ Renames(s, d, n, m)
      PROVE  UNCHANGED <<used, target>>
  BY <1>4 DEF Inserts, Deletes, Renames
<1>5. ASSUME Uses(s) \/ Starts(s) \/ \E d \in Id : Copies(s, d)
      PROVE  UNCHANGED <<used, target>>
  BY <1>5 DEF Uses, Starts, Copies
<1> QED
  BY <1>2, <1>3, <1>4, <1>5, DatabasesAssumption DEF Works

(* CREATE DATABASE with its two transactions, its collection that is not   *)
(* part of either, and its aborts and restarts at every point, implements  *)
(* databases that appear, are renamed and go in single steps.              *)
THEOREM DatabasesRefine ==
  Spec => ImplementsAtomicDatabases
<1>1. Init => Atomic!Init
  <2> SUFFICES ASSUME Init PROVE Atomic!Init
    OBVIOUS
  <2>1. IInv
    BY InitIInv
  <2>2. \A d \in Id : /\ db.row[d] = IF d = Template THEN TemplateName ELSE None
                      /\ d \notin used <=> d # Template
    BY DEF Init
  <2>3. \A d \in Id : Seen[d] \in Name \cup {"free"}
    BY <2>1, <2>2, SeenIs, DatabasesAssumption
  <2> QED
    BY <2>3 DEF Atomic!Init, Seen
<1>2. IInv /\ IInv' /\ [Next]_vars => [Atomic!Next]_Seen
  <2> SUFFICES ASSUME IInv, IInv', [Next]_vars
               PROVE  Atomic!Next \/ Seen' = Seen
    OBVIOUS
  <2>1. CASE UNCHANGED vars
    BY <2>1, StutterSeen DEF vars
  <2>2. ASSUME NEW S \in SUBSET Session, GivesUp(S)
        PROVE  Atomic!Next
    BY <2>2, GivesUpSeen DEF Atomic!Next
  <2>3. ASSUME NEW s \in Session, Works(s)
        PROVE  Atomic!Next \/ Seen' = Seen
    BY <2>3, WorksSeen DEF Atomic!Next
  <2>4. ASSUME NEW s \in Session, Half(s)
        PROVE  Seen' = Seen
    <3>1. Commits(s) /\ st[s] = "named" /\ used' = used /\ target' = target
      BY <2>4 DEF Half
    <3>2. \A d \in Id : db'.row[d] = db.row[d]
      BY <3>1, NoRowYet DEF Commits, IInv
    <3> QED
      BY <3>1, <3>2, StutterSeen
  <2>5. ASSUME NEW s \in Session, Settles(s)
        PROVE  Atomic!Next
    <3>1. ASSUME NEW d \in Id, NEW n \in Name, target[s] = <<d, n>>
          PROVE  Atomic!Next
      BY <2>5, <3>1, AppearsSeen DEF Atomic!Next
    <3>2. ASSUME NEW d \in Id, Dropping(s, d)
          PROVE  Atomic!Next
      BY <2>5, <3>2, DropsSeen DEF Atomic!Next
    <3>3. CASE target[s] = None /\ \A d \in Id : ~Dropping(s, d)
      BY <2>5, <3>3, RenamesSeen DEF Atomic!Next
    <3>4. target[s] = None \/ \E d \in Id, n \in Name : target[s] = <<d, n>>
      BY DEF IInv, TypeOK
    <3> QED
      BY <3>1, <3>2, <3>3, <3>4
  <2>6. Next => Kinds
    BY NextKinds DEF IInv
  <2> QED
    BY <2>1, <2>2, <2>3, <2>4, <2>5, <2>6, KindsAre
<1> QED
  BY <1>1, <1>2, Inductive, PTL DEF Spec, ImplementsAtomicDatabases, Atomic!Spec
=============================================================================
