--------------------------- MODULE CatalogVersion ---------------------------
(***************************************************************************)
(* The catalog version that tells backends when their system caches are    *)
(* out of date.                                                            *)
(*                                                                         *)
(* The master version is a field of the cluster record in SKV.  Each       *)
(* instance keeps two copies: catalog_version_ in its SqlCatalogManager    *)
(* and k2pg_catalog_cache_version, a process-wide variable next to the     *)
(* caches, which belong to the sessions.  A change of the system catalog   *)
(* increments the record in the caller's own SKV transaction, the          *)
(* manager's copy with it and, most of them, the process-wide copy         *)
(* afterwards.                                                             *)
(*                                                                         *)
(* A session is a backend thread of one instance, and the threads of an    *)
(* instance share both copies.  The store (K23SI) is external: a           *)
(* transaction reads the snapshot of its start, and its write fails when   *)
(* the record changed since or someone else's intent is on it.             *)
(***************************************************************************)
EXTENDS Naturals, FiniteSets

CONSTANTS
  Inst,      \* gaussdb instances
  Session,   \* sessions of all instances
  MaxVer     \* bound: versions

ASSUME VersionAssumption == MaxVer \in Nat \ {0}

Version == 0 .. MaxVer

VARIABLES
  home,      \* home[s]: the instance session s is connected to
  master,    \* committed catalog_version of the cluster record
  mgr,       \* mgr[i]: catalog_version_ of the SqlCatalogManager of i
  cacheVer,  \* cacheVer[i]: k2pg_catalog_cache_version of process i
  need,      \* need[i]: k2pg_need_cache_refresh of process i
  st,        \* st[s]: where session s is in PostgresMain
  snap,      \* snap[s]: version its SKV transaction reads
  pend,      \* pend[s]: version it has written, 0 if none
  bumped,    \* bumped[s]: increments of its open transaction
  changed,   \* has the transaction of s changed catalog rows, and did it
             \* count every change
  killed,    \* has SKV aborted the transaction of s
  got,       \* got[s]: version K2PgRefreshCache has fetched
  reg,       \* reg[s]: what "+= 1" has read of the process-wide copy
  stale,     \* stale[s]: do the caches of s miss a committed change
  bumps,     \* increments by transactions that committed
  rolled,    \* rolled[i]: has an increment of instance i been rolled back
  missed     \* has a change committed that was not counted

InstOf(s) == home[s]
txn == <<snap, pend, bumped, changed, killed>>
vars == <<home, master, mgr, cacheVer, need, st, txn, got, reg, stale, bumps, rolled,
          missed>>

(* "count" and "add": in the transaction, before and inside the "+= 1".    *)
(* A refresh ends in "Done" states when no command is waiting for it.      *)
Where == {"idle", "ready", "open", "count", "add", "done",
          "fetch", "load", "publish", "fetchDone", "loadDone", "publishDone"}

TypeOK ==
  /\ home \in [Session -> Inst]
  /\ master \in Version
  /\ mgr \in [Inst -> Version]
  /\ cacheVer \in [Inst -> Nat]
  /\ need \in [Inst -> BOOLEAN]
  /\ st \in [Session -> Where]
  /\ snap \in [Session -> Version]
  /\ pend \in [Session -> Version]
  /\ bumped \in [Session -> Version]
  /\ changed \in [Session -> {"no", "counted", "uncounted"}]
  /\ killed \in [Session -> BOOLEAN]
  /\ got \in [Session -> Version]
  /\ reg \in [Session -> Nat]
  /\ stale \in [Session -> BOOLEAN]
  /\ bumps \in Nat
  /\ rolled \in [Inst -> BOOLEAN]
  /\ missed \in BOOLEAN

(* A running cluster whose sessions have loaded version 1 *)
Init ==
  /\ home \in [Session -> Inst]
  /\ master = 1
  /\ mgr = [i \in Inst |-> 1]
  /\ cacheVer = [i \in Inst |-> 1]
  /\ need = [i \in Inst |-> FALSE]
  /\ st = [s \in Session |-> "idle"]
  /\ snap = [s \in Session |-> 0]
  /\ pend = [s \in Session |-> 0]
  /\ bumped = [s \in Session |-> 0]
  /\ changed = [s \in Session |-> "no"]
  /\ killed = [s \in Session |-> FALSE]
  /\ got = [s \in Session |-> 0]
  /\ reg = [s \in Session |-> 0]
  /\ stale = [s \in Session |-> FALSE]
  /\ bumps = 0
  /\ rolled = [i \in Inst |-> FALSE]
  /\ missed = FALSE

Goto(s, w) == st' = [st EXCEPT ![s] = w]

-----------------------------------------------------------------------------
(* mutant: the comparison is the other way round *)
OutOfDateSwapped(i) == mgr[i] < cacheVer[i]

(* K2PgCheckSharedCatalogCacheVersion's test, when a command arrives       *)
(* outside a transaction: both sides are local to the instance             *)
OutOfDate(i) == cacheVer[i] < mgr[i]

(* a command arrives and the caches are reloaded first *)
CheckShared(s) ==
  /\ st[s] = "idle"
  /\ OutOfDate(InstOf(s))
  /\ Goto(s, "fetch")
  /\ UNCHANGED <<home, master, mgr, cacheVer, need, txn, got, reg, stale, bumps, rolled, missed>>

(* a command arrives, or goes on after the reload: its transaction starts  *)
Begin(s) ==
  /\ \/ st[s] = "ready"
     \/ st[s] = "idle" /\ ~OutOfDate(InstOf(s))
  /\ snap' = [snap EXCEPT ![s] = master]
  /\ Goto(s, "open")
  /\ UNCHANGED <<home, master, mgr, cacheVer, need, pend, bumped, changed, killed, got, reg,
                 stale, bumps, rolled, missed>>

(* the top of PostgresMain's loop, with no transaction open *)
LoopTop(s) ==
  /\ st[s] = "done"
  /\ Goto(s, IF need[InstOf(s)] THEN "fetchDone" ELSE "idle")
  /\ UNCHANGED <<home, master, mgr, cacheVer, need, txn, got, reg, stale, bumps, rolled, missed>>

(***************************************************************************)
(* K2PgRefreshCache: fetch the manager's version, reload the caches of     *)
(* this session in a transaction of its own, then publish the version for  *)
(* the whole process.  Other sessions take steps in between.               *)
(***************************************************************************)
RefreshFetch(s) ==
  /\ st[s] \in {"fetch", "fetchDone"}
  /\ got' = [got EXCEPT ![s] = mgr[InstOf(s)]]
  /\ Goto(s, IF st[s] = "fetch" THEN "load" ELSE "loadDone")
  /\ UNCHANGED <<home, master, mgr, cacheVer, need, txn, reg, stale, bumps, rolled, missed>>

RefreshLoad(s) ==
  /\ st[s] \in {"load", "loadDone"}
  /\ stale' = [stale EXCEPT ![s] = FALSE]
  /\ Goto(s, IF st[s] = "load" THEN "publish" ELSE "publishDone")
  /\ UNCHANGED <<home, master, mgr, cacheVer, need, txn, got, reg, bumps, rolled, missed>>

(* an ERROR while the caches are reloaded (the SKV transaction does not    *)
(* start, a catalog read fails): nothing is published.  The caches may     *)
(* have been emptied already, which makes them miss nothing.               *)
RefreshFails(s) ==
  /\ st[s] \in {"load", "loadDone"}
  /\ UNCHANGED stale \/ stale' = [stale EXCEPT ![s] = FALSE]
  /\ got' = [got EXCEPT ![s] = 0]
  /\ Goto(s, "done")
  /\ UNCHANGED <<home, master, mgr, cacheVer, need, txn, reg, bumps, rolled, missed>>

RefreshPublish(s) ==
  /\ st[s] \in {"publish", "publishDone"}
  /\ cacheVer' = [cacheVer EXCEPT ![InstOf(s)] = got[s]]
  /\ need' = [need EXCEPT ![InstOf(s)] = FALSE]
  /\ got' = [got EXCEPT ![s] = 0]
  /\ Goto(s, IF st[s] = "publish" THEN "ready" ELSE "idle")
  /\ UNCHANGED <<home, master, mgr, txn, reg, stale, bumps, rolled, missed>>

-----------------------------------------------------------------------------
(* IncrementCatalogVersion *)

(* what GetClusterInfo returns inside the transaction of s *)
ReadVer(s) == IF pend[s] # 0 THEN pend[s] ELSE snap[s]

(* mutant: counts the row and its index entry *)
NextVerTwice(s) == ReadVer(s) + 2

NextVer(s) == ReadVer(s) + 1

(* mutant: last writer wins *)
NoConflictBlind(s) == ~killed[s]

(* K23SI lets s write the cluster record *)
NoConflict(s) ==
  /\ ~killed[s]
  /\ master = snap[s]
  /\ \A t \in Session \ {s} : pend[t] = 0

(* the new version is an intent of the transaction of s *)
RecordWritten(s) ==
  /\ pend' = [pend EXCEPT ![s] = NextVer(s)]
  /\ bumped' = [bumped EXCEPT ![s] = @ + 1]

(* bound on increments *)
Bounded(s) ==
  /\ ReadVer(s) < MaxVer
  /\ bumped[s] < MaxVer
  /\ cacheVer[InstOf(s)] < MaxVer
  /\ \A t \in Session : reg[t] < MaxVer

(***************************************************************************)
(* A change of a system catalog row: the row is written, then the          *)
(* manager's copy and the record go up.  K2PgExecuteInsert and its         *)
(* siblings go on to raise the process-wide copy; K2PgUpdateSysCatalogTuple *)
(* and K2PgDeleteSysCatalogTuple leave it alone.                           *)
(***************************************************************************)
CatalogChange(s) ==
  /\ st[s] = "open"
  /\ NoConflict(s)
  /\ Bounded(s)
  /\ RecordWritten(s)
  /\ mgr' = [mgr EXCEPT ![InstOf(s)] = NextVer(s)]
  /\ changed' = [changed EXCEPT ![s] = IF @ = "no" THEN "counted" ELSE @]
  /\ Goto(s, "count") \/ UNCHANGED st
  /\ UNCHANGED <<home, master, cacheVer, need, snap, killed, got, reg, stale, bumps, rolled, missed>>

(* "k2pg_catalog_cache_version += 1" holds no lock: it reads ...           *)
AddRead(s) ==
  /\ st[s] = "count"
  /\ reg' = [reg EXCEPT ![s] = cacheVer[InstOf(s)]]
  /\ Goto(s, "add")
  /\ UNCHANGED <<home, master, mgr, cacheVer, need, txn, got, stale, bumps, rolled, missed>>

(* ... and writes, whatever another thread has published in between        *)
AddWrite(s) ==
  /\ st[s] = "add"
  /\ cacheVer' = [cacheVer EXCEPT ![InstOf(s)] = reg[s] + 1]
  /\ reg' = [reg EXCEPT ![s] = 0]
  /\ Goto(s, "open")
  /\ UNCHANGED <<home, master, mgr, need, txn, got, stale, bumps, rolled, missed>>

(* mutant: catalog_version_ keeps the increment that failed *)
RevertedNot(s) == NextVer(s)

(* catalog_version_ after UpdateClusterInfo has failed: what was read,     *)
(* which the transaction's snapshot may have made an old version           *)
Reverted(s) == ReadVer(s)

(***************************************************************************)
(* The row is written and then IncrementCatalogVersion fails: its read     *)
(* does, or its update does (a conflict, or no answer, when SKV may have   *)
(* carried it out).  AbortTransaction of the manager is empty: the         *)
(* statement ends with an ERROR (StatementError), unless an exception      *)
(* block catches it and the transaction goes on.                           *)
(***************************************************************************)
CatalogChangeFails(s) ==
  /\ st[s] = "open"
  /\ changed' = [changed EXCEPT ![s] = "uncounted"]
  /\ \/ UNCHANGED <<mgr, pend, bumped>>
     \/ /\ mgr' = [mgr EXCEPT ![InstOf(s)] = Reverted(s)]
        /\ \/ UNCHANGED <<pend, bumped>>
           \/ NoConflict(s) /\ Bounded(s) /\ RecordWritten(s)
  /\ UNCHANGED <<home, master, cacheVer, need, st, snap, killed, got, reg, stale, bumps, rolled, missed>>

(* The transaction of s ends without its writes *)
RollBack(s) ==
  /\ pend' = [pend EXCEPT ![s] = 0]
  /\ bumped' = [bumped EXCEPT ![s] = 0]
  /\ changed' = [changed EXCEPT ![s] = "no"]
  /\ killed' = [killed EXCEPT ![s] = FALSE]
  /\ snap' = [snap EXCEPT ![s] = 0]
  /\ rolled' = [rolled EXCEPT ![InstOf(s)] = @ \/ bumped[s] > 0]

(***************************************************************************)
(* An ERROR in a statement.  K2PgPrepareCacheRefreshIfNeeded asks for a    *)
(* refresh when the two local copies differ; a lone DML statement aborts   *)
(* and refreshes at once, any other aborts and refreshes at the top of the *)
(* loop.                                                                   *)
(***************************************************************************)
StatementError(s) ==
  LET i == InstOf(s)
      differ == cacheVer[i] # mgr[i]
  IN
  /\ st[s] = "open"
  /\ need' = [need EXCEPT ![i] = @ \/ differ]
  /\ RollBack(s)
  /\ Goto(s, "done") \/ (differ /\ Goto(s, "fetchDone"))
  /\ UNCHANGED <<home, master, mgr, cacheVer, got, reg, stale, bumps, missed>>

(* ROLLBACK, or a commit that SKV refused *)
Rollback(s) ==
  /\ st[s] = "open"
  /\ RollBack(s)
  /\ Goto(s, "done")
  /\ UNCHANGED <<home, master, mgr, cacheVer, need, got, reg, stale, bumps, missed>>

(***************************************************************************)
(* Commit.  Sessions of other instances hear nothing of the change.  Those *)
(* of the same instance get PostgreSQL's invalidation messages; one with a *)
(* transaction open, that of a refresh included, may have its entries from *)
(* an old snapshot all the same.                                           *)
(***************************************************************************)
InTransaction(t) == st[t] \in {"open", "count", "add", "publish", "publishDone"}

Commit(s) ==
  /\ st[s] = "open"
  /\ ~killed[s]
  /\ master' = IF pend[s] = 0 THEN master ELSE pend[s]
  /\ bumps' = bumps + bumped[s]
  /\ \E old \in SUBSET {t \in Session \ {s} : InstOf(t) = InstOf(s) /\ InTransaction(t)} :
       stale' = [t \in Session |->
                   stale[t] \/ (changed[s] # "no" /\ (InstOf(t) # InstOf(s) \/ t \in old))]
  /\ pend' = [pend EXCEPT ![s] = 0]
  /\ bumped' = [bumped EXCEPT ![s] = 0]
  /\ changed' = [changed EXCEPT ![s] = "no"]
  /\ missed' = (missed \/ changed[s] = "uncounted")
  /\ snap' = [snap EXCEPT ![s] = 0]
  /\ Goto(s, "done")
  /\ UNCHANGED <<home, mgr, cacheVer, need, killed, got, reg, rolled>>

(* a conflicting transaction pushes the one of s *)
SkvAborts(s) ==
  /\ changed[s] # "no"
  /\ killed' = [killed EXCEPT ![s] = TRUE]
  /\ pend' = [pend EXCEPT ![s] = 0]
  /\ UNCHANGED <<home, master, mgr, cacheVer, need, st, snap, bumped, changed, got, reg, stale,
                 bumps, rolled, missed>>

End(s) == StatementError(s) \/ Rollback(s) \/ Commit(s)

Step(s) ==
  \/ CheckShared(s) \/ Begin(s) \/ LoopTop(s)
  \/ RefreshFetch(s) \/ RefreshLoad(s) \/ RefreshPublish(s)
  \/ CatalogChange(s) \/ AddRead(s) \/ AddWrite(s) \/ CatalogChangeFails(s)
  \/ End(s)

Next == \E s \in Session : Step(s) \/ RefreshFails(s) \/ SkvAborts(s)

Spec == Init /\ [][Next]_vars

(* Every client keeps sending commands and ends its transactions, every    *)
(* command ends (an SKV call answers or times out), and a refresh does not *)
(* fail every time.                                                        *)
Fairness ==
  \A s \in Session :
    WF_vars(Step(s)) /\ WF_vars(End(s)) /\ SF_vars(RefreshLoad(s))

FairSpec == Spec /\ Fairness

-----------------------------------------------------------------------------
(* No increment is lost, whichever instances race and whoever is pushed or *)
(* rolled back: the record counts the increments of committed transactions *)
(* exactly, so two different catalogs never carry one committed version.   *)
NoLostIncrement == master = 1 + bumps

(* The manager's copy, which every refresh of the instance fetches and     *)
(* publishes, is never ahead of the record by more than one of the         *)
(* instance's own open transactions has added, however many backends race  *)
(* in IncrementCatalogVersion, fail there and go on; only an increment     *)
(* that was rolled back leaves it ahead, since nothing takes it back.      *)
ManagerNotAhead ==
  \A i \in Inst : ~rolled[i] =>
    \/ mgr[i] <= master
    \/ \E s \in Session : InstOf(s) = i /\ mgr[i] <= master + bumped[s]

(* An instance that has made changes itself catches up: once its manager   *)
(* is ahead of its caches, some later command publishes a newer version or *)
(* the manager falls back.                                                 *)
OwnChangesSeen ==
  \A i \in Inst : cacheVer[i] < mgr[i] ~> cacheVer[i] >= mgr[i]

Quiet(i) == \A s \in Session : InstOf(s) = i => st[s] \in {"idle", "ready"}

(* What k2pg_aux.h relies on: "If the catalog cache version here is        *)
(* actually the latest (master) version, then the catalog data is indeed   *)
(* up to date."  Asked only where it should hold most easily: between      *)
(* transactions, in a cluster where no increment was rolled back and no    *)
(* change committed without one.                                           *)
CacheValid ==
  (\A i \in Inst : ~rolled[i]) /\ ~missed =>
    \A s \in Session : Quiet(InstOf(s)) /\ cacheVer[InstOf(s)] = master => ~stale[s]

=============================================================================
