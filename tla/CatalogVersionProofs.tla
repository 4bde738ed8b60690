------------------------ MODULE CatalogVersionProofs ------------------------
(***************************************************************************)
(* Proofs about CatalogVersion, for any number of instances, any number of *)
(* sessions in each, and any number of versions.                           *)
(***************************************************************************)
EXTENDS CatalogVersion, TLAPS

(* A version written but not committed counts up from the committed one,   *)
(* and only one transaction holds such a version.                          *)
PendingCounts ==
  \A s \in Session : pend[s] # 0 =>
    /\ st[s] \in {"open", "count", "add"}
    /\ ~killed[s]
    /\ snap[s] = master
    /\ pend[s] = snap[s] + bumped[s]

NothingPending ==
  \A s \in Session : pend[s] = 0 /\ ~killed[s] => bumped[s] = 0

OnePending ==
  \A s, t \in Session : s # t => pend[s] = 0 \/ pend[t] = 0

CountInv == PendingCounts /\ NothingPending /\ OnePending /\ NoLostIncrement

(* The initial state: everything at version 1, no transaction open. *)
LEMMA InitHolds == Init => TypeOK /\ CountInv
<1> SUFFICES ASSUME Init PROVE TypeOK /\ CountInv
  OBVIOUS
<1> USE DEF Init
<1>1. 0 \in Version /\ 1 \in Version
  BY VersionAssumption DEF Version
<1>2. TypeOK
  BY <1>1 DEF TypeOK, Where
<1>3. CountInv
  BY DEF CountInv, PendingCounts, NothingPending, OnePending, NoLostIncrement
<1> QED
  BY <1>2, <1>3

(* TypeOK is inductive: no refresh, increment or roll back leaves the      *)
(* ranges of the counters.                                                 *)
LEMMA TypeStep == TypeOK /\ [Next]_vars => TypeOK'
<1> SUFFICES ASSUME TypeOK, [Next]_vars PROVE TypeOK'
  OBVIOUS
<1> USE VersionAssumption DEF txn, TypeOK, Version, Where, Goto
<1>1. CASE UNCHANGED vars
  BY <1>1 DEF vars
<1>2. ASSUME NEW s \in Session, Step(s) \/ RefreshFails(s) \/ SkvAborts(s) PROVE TypeOK'
  <2> InstOf(s) \in Inst
    BY DEF InstOf
  <2>1. CASE CheckShared(s)
    BY <2>1 DEF CheckShared
  <2>2. CASE Begin(s)
    BY <2>2 DEF Begin
  <2>3. CASE LoopTop(s)
    BY <2>3 DEF LoopTop
  <2>4. CASE RefreshLoad(s)
    BY <2>4 DEF RefreshLoad
  <2>5. CASE RefreshPublish(s)
    BY <2>5 DEF RefreshPublish
  <2>6. CASE CatalogChange(s)
    BY <2>6 DEF CatalogChange, RecordWritten, Bounded, NextVer, ReadVer
  <2>7. CASE CatalogChangeFails(s)
    <3>1. /\ mgr' \in [Inst -> Version] /\ pend' \in [Session -> Version]
          /\ bumped' \in [Session -> Version]
      BY <2>7 DEF CatalogChangeFails, RecordWritten, Bounded, NextVer, ReadVer, Reverted
    <3> QED
      BY <2>7, <3>1 DEF CatalogChangeFails
  <2>8. CASE StatementError(s)
    <3>1. rolled' \in [Inst -> BOOLEAN] /\ need' \in [Inst -> BOOLEAN]
      BY <2>8 DEF StatementError, RollBack
    <3> QED
      BY <2>8, <3>1 DEF StatementError, RollBack
  <2>9. CASE Rollback(s)
    BY <2>9 DEF Rollback, RollBack
  <2>10. CASE Commit(s)
    BY <2>10 DEF Commit
  <2>11. CASE SkvAborts(s)
    BY <2>11 DEF SkvAborts
  <2>12. CASE RefreshFails(s)
    <3>1. stale' \in [Session -> BOOLEAN]
      BY <2>12 DEF RefreshFails
    <3>2. got' \in [Session -> Version] /\ st' \in [Session -> Where]
      BY <2>12 DEF RefreshFails
    <3> QED
      BY <2>12, <3>1, <3>2 DEF RefreshFails
  <2>13. CASE RefreshFetch(s)
    BY <2>13 DEF RefreshFetch
  <2>14. CASE AddRead(s)
    BY <2>14 DEF AddRead
  <2>15. CASE AddWrite(s)
    BY <2>15 DEF AddWrite
  <2> QED
    BY <1>2, <2>1, <2>2, <2>3, <2>4, <2>5, <2>6, <2>7, <2>8, <2>9, <2>10,
       <2>11, <2>12, <2>13, <2>14, <2>15 DEF Step, End
<1> QED
  BY <1>1, <1>2 DEF Next

(* CountInv is inductive.  Increments need NoConflict, which makes the     *)
(* writer the only one and its snapshot the committed version; a commit    *)
(* moves master and bumps by the same amount.                              *)
LEMMA CountStep == TypeOK /\ CountInv /\ [Next]_vars => CountInv'
<1> SUFFICES ASSUME TypeOK, CountInv, [Next]_vars PROVE CountInv'
  OBVIOUS
<1> USE DEF txn, CountInv, PendingCounts, NothingPending, OnePending,
            NoLostIncrement, Goto
<1>1. CASE UNCHANGED vars
  BY <1>1 DEF vars
<1>2. ASSUME NEW s \in Session, Step(s) \/ RefreshFails(s) \/ SkvAborts(s) PROVE CountInv'
  <2> USE DEF TypeOK, Version
  <2>1. CASE CheckShared(s)
    BY <2>1 DEF CheckShared
  <2>2. CASE Begin(s)
    BY <2>2 DEF Begin
  <2>3. CASE LoopTop(s)
    BY <2>3 DEF LoopTop
  <2>4. CASE RefreshLoad(s)
    BY <2>4 DEF RefreshLoad
  <2>5. CASE RefreshPublish(s)
    BY <2>5 DEF RefreshPublish
  <2>6. CASE CatalogChange(s)
    BY <2>6, VersionAssumption DEF CatalogChange, RecordWritten, NextVer, ReadVer, NoConflict
  <2>7. CASE CatalogChangeFails(s)
    <3>1. CASE UNCHANGED <<pend, bumped>>
      BY <2>7, <3>1 DEF CatalogChangeFails
    <3>2. CASE NoConflict(s) /\ Bounded(s) /\ RecordWritten(s)
      BY <2>7, <3>2, VersionAssumption
      DEF CatalogChangeFails, RecordWritten, NextVer, ReadVer, NoConflict
    <3> QED
      BY <2>7, <3>1, <3>2 DEF CatalogChangeFails
  <2>8. CASE StatementError(s)
    BY <2>8 DEF StatementError, RollBack
  <2>9. CASE Rollback(s)
    BY <2>9 DEF Rollback, RollBack
  <2>10. CASE Commit(s)
    <3>1. /\ master' = IF pend[s] = 0 THEN master ELSE pend[s]
          /\ bumps' = bumps + bumped[s]
          /\ pend' = [pend EXCEPT ![s] = 0] /\ bumped' = [bumped EXCEPT ![s] = 0]
          /\ snap' = [snap EXCEPT ![s] = 0] /\ ~killed[s]
          /\ st' = [st EXCEPT ![s] = "done"] /\ killed' = killed
      BY <2>10 DEF Commit
    <3> QED
      BY <3>1
  <2>11. CASE SkvAborts(s)
    BY <2>11 DEF SkvAborts
  <2>12. CASE RefreshFails(s)
    BY <2>12 DEF RefreshFails
  <2>13. CASE RefreshFetch(s)
    BY <2>13 DEF RefreshFetch
  <2>14. CASE AddRead(s)
    BY <2>14 DEF AddRead
  <2>15. CASE AddWrite(s)
    BY <2>15 DEF AddWrite
  <2> QED
    BY <1>2, <2>1, <2>2, <2>3, <2>4, <2>5, <2>6, <2>7, <2>8, <2>9, <2>10,
       <2>11, <2>12, <2>13, <2>14, <2>15 DEF Step, End
<1> QED
  BY <1>1, <1>2 DEF Next

(* Every state of every run is well typed. *)
THEOREM TypeCorrect == Spec => []TypeOK
<1>1. Init => TypeOK
  BY InitHolds
<1> QED
  BY <1>1, TypeStep, PTL DEF Spec

(* For any number of instances and sessions, the master version counts the *)
(* increments of committed transactions: none is lost when instances race  *)
(* in IncrementCatalogVersion, and none survives a roll back.              *)
THEOREM MasterCountsIncrements == Spec => []NoLostIncrement
<1>1. Init => TypeOK /\ CountInv
  BY InitHolds
<1>2. TypeOK /\ CountInv /\ [Next]_vars => (TypeOK /\ CountInv)'
  BY TypeStep, CountStep
<1>3. CountInv => NoLostIncrement
  BY DEF CountInv
<1> QED
  BY <1>1, <1>2, <1>3, PTL DEF Spec

-----------------------------------------------------------------------------
(* The manager's copy.  Snapshots are not ahead of the master, so what     *)
(* IncrementCatalogVersion reads is ahead by the transaction's own         *)
(* increments at most.                                                     *)

ManagerInv ==
  /\ \A s \in Session : snap[s] <= master
  /\ ManagerNotAhead

(* What a transaction reads or writes of the record *)
LEMMA ReadBound ==
  ASSUME TypeOK, CountInv, ManagerInv, NEW s \in Session
  PROVE  ReadVer(s) \in Nat /\ ReadVer(s) <= master + bumped[s]
BY VersionAssumption DEF TypeOK, Version, ReadVer, CountInv, PendingCounts, ManagerInv

(* An increment takes the copy no further than its transaction has come; a *)
(* failed one takes it back to what was read; a commit moves the record by *)
(* what its transaction counted.                                           *)
LEMMA ManagerStep ==
  ASSUME TypeOK, CountInv, ManagerInv, [Next]_vars
  PROVE  ManagerInv'
<1> USE DEF Goto, txn
<1>0. /\ master \in Nat /\ ManagerNotAhead
      /\ \A i \in Inst : mgr[i] \in Nat
      /\ \A s \in Session :
           /\ InstOf(s) \in Inst /\ snap[s] \in Nat /\ pend[s] \in Nat /\ bumped[s] \in Nat
           /\ snap[s] <= master
  BY VersionAssumption DEF TypeOK, Version, ManagerInv, InstOf
<1>1. CASE UNCHANGED <<home, master, mgr, snap, bumped, rolled>>
  BY <1>0, <1>1 DEF ManagerInv, ManagerNotAhead, InstOf
<1>2. ASSUME NEW s \in Session, Begin(s) PROVE ManagerInv'
  BY <1>0, <1>2 DEF Begin, ManagerInv, ManagerNotAhead, InstOf, TypeOK
<1>3. ASSUME NEW s \in Session, NoConflict(s), RecordWritten(s),
             mgr' = [mgr EXCEPT ![InstOf(s)] = NextVer(s)],
             UNCHANGED <<home, master, snap, rolled>>
      PROVE  ManagerInv'
  <2>1. /\ bumped'[s] = bumped[s] + 1
        /\ \A t \in Session : bumped'[t] \in Nat /\ bumped[t] <= bumped'[t]
    BY <1>0, <1>3 DEF RecordWritten, TypeOK
  <2>2. NextVer(s) <= master + bumped'[s]
    BY <1>0, <2>1, ReadBound DEF NextVer
  <2>3. /\ mgr'[InstOf(s)] = NextVer(s)
        /\ \A i \in Inst : i # InstOf(s) => mgr'[i] = mgr[i]
    BY <1>0, <1>3 DEF TypeOK
  <2> QED
    BY <1>0, <1>3, <2>1, <2>2, <2>3 DEF ManagerInv, ManagerNotAhead, InstOf
<1>4. ASSUME NEW s \in Session, CatalogChangeFails(s) PROVE ManagerInv'
  <2>1. /\ \A t \in Session : bumped'[t] \in Nat /\ bumped[t] <= bumped'[t]
        /\ UNCHANGED <<home, master, snap, rolled>>
    BY <1>0, <1>4 DEF CatalogChangeFails, RecordWritten, TypeOK
  <2>2. \A i \in Inst : \/ mgr'[i] = mgr[i]
                        \/ i = InstOf(s) /\ mgr'[i] = ReadVer(s)
    BY <1>0, <1>4 DEF CatalogChangeFails, Reverted, TypeOK
  <2>3. ReadVer(s) \in Nat /\ ReadVer(s) <= master + bumped'[s]
    BY <1>0, <2>1, ReadBound
  <2> QED
    BY <1>0, <2>1, <2>2, <2>3 DEF ManagerInv, ManagerNotAhead, InstOf
<1>5. ASSUME NEW s \in Session, RollBack(s), UNCHANGED <<home, master, mgr>>
      PROVE  ManagerInv'
  <2>1. /\ bumped'[s] = 0 /\ snap'[s] = 0
        /\ \A t \in Session : t # s => bumped'[t] = bumped[t] /\ snap'[t] = snap[t]
    BY <1>0, <1>5 DEF RollBack, TypeOK
  <2>2. \A i \in Inst : ~rolled'[i] => ~rolled[i] /\ ~(i = InstOf(s) /\ bumped[s] > 0)
    BY <1>5, Zenon DEF RollBack, TypeOK
  <2>3. \A i \in Inst : ~rolled'[i] => ~rolled[i] /\ (i = InstOf(s) => bumped[s] = 0)
    BY <1>0, <2>2
  <2> QED
    BY <1>0, <1>5, <2>1, <2>3 DEF ManagerInv, ManagerNotAhead, InstOf
<1>6. ASSUME NEW s \in Session, Commit(s) PROVE ManagerInv'
  <2>1. /\ bumped'[s] = 0 /\ snap'[s] = 0 /\ ~killed[s]
        /\ \A t \in Session : t # s => bumped'[t] = bumped[t] /\ snap'[t] = snap[t]
        /\ master' = IF pend[s] = 0 THEN master ELSE pend[s]
        /\ UNCHANGED <<home, mgr, rolled>>
    BY <1>0, <1>6 DEF Commit, TypeOK
  <2>2. master' = master + bumped[s]
    BY <1>0, <2>1 DEF CountInv, PendingCounts, NothingPending
  <2>3. master' \in Nat /\ master <= master'
    BY <1>0, <2>2
  <2> QED
    BY <1>0, <2>1, <2>2, <2>3 DEF ManagerInv, ManagerNotAhead, InstOf
<1>7. ASSUME NEW s \in Session, Step(s) \/ RefreshFails(s) \/ SkvAborts(s) PROVE ManagerInv'
  <2>1. CASE CatalogChange(s)
    BY <1>3, <2>1 DEF CatalogChange
  <2>2. CASE StatementError(s)
    BY <1>5, <2>2 DEF StatementError
  <2>3. CASE Rollback(s)
    BY <1>5, <2>3 DEF Rollback
  <2>4. CASE \/ CheckShared(s) \/ LoopTop(s) \/ RefreshFetch(s) \/ RefreshLoad(s)
             \/ RefreshPublish(s) \/ AddRead(s) \/ AddWrite(s) \/ RefreshFails(s)
             \/ SkvAborts(s)
    BY <1>1, <2>4 DEF CheckShared, LoopTop, RefreshFetch, RefreshLoad, RefreshPublish,
                      AddRead, AddWrite, RefreshFails, SkvAborts
  <2> QED
    BY <1>2, <1>4, <1>6, <1>7, <2>1, <2>2, <2>3, <2>4 DEF Step, End
<1>8. CASE UNCHANGED vars
  BY <1>1, <1>8 DEF vars
<1> QED
  BY <1>7, <1>8 DEF Next

(* For any number of instances and sessions, the version a refresh fetches *)
(* is one the record has reached, or will reach if an open transaction of  *)
(* the same instance commits; unless one of the instance's increments was  *)
(* rolled back.                                                            *)
THEOREM ManagerBehindRecord == Spec => []ManagerNotAhead
<1>1. Init => ManagerInv
  BY DEF Init, ManagerInv, ManagerNotAhead
<1>2. TypeOK /\ CountInv /\ ManagerInv /\ [Next]_vars => ManagerInv'
  BY ManagerStep
<1>3. ManagerInv => ManagerNotAhead
  BY DEF ManagerInv
<1> QED
  BY InitHolds, TypeStep, CountStep, <1>1, <1>2, <1>3, PTL DEF Spec
=============================================================================
