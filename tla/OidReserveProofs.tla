-------------------------- MODULE OidReserveProofs --------------------------
(***************************************************************************)
(* Proofs about OidReserve, for any number of instances, databases and     *)
(* backends, any width of an Oid and any size of a range.                  *)
(***************************************************************************)
EXTENDS OidReserve, TLAPS

(* OidGenLock is a lock: whoever is inside ReservePgOid holds it, so       *)
(* nobody else moves the instance's counter, which is past the system OIDs *)
LockInv ==
  \A s \in Session : st[s] \in {"reading", "writing"} =>
    /\ lock[InstOf(s)] = s
    /\ FirstNormal <= nextOid[InstOf(s)]

(* between the read and the write of ReservePgOid *)
WriteInv ==
  \A s \in Session : st[s] = "writing" =>
    /\ base[s] # None
    /\ begin[s] < MaxOid
    /\ nextOid[InstOf(s)] <= begin[s]
    /\ ~killed[s] => base[s] <= begin[s] /\ (pend[s] # None => pend[s] <= begin[s])

(* a transaction with a write intent has seen the committed record, and    *)
(* what it has reserved lies between that record and its intent            *)
PendInv ==
  \A s \in Session : pend[s] # None =>
    /\ ~killed[s]
    /\ base[s] = next[DbOf(s)]
    /\ base[s] <= pend[s]
    /\ \A r \in held[s] : base[s] <= r.begin /\ r.end <= pend[s]

OneIntent ==
  \A s, t \in Session :
    pend[s] # None /\ pend[t] # None /\ DbOf(s) = DbOf(t) => s = t

HeldInv ==
  \A s \in Session :
    /\ ~killed[s] /\ pend[s] = None => held[s] = {}
    /\ \A r \in held[s] : r.db = DbOf(s) /\ r.begin < r.end
    /\ \A r, q \in held[s] : r # q => Apart(r, q)

DoneInv ==
  /\ \A r \in done : r.begin < r.end /\ r.end <= next[r.db]
  /\ CommittedRangesDisjoint

IssueInv ==
  /\ NormalOidsOnly
  /\ InstanceNeverRepeats
  /\ \A o \in issued : o[2] <= boots[o[1]]

IInv ==
  /\ TypeOK
  /\ LockInv /\ WriteInv /\ PendInv /\ OneIntent /\ HeldInv
  /\ DoneInv /\ IssueInv

-----------------------------------------------------------------------------
(* A session has an instance and a database. *)
LEMMA SessionParts ==
  ASSUME NEW s \in Session
  PROVE  InstOf(s) \in Inst /\ DbOf(s) \in Db
BY OidAssumption DEF InstOf, DbOf

(* ReservePgOid's range is never empty and never wraps, up to the last OID *)
(* but one: what its test for wraparound is for.                           *)
LEMMA EndOidBounds ==
  ASSUME NEW b \in Oid, b < MaxOid
  PROVE  /\ EndOid(b) \in Oid
         /\ b < EndOid(b)
         /\ SubOid(EndOid(b), b) = EndOid(b) - b
BY OidAssumption DEF EndOid, AddOid, SubOid, Oid, MaxOid

(* The range an instance works from starts at FirstNormalObjectId. *)
LEMMA FlooredBounds ==
  ASSUME TypeOK, NEW i \in Inst
  PROVE  /\ Floored(i).oid \in Oid
         /\ Floored(i).count \in Oid
         /\ FirstNormal <= Floored(i).oid
         /\ nextOid[i] <= Floored(i).oid
         /\ Floored(i).count > 0 =>
              Floored(i).oid = nextOid[i] /\ Floored(i).count = oidCount[i]
BY OidAssumption DEF TypeOK, Floored, Oid, MaxOid

(* The initial state satisfies the invariant. *)
LEMMA InitInv == Init => IInv
<1> SUFFICES ASSUME Init PROVE IInv
  OBVIOUS
<1> USE DEF Init
<1>1. 0 \in Oid /\ FirstOid \in Oid /\ FirstNormal \in Oid /\ FirstOid <= MaxOid
  BY OidAssumption DEF Oid, MaxOid
<1>2. 0 \in 0..MaxRestart
  BY OidAssumption
<1>3. TypeOK
  BY <1>1, <1>2 DEF TypeOK, Where
<1>4. LockInv /\ WriteInv /\ PendInv /\ OneIntent /\ HeldInv
  BY DEF LockInv, WriteInv, PendInv, OneIntent, HeldInv
<1>5. DoneInv
  BY DEF DoneInv, CommittedRangesDisjoint
<1>6. IssueInv
  BY <1>1, OidAssumption DEF IssueInv, NormalOidsOnly, InstanceNeverRepeats, Oid
<1> QED
  BY <1>3, <1>4, <1>5, <1>6 DEF IInv

(* Addition in the width of an Oid stays in it. *)
LEMMA AddOidType ==
  ASSUME NEW a \in Oid, NEW b \in Oid
  PROVE  AddOid(a, b) \in Oid
BY OidAssumption DEF AddOid, Oid, MaxOid

(* Handing out an OID keeps the types of what it touches. *)
LEMMA HandType ==
  ASSUME TypeOK, NEW s \in Session, NEW d \in Db \cup {None}, NEW oid \in Oid,
         NEW count \in Oid, count > 0, Hand(s, d, oid, count)
  PROVE  /\ nextOid' \in [Inst -> Oid]
         /\ oidCount' \in [Inst -> Oid]
         /\ issued' \subseteq Inst \X (0..MaxRestart) \X (Db \cup {None}) \X Oid
<1>1. 1 \in Oid /\ count - 1 \in Oid
  BY OidAssumption DEF Oid, MaxOid
<1>2. AddOid(oid, 1) \in Oid
  BY <1>1, AddOidType
<1> QED
  BY <1>1, <1>2, SessionParts DEF TypeOK, Hand

(* Every step of every session keeps the types. *)
LEMMA TypeStep == IInv /\ [Next]_vars => TypeOK'
<1> SUFFICES ASSUME IInv, [Next]_vars PROVE TypeOK'
  OBVIOUS
<1> USE DEF IInv, TypeOK
<1>0. 0 \in Oid
  BY OidAssumption DEF Oid, MaxOid
<1>1. ASSUME NEW s \in Session, BeginTxn(s) PROVE TypeOK'
  BY <1>1, SessionParts DEF BeginTxn, Goto, Where, Unlock, Forget, RollBack
<1>2. ASSUME NEW s \in Session, CommitTxn(s) PROVE TypeOK'
  BY <1>2, SessionParts DEF CommitTxn, Goto, Where, Unlock, Forget, RollBack
<1>3. ASSUME NEW s \in Session, StatementError(s) PROVE TypeOK'
  BY <1>3, SessionParts DEF StatementError, Goto, Where, Unlock, Forget, RollBack
<1>4. ASSUME NEW s \in Session, SkvAborts(s) PROVE TypeOK'
  BY <1>4, SessionParts DEF SkvAborts, Goto, Where, Unlock, Forget, RollBack
<1>5. ASSUME NEW s \in Session, TakeFromRange(s) PROVE TypeOK'
  <2>1. InstOf(s) \in Inst
    BY SessionParts
  <2>2. /\ nextOid' \in [Inst -> Oid]
        /\ oidCount' \in [Inst -> Oid]
        /\ issued' \subseteq Inst \X (0..MaxRestart) \X (Db \cup {None}) \X Oid
    BY <1>5, <2>1, FlooredBounds, HandType DEF TakeFromRange
  <2> QED
    BY <1>5, <2>2 DEF TakeFromRange
<1>6. ASSUME NEW s \in Session, LockForReserve(s) PROVE TypeOK'
  BY <1>6, SessionParts, FlooredBounds DEF LockForReserve, Goto, Where
<1>7. ASSUME NEW s \in Session, ReserveRead(s) PROVE TypeOK'
  <2>1. ReadNext(s) \in Oid /\ next[DbOf(s)] \in Oid /\ nextOid[InstOf(s)] \in Oid
    BY SessionParts DEF ReadNext
  <2>2. BeginOid(ReadNext(s), nextOid[InstOf(s)]) \in Oid
    BY <2>1 DEF BeginOid
  <2>3. base' \in [Session -> Oid \cup {None}]
    BY <1>7, <2>1 DEF ReserveRead
  <2>4. st' \in [Session -> Where] /\ begin' \in [Session -> Oid]
    BY <1>7, <2>2 DEF ReserveRead, Goto, Where
  <2> QED
    BY <1>7, <2>3, <2>4 DEF ReserveRead
<1>8. ASSUME NEW s \in Session, ReserveWrite(s) PROVE TypeOK'
  <2> DEFINE e == EndOid(begin[s])
             r == [db |-> DbOf(s), by |-> s, begin |-> begin[s], end |-> e]
  <2>1. begin[s] \in Oid /\ begin[s] < MaxOid
    BY <1>8 DEF ReserveWrite, WriteInv
  <2>2. e \in Oid /\ SubOid(e, begin[s]) \in Oid /\ SubOid(e, begin[s]) > 0
    BY <2>1, EndOidBounds, OidAssumption DEF Oid, MaxOid
  <2>3. /\ nextOid' \in [Inst -> Oid]
        /\ oidCount' \in [Inst -> Oid]
        /\ issued' \subseteq Inst \X (0..MaxRestart) \X (Db \cup {None}) \X Oid
    BY <1>8, <2>1, <2>2, SessionParts, HandType DEF ReserveWrite
  <2>4. r \in OidRange
    BY <2>1, <2>2, SessionParts DEF OidRange
  <2>5. held' \in [Session -> SUBSET OidRange]
    <3>1. held' = [held EXCEPT ![s] = held[s] \cup {r}]
      BY <1>8, Zenon DEF ReserveWrite
    <3> HIDE DEF r
    <3> QED
      BY <2>4, <3>1
  <2>6. cache' \in [Inst -> [Db -> Oid]] /\ pend' \in [Session -> Oid \cup {None}]
    BY <1>8, <2>2, SessionParts DEF ReserveWrite
  <2> QED
    BY <1>8, <1>0, <2>3, <2>5, <2>6, SessionParts DEF ReserveWrite, Goto, Where
<1>9. ASSUME NEW s \in Session, ReserveWriteFails(s) PROVE TypeOK'
  BY <1>9, <1>0 DEF ReserveWriteFails, Goto, Where
<1>10. ASSUME NEW s \in Session, AbortTxn(s) PROVE TypeOK'
  BY <1>10, SessionParts DEF AbortTxn, Goto, Where, Unlock, Forget, RollBack
<1>11. ASSUME NEW s \in Session, AbortSub(s) PROVE TypeOK'
  BY <1>11, SessionParts DEF AbortSub, Goto, Where, Unlock, Forget, RollBack
<1>12. ASSUME NEW s \in Session, ReleaseAll(s) PROVE TypeOK'
  BY <1>12, SessionParts DEF ReleaseAll, Goto, Where, Unlock, Forget, RollBack
<1>13. ASSUME NEW i \in Inst, Checkpoint(i) PROVE TypeOK'
  BY <1>13, AddOidType DEF Checkpoint
<1>14. ASSUME NEW i \in Inst, Restart(i) PROVE TypeOK'
  <2>1. boots[i] + 1 \in 0..MaxRestart
    BY <1>14, OidAssumption DEF Restart
  <2>2. boots' \in [Inst -> 0..MaxRestart]
    BY <1>14, <2>1 DEF Restart
  <2>3. /\ nextOid' \in [Inst -> Oid] /\ oidCount' \in [Inst -> Oid]
        /\ lock' \in [Inst -> Session \cup {None}]
        /\ cache' \in [Inst -> [Db -> Oid]]
    BY <1>14, <1>0 DEF Restart
  <2>4. st' \in [Session -> Where] /\ begin' \in [Session -> Oid]
    BY <1>14, <1>0 DEF Restart, Where
  <2> QED
    BY <1>14, <2>2, <2>3, <2>4 DEF Restart, RollBack, Forget
<1>15. CASE UNCHANGED vars
  BY <1>15 DEF vars
<1> QED
  BY <1>1, <1>2, <1>3, <1>4, <1>5, <1>6, <1>7, <1>8,
     <1>9, <1>10, <1>11, <1>12, <1>13, <1>14, <1>15
  DEF Next, Step, Proceed

(* Who waits for OidGenLock is not inside ReservePgOid. *)
LEMMA FreeLock ==
  ASSUME LockInv, NEW s \in Session, lock[InstOf(s)] = None,
         NEW t \in Session, InstOf(t) = InstOf(s)
  PROVE  st[t] \notin {"reading", "writing"}
BY OidAssumption DEF LockInv

(* How the counter of an instance moves when an OID is handed out. *)
LEMMA HandCounter ==
  ASSUME TypeOK, NEW s \in Session, NEW oid \in Oid, oid < MaxOid,
         NEW d, NEW count, Hand(s, d, oid, count)
  PROVE  /\ nextOid'[InstOf(s)] = oid + 1
         /\ oidCount'[InstOf(s)] = count - 1
         /\ \A i \in Inst : i # InstOf(s) =>
              nextOid'[i] = nextOid[i] /\ oidCount'[i] = oidCount[i]
<1>1. AddOid(oid, 1) = oid + 1
  BY OidAssumption DEF AddOid, Oid, MaxOid
<1> QED
  BY <1>1, SessionParts DEF TypeOK, Hand

(* What is handed out is below the last OID. *)
LEMMA RangeBelowLast ==
  ASSUME TypeOK, IssueInv, NEW i \in Inst, Floored(i).count > 0
  PROVE  /\ Floored(i).oid = nextOid[i] /\ Floored(i).count = oidCount[i]
         /\ FirstNormal <= nextOid[i] /\ nextOid[i] \in Oid /\ nextOid[i] < MaxOid
         /\ oidCount[i] \in Oid /\ oidCount[i] > 0
         /\ nextOid[i] + oidCount[i] <= MaxOid
<1>1. nextOid[i] \in Oid /\ oidCount[i] \in Oid
  BY DEF TypeOK
<1>2. /\ Floored(i).oid = nextOid[i] /\ Floored(i).count = oidCount[i]
      /\ FirstNormal <= nextOid[i]
  BY FlooredBounds
<1>3. nextOid[i] + oidCount[i] <= MaxOid
  BY DEF IssueInv, NormalOidsOnly
<1> QED
  BY <1>1, <1>2, <1>3, OidAssumption DEF Oid, MaxOid

(* Nobody gets into ReservePgOid past a holder of OidGenLock. *)
LEMMA LockStep == IInv /\ [Next]_vars => LockInv'
<1> SUFFICES ASSUME IInv, [Next]_vars PROVE LockInv'
  OBVIOUS
<1> USE DEF IInv
<1>1. ASSUME NEW s \in Session, BeginTxn(s) PROVE LockInv'
  BY <1>1, SessionParts DEF BeginTxn, Goto, LockInv
<1>2. ASSUME NEW s \in Session, CommitTxn(s) PROVE LockInv'
  BY <1>2, SessionParts DEF CommitTxn, Goto, LockInv
<1>3. ASSUME NEW s \in Session, StatementError(s) PROVE LockInv'
  BY <1>3, SessionParts DEF StatementError, Goto, LockInv
<1>4. ASSUME NEW s \in Session, SkvAborts(s) PROVE LockInv'
  BY <1>4, SessionParts DEF SkvAborts, Goto, LockInv
<1>5. ASSUME NEW s \in Session, TakeFromRange(s) PROVE LockInv'
  <2> SUFFICES ASSUME NEW t \in Session, st[t] \in {"reading", "writing"}
               PROVE  nextOid'[InstOf(t)] = nextOid[InstOf(t)]
    BY <1>5 DEF TakeFromRange, LockInv
  <2>1. InstOf(t) # InstOf(s)
    BY <1>5, FreeLock DEF TakeFromRange
  <2> QED
    BY <1>5, <2>1, SessionParts DEF TakeFromRange, Hand, TypeOK
<1>6. ASSUME NEW s \in Session, LockForReserve(s) PROVE LockInv'
  <2> SUFFICES ASSUME NEW t \in Session, st'[t] \in {"reading", "writing"}
               PROVE  lock'[InstOf(t)] = t /\ FirstNormal <= nextOid'[InstOf(t)]
    BY DEF LockInv
  <2>1. CASE t = s
    BY <1>6, <2>1, SessionParts, FlooredBounds DEF LockForReserve, TypeOK
  <2>2. CASE t # s
    <3>1. st[t] \in {"reading", "writing"}
      BY <1>6, <2>2 DEF LockForReserve, Goto, TypeOK
    <3>2. InstOf(t) # InstOf(s)
      BY <1>6, <3>1, FreeLock DEF LockForReserve
    <3> QED
      BY <1>6, <3>1, <3>2, SessionParts DEF LockForReserve, LockInv, TypeOK
  <2> QED
    BY <2>1, <2>2
<1>7. ASSUME NEW s \in Session, ReserveRead(s) PROVE LockInv'
  BY <1>7 DEF ReserveRead, Goto, LockInv, TypeOK
<1>8. ASSUME NEW s \in Session, ReserveWrite(s) PROVE LockInv'
  <2> SUFFICES ASSUME NEW t \in Session, st'[t] \in {"reading", "writing"}
               PROVE  lock'[InstOf(t)] = t /\ FirstNormal <= nextOid'[InstOf(t)]
    BY DEF LockInv
  <2>1. t # s /\ st[t] \in {"reading", "writing"}
    BY <1>8 DEF ReserveWrite, Goto, TypeOK
  <2>2. InstOf(t) # InstOf(s)
    BY <1>8, <2>1 DEF ReserveWrite, LockInv
  <2> QED
    BY <1>8, <2>1, <2>2, SessionParts DEF ReserveWrite, Hand, LockInv, TypeOK
<1>9. ASSUME NEW s \in Session, ReserveWriteFails(s) PROVE LockInv'
  BY <1>9 DEF ReserveWriteFails, Goto, LockInv, TypeOK
<1>10. ASSUME NEW s \in Session, AbortTxn(s) PROVE LockInv'
  BY <1>10, SessionParts DEF AbortTxn, Goto, LockInv
<1>11. ASSUME NEW s \in Session, AbortSub(s) PROVE LockInv'
  BY <1>11, SessionParts DEF AbortSub, Goto, LockInv, Unlock, TypeOK
<1>12. ASSUME NEW s \in Session, ReleaseAll(s) PROVE LockInv'
  BY <1>12, SessionParts DEF ReleaseAll, Goto, LockInv, Unlock, TypeOK
<1>13. ASSUME NEW i \in Inst, Checkpoint(i) PROVE LockInv'
  BY <1>13, SessionParts DEF Checkpoint, Goto, LockInv
<1>14. ASSUME NEW i \in Inst, Restart(i) PROVE LockInv'
  BY <1>14, SessionParts DEF Restart, LockInv, TypeOK
<1>15. CASE UNCHANGED vars
  BY <1>15 DEF vars, LockInv
<1> QED
  BY <1>1, <1>2, <1>3, <1>4, <1>5, <1>6, <1>7, <1>8,
     <1>9, <1>10, <1>11, <1>12, <1>13, <1>14, <1>15
  DEF Next, Step, Proceed

(* What ReservePgOid has read stays valid until it writes. *)
LEMMA WriteStep == IInv /\ [Next]_vars => WriteInv'
<1> SUFFICES ASSUME IInv, [Next]_vars PROVE WriteInv'
  OBVIOUS
<1> USE DEF IInv
<1>1. ASSUME NEW s \in Session, BeginTxn(s) PROVE WriteInv'
  BY <1>1 DEF BeginTxn, Goto, WriteInv, TypeOK
<1>2. ASSUME NEW s \in Session, CommitTxn(s) PROVE WriteInv'
  BY <1>2 DEF CommitTxn, Goto, Forget, WriteInv, TypeOK
<1>3. ASSUME NEW s \in Session, StatementError(s) PROVE WriteInv'
  BY <1>3 DEF StatementError, Goto, WriteInv, TypeOK
<1>4. ASSUME NEW s \in Session, SkvAborts(s) PROVE WriteInv'
  BY <1>4 DEF SkvAborts, Goto, WriteInv, TypeOK
<1>5. ASSUME NEW s \in Session, TakeFromRange(s) PROVE WriteInv'
  <2> SUFFICES ASSUME NEW t \in Session, st[t] = "writing"
               PROVE  nextOid'[InstOf(t)] = nextOid[InstOf(t)]
    BY <1>5 DEF TakeFromRange, WriteInv
  <2>1. InstOf(t) # InstOf(s)
    BY <1>5, FreeLock DEF TakeFromRange
  <2> QED
    BY <1>5, <2>1, SessionParts DEF TakeFromRange, Hand, TypeOK
<1>6. ASSUME NEW s \in Session, LockForReserve(s) PROVE WriteInv'
  <2> SUFFICES ASSUME NEW t \in Session, st'[t] = "writing"
               PROVE  t # s /\ st[t] = "writing" /\ nextOid'[InstOf(t)] = nextOid[InstOf(t)]
    BY <1>6 DEF LockForReserve, WriteInv
  <2>1. t # s /\ st[t] = "writing"
    BY <1>6 DEF LockForReserve, Goto, TypeOK
  <2>2. InstOf(t) # InstOf(s)
    BY <1>6, <2>1, FreeLock DEF LockForReserve
  <2> QED
    BY <1>6, <2>1, <2>2, SessionParts DEF LockForReserve, TypeOK
<1>7. ASSUME NEW s \in Session, ReserveRead(s) PROVE WriteInv'
  <2> DEFINE b == BeginOid(ReadNext(s), nextOid[InstOf(s)])
  <2>1. /\ next[DbOf(s)] \in Oid /\ nextOid[InstOf(s)] \in Oid
        /\ base[s] # None => base[s] \in Oid
        /\ pend[s] # None => pend[s] \in Oid /\ base[s] \in Oid /\ base[s] <= pend[s]
    BY SessionParts, OidAssumption DEF TypeOK, PendInv, Oid
  <2>2. /\ b \in Oid /\ nextOid[InstOf(s)] <= b /\ ReadNext(s) <= b
    BY <2>1 DEF BeginOid, ReadNext, Oid
  <2>3. /\ pend[s] # None => ReadNext(s) = pend[s]
        /\ pend[s] = None /\ base[s] # None => ReadNext(s) = base[s]
        /\ pend[s] = None /\ base[s] = None => ReadNext(s) = next[DbOf(s)]
    BY DEF ReadNext
  <2> HIDE DEF b
  <2>4. CASE st'[s] # "writing"
    BY <1>7, <2>4 DEF ReserveRead, Goto, WriteInv, TypeOK
  <2>5. CASE st'[s] = "writing"
    <3>1. /\ ~killed[s]
          /\ base' = [base EXCEPT ![s] = IF base[s] = None THEN next[DbOf(s)] ELSE base[s]]
          /\ ~NoMoreOids(b) /\ Goto(s, "writing") /\ begin' = [begin EXCEPT ![s] = b]
      BY <1>7, <2>5 DEF ReserveRead, Goto, TypeOK, b
    <3>2. /\ base'[s] = IF base[s] = None THEN next[DbOf(s)] ELSE base[s]
          /\ begin'[s] = b
          /\ \A t \in Session \ {s} :
                base'[t] = base[t] /\ begin'[t] = begin[t] /\ st'[t] = st[t]
      BY <3>1 DEF Goto, TypeOK
    <3>3. base'[s] # None /\ base'[s] <= b
      BY <2>1, <2>2, <2>3, <3>2, OidAssumption DEF Oid
    <3>4. b < MaxOid
      BY <2>2, <3>1, OidAssumption DEF NoMoreOids, Oid, MaxOid
    <3>5. pend[s] # None => pend[s] <= b
      BY <2>2, <2>3
    <3>6. UNCHANGED <<nextOid, pend, killed>>
      BY <1>7 DEF ReserveRead
    <3> QED
      BY <2>2, <3>2, <3>3, <3>4, <3>5, <3>6 DEF WriteInv
  <2> QED
    BY <2>4, <2>5
<1>8. ASSUME NEW s \in Session, ReserveWrite(s) PROVE WriteInv'
  <2> SUFFICES ASSUME NEW t \in Session, st'[t] = "writing"
               PROVE  /\ t # s /\ st[t] = "writing"
                      /\ nextOid'[InstOf(t)] = nextOid[InstOf(t)]
                      /\ begin'[t] = begin[t] /\ pend'[t] = pend[t]
    BY <1>8 DEF ReserveWrite, WriteInv
  <2>1. t # s /\ st[t] = "writing"
    BY <1>8 DEF ReserveWrite, Goto, TypeOK
  <2>2. InstOf(t) # InstOf(s)
    BY <1>8, <2>1 DEF ReserveWrite, LockInv
  <2> QED
    BY <1>8, <2>1, <2>2, SessionParts DEF ReserveWrite, Hand, TypeOK
<1>9. ASSUME NEW s \in Session, ReserveWriteFails(s) PROVE WriteInv'
  BY <1>9 DEF ReserveWriteFails, Goto, WriteInv, TypeOK
<1>10. ASSUME NEW s \in Session, AbortTxn(s) PROVE WriteInv'
  BY <1>10 DEF AbortTxn, Goto, RollBack, Forget, WriteInv, TypeOK
<1>11. ASSUME NEW s \in Session, AbortSub(s) PROVE WriteInv'
  BY <1>11 DEF AbortSub, Goto, WriteInv, TypeOK
<1>12. ASSUME NEW s \in Session, ReleaseAll(s) PROVE WriteInv'
  BY <1>12 DEF ReleaseAll, Goto, WriteInv, TypeOK
<1>13. ASSUME NEW i \in Inst, Checkpoint(i) PROVE WriteInv'
  BY <1>13 DEF Checkpoint, Goto, WriteInv, TypeOK
<1>14. ASSUME NEW i \in Inst, Restart(i) PROVE WriteInv'
  BY <1>14, SessionParts DEF Restart, RollBack, Forget, WriteInv, TypeOK
<1>15. CASE UNCHANGED vars
  BY <1>15 DEF vars, WriteInv
<1> QED
  BY <1>1, <1>2, <1>3, <1>4, <1>5, <1>6, <1>7, <1>8,
     <1>9, <1>10, <1>11, <1>12, <1>13, <1>14, <1>15
  DEF Next, Step, Proceed

TxnInv == PendInv /\ OneIntent /\ HeldInv

(* SKV transactions and what they have reserved. *)
LEMMA TxnStep == IInv /\ [Next]_vars => TxnInv'
<1> SUFFICES ASSUME IInv, [Next]_vars PROVE TxnInv'
  OBVIOUS
<1> USE DEF IInv
<1>1. ASSUME NEW s \in Session, BeginTxn(s) PROVE TxnInv'
  BY <1>1 DEF BeginTxn, TxnInv, PendInv, OneIntent, HeldInv
<1>2. ASSUME NEW s \in Session, CommitTxn(s) PROVE TxnInv'
  <2>1. \A t \in Session \ {s} :
          /\ pend'[t] = pend[t] /\ killed'[t] = killed[t]
          /\ base'[t] = base[t] /\ held'[t] = held[t]
          /\ pend[t] # None => next'[DbOf(t)] = next[DbOf(t)]
    BY <1>2, SessionParts DEF CommitTxn, Forget, TypeOK, OneIntent
  <2>2. pend'[s] = None /\ killed'[s] = FALSE /\ held'[s] = {}
    BY <1>2 DEF CommitTxn, Forget
  <2> QED
    BY <2>1, <2>2 DEF TxnInv, PendInv, OneIntent, HeldInv
<1>3. ASSUME NEW s \in Session, StatementError(s) PROVE TxnInv'
  BY <1>3 DEF StatementError, TxnInv, PendInv, OneIntent, HeldInv
<1>4. ASSUME NEW s \in Session, SkvAborts(s) PROVE TxnInv'
  BY <1>4 DEF SkvAborts, TxnInv, PendInv, OneIntent, HeldInv, TypeOK
<1>5. ASSUME NEW s \in Session, TakeFromRange(s) PROVE TxnInv'
  BY <1>5 DEF TakeFromRange, TxnInv, PendInv, OneIntent, HeldInv
<1>6. ASSUME NEW s \in Session, LockForReserve(s) PROVE TxnInv'
  BY <1>6 DEF LockForReserve, TxnInv, PendInv, OneIntent, HeldInv
<1>7. ASSUME NEW s \in Session, ReserveRead(s) PROVE TxnInv'
  <2>1. \A t \in Session : pend[t] # None => base'[t] = base[t]
    BY <1>7, SessionParts, OidAssumption DEF ReserveRead, PendInv, TypeOK, Oid
  <2> QED
    BY <1>7, <2>1 DEF ReserveRead, TxnInv, PendInv, OneIntent, HeldInv
<1>8. ASSUME NEW s \in Session, ReserveWrite(s) PROVE TxnInv'
  <2> DEFINE e == EndOid(begin[s])
             r == [db |-> DbOf(s), by |-> s, begin |-> begin[s], end |-> e]
  <2>1. begin[s] \in Oid /\ begin[s] < MaxOid /\ base[s] \in Oid
    BY <1>8 DEF ReserveWrite, WriteInv, TypeOK
  <2>2. e \in Oid /\ begin[s] < e
    BY <2>1, EndOidBounds
  <2>3. /\ ~killed[s] /\ next[DbOf(s)] = base[s]
        /\ \A t \in Session \ {s} : DbOf(t) = DbOf(s) => pend[t] = None
    BY <1>8 DEF ReserveWrite, NoConflict
  <2>4. base[s] <= begin[s] /\ (pend[s] # None => pend[s] <= begin[s])
    BY <1>8, <2>3 DEF ReserveWrite, WriteInv
  <2>5. r.db = DbOf(s) /\ r.begin = begin[s] /\ r.end = e
    OBVIOUS
  <2>6. held' = [held EXCEPT ![s] = held[s] \cup {r}]
    BY <1>8, Zenon DEF ReserveWrite
  <2>7. \A q \in held[s] : base[s] <= q.begin /\ q.end <= begin[s] /\ q \in OidRange
    <3>1. CASE pend[s] = None
      BY <2>3, <3>1 DEF HeldInv
    <3>2. CASE pend[s] # None
      <4> SUFFICES ASSUME NEW q \in held[s]
                   PROVE  base[s] <= q.begin /\ q.end <= begin[s] /\ q \in OidRange
        OBVIOUS
      <4>1. pend[s] \in Oid /\ q \in OidRange
        BY <3>2 DEF TypeOK
      <4>2. q.end \in Oid
        BY <4>1 DEF OidRange
      <4>3. base[s] <= q.begin /\ q.end <= pend[s]
        BY <3>2 DEF PendInv
      <4> QED
        BY <2>1, <2>4, <3>2, <4>1, <4>2, <4>3 DEF Oid
    <3> QED
      BY <3>1, <3>2
  <2> HIDE DEF r, e
  <2>8. pend' = [pend EXCEPT ![s] = e] /\ UNCHANGED <<next, base, killed>>
    BY <1>8 DEF ReserveWrite, e
  <2>9. /\ pend'[s] = e /\ held'[s] = held[s] \cup {r}
        /\ \A t \in Session \ {s} : pend'[t] = pend[t] /\ held'[t] = held[t]
    BY <2>6, <2>8 DEF TypeOK
  <2>10. PendInv'
    <3>1. \A q \in held[s] \cup {r} : base[s] <= q.begin /\ q.end <= e
      <4>1. \A q \in held[s] : q.end \in Oid
        BY <2>7 DEF OidRange
      <4> QED
        BY <2>1, <2>2, <2>4, <2>5, <2>7, <4>1 DEF Oid
    <3>2. base[s] <= e
      BY <2>1, <2>2, <2>4 DEF Oid
    <3> QED
      BY <2>3, <2>8, <2>9, <3>1, <3>2 DEF PendInv
  <2>11. OneIntent'
    BY <2>3, <2>9 DEF OneIntent
  <2>12. HeldInv'
    <3>1. e # None
      BY <2>2, OidAssumption DEF Oid
    <3>2. \A q \in held[s] : Apart(q, r) /\ Apart(r, q)
      BY <2>5, <2>7 DEF Apart
    <3> QED
      BY <2>2, <2>5, <2>8, <2>9, <3>1, <3>2 DEF HeldInv
  <2> QED
    BY <2>10, <2>11, <2>12 DEF TxnInv
<1>9. ASSUME NEW s \in Session, ReserveWriteFails(s) PROVE TxnInv'
  BY <1>9 DEF ReserveWriteFails, TxnInv, PendInv, OneIntent, HeldInv
<1>10. ASSUME NEW s \in Session, AbortTxn(s) PROVE TxnInv'
  BY <1>10 DEF AbortTxn, RollBack, Forget, TxnInv, PendInv, OneIntent, HeldInv
<1>11. ASSUME NEW s \in Session, AbortSub(s) PROVE TxnInv'
  BY <1>11 DEF AbortSub, TxnInv, PendInv, OneIntent, HeldInv
<1>12. ASSUME NEW s \in Session, ReleaseAll(s) PROVE TxnInv'
  BY <1>12 DEF ReleaseAll, TxnInv, PendInv, OneIntent, HeldInv
<1>13. ASSUME NEW i \in Inst, Checkpoint(i) PROVE TxnInv'
  BY <1>13 DEF Checkpoint, TxnInv, PendInv, OneIntent, HeldInv
<1>14. ASSUME NEW i \in Inst, Restart(i) PROVE TxnInv'
  BY <1>14 DEF Restart, RollBack, Forget, TxnInv, PendInv, OneIntent, HeldInv
<1>15. CASE UNCHANGED vars
  BY <1>15 DEF vars, TxnInv, PendInv, OneIntent, HeldInv
<1> QED
  BY <1>1, <1>2, <1>3, <1>4, <1>5, <1>6, <1>7, <1>8,
     <1>9, <1>10, <1>11, <1>12, <1>13, <1>14, <1>15
  DEF Next, Step, Proceed

(* Committed reservations lie below next_pg_oid. *)
LEMMA DoneStep == IInv /\ [Next]_vars => DoneInv'
<1> SUFFICES ASSUME IInv, [Next]_vars PROVE DoneInv'
  OBVIOUS
<1> USE DEF IInv
<1>1. ASSUME NEW s \in Session, BeginTxn(s) PROVE DoneInv'
  BY <1>1 DEF BeginTxn, DoneInv, CommittedRangesDisjoint
<1>2. ASSUME NEW s \in Session, CommitTxn(s) PROVE DoneInv'
  <2>1. CASE pend[s] = None
    <3>1. held[s] = {}
      BY <1>2, <2>1 DEF CommitTxn, HeldInv
    <3> QED
      BY <1>2, <2>1, <3>1 DEF CommitTxn, DoneInv, CommittedRangesDisjoint
  <2>2. CASE pend[s] # None
    <3>1. /\ next[DbOf(s)] \in Oid /\ pend[s] \in Oid
          /\ next[DbOf(s)] <= pend[s]
          /\ \A r \in held[s] : next[DbOf(s)] <= r.begin /\ r.end <= pend[s]
      BY <2>2, SessionParts DEF PendInv, TypeOK
    <3>2. /\ next'[DbOf(s)] = pend[s]
          /\ \A d \in Db \ {DbOf(s)} : next'[d] = next[d]
          /\ done' = done \cup held[s]
      BY <1>2, <2>2, SessionParts DEF CommitTxn, TypeOK
    <3>3. \A r \in done : r.db \in Db /\ r.end \in Oid /\ next[r.db] \in Oid
      BY DEF TypeOK, OidRange
    <3>4. \A r \in held[s] : r.db = DbOf(s) /\ r.begin < r.end /\ r.begin \in Oid
      BY DEF HeldInv, TypeOK, OidRange
    <3>5. ASSUME NEW r \in done' PROVE r.begin < r.end /\ r.end <= next'[r.db]
      BY <3>1, <3>2, <3>3, <3>4, <3>5 DEF DoneInv, Oid
    <3>6. ASSUME NEW r \in done, NEW q \in held[s], r.db = q.db
          PROVE  Apart(r, q) /\ Apart(q, r)
      <4>1. r.end <= next[DbOf(s)] /\ next[DbOf(s)] <= q.begin
        BY <3>1, <3>4, <3>6 DEF DoneInv
      <4> QED
        BY <3>1, <3>3, <3>4, <4>1 DEF Apart, Oid
    <3>7. CommittedRangesDisjoint'
      BY <3>2, <3>6 DEF DoneInv, HeldInv, CommittedRangesDisjoint
    <3> QED
      BY <3>5, <3>7 DEF DoneInv
  <2> QED
    BY <2>1, <2>2
<1>3. ASSUME NEW s \in Session, StatementError(s) PROVE DoneInv'
  BY <1>3 DEF StatementError, DoneInv, CommittedRangesDisjoint
<1>4. ASSUME NEW s \in Session, SkvAborts(s) PROVE DoneInv'
  BY <1>4 DEF SkvAborts, DoneInv, CommittedRangesDisjoint
<1>5. ASSUME NEW s \in Session, TakeFromRange(s) PROVE DoneInv'
  BY <1>5 DEF TakeFromRange, DoneInv, CommittedRangesDisjoint
<1>6. ASSUME NEW s \in Session, LockForReserve(s) PROVE DoneInv'
  BY <1>6 DEF LockForReserve, DoneInv, CommittedRangesDisjoint
<1>7. ASSUME NEW s \in Session, ReserveRead(s) PROVE DoneInv'
  BY <1>7 DEF ReserveRead, DoneInv, CommittedRangesDisjoint
<1>8. ASSUME NEW s \in Session, ReserveWrite(s) PROVE DoneInv'
  BY <1>8 DEF ReserveWrite, DoneInv, CommittedRangesDisjoint
<1>9. ASSUME NEW s \in Session, ReserveWriteFails(s) PROVE DoneInv'
  BY <1>9 DEF ReserveWriteFails, DoneInv, CommittedRangesDisjoint
<1>10. ASSUME NEW s \in Session, AbortTxn(s) PROVE DoneInv'
  BY <1>10 DEF AbortTxn, DoneInv, CommittedRangesDisjoint
<1>11. ASSUME NEW s \in Session, AbortSub(s) PROVE DoneInv'
  BY <1>11 DEF AbortSub, DoneInv, CommittedRangesDisjoint
<1>12. ASSUME NEW s \in Session, ReleaseAll(s) PROVE DoneInv'
  BY <1>12 DEF ReleaseAll, DoneInv, CommittedRangesDisjoint
<1>13. ASSUME NEW i \in Inst, Checkpoint(i) PROVE DoneInv'
  BY <1>13 DEF Checkpoint, DoneInv, CommittedRangesDisjoint
<1>14. ASSUME NEW i \in Inst, Restart(i) PROVE DoneInv'
  BY <1>14 DEF Restart, DoneInv, CommittedRangesDisjoint
<1>15. CASE UNCHANGED vars
  BY <1>15 DEF vars, DoneInv, CommittedRangesDisjoint
<1> QED
  BY <1>1, <1>2, <1>3, <1>4, <1>5, <1>6, <1>7, <1>8,
     <1>9, <1>10, <1>11, <1>12, <1>13, <1>14, <1>15
  DEF Next, Step, Proceed

(* Handing out the OID at or above the counter, from a range that ends     *)
(* before the last OID, keeps what is known of issued OIDs.                *)
LEMMA HandIssue ==
  ASSUME TypeOK, IssueInv, NEW s \in Session, NEW d, NEW oid \in Oid,
         NEW count \in Oid, FirstNormal <= oid, oid < MaxOid, nextOid[InstOf(s)] <= oid,
         oid + count <= MaxOid, count > 0,
         Hand(s, d, oid, count), UNCHANGED boots
  PROVE  IssueInv'
<1> DEFINE i == InstOf(s)
<1>1. i \in Inst
  BY SessionParts
<1>2. /\ nextOid'[i] = oid + 1 /\ oidCount'[i] = count - 1
      /\ \A j \in Inst : j # i => nextOid'[j] = nextOid[j] /\ oidCount'[j] = oidCount[j]
  BY HandCounter
<1>3. issued' = issued \cup {<<i, boots[i], d, oid>>}
  BY DEF Hand
<1>4. \A j \in Inst : nextOid[j] \in Nat /\ oidCount[j] \in Nat /\ boots[j] \in Nat
  BY OidAssumption DEF TypeOK, Oid, MaxOid
<1>5. \A o \in issued : o[1] \in Inst /\ o[4] \in Nat /\ o[2] \in Nat
  BY OidAssumption DEF TypeOK, Oid, MaxOid
<1>6. oid \in Nat /\ count \in Nat /\ MaxOid \in Nat
  BY OidAssumption DEF Oid, MaxOid
<1> HIDE DEF i
<1>7. NormalOidsOnly'
  <2>1. \A o \in issued' : FirstNormal <= o[4] /\ o[4] < MaxOid
    BY <1>3 DEF IssueInv, NormalOidsOnly
  <2>2. \A j \in Inst : nextOid'[j] + oidCount'[j] <= MaxOid
    BY <1>2, <1>4, <1>6 DEF IssueInv, NormalOidsOnly
  <2> QED
    BY <2>1, <2>2 DEF NormalOidsOnly
<1>8. InstanceNeverRepeats'
  <2>1. ASSUME NEW o \in issued, o[2] = boots[o[1]] PROVE o[4] < nextOid'[o[1]]
    <3>1. o[4] < nextOid[o[1]] /\ o[1] \in Inst /\ o[4] \in Nat
      BY <1>5, <2>1 DEF IssueInv, InstanceNeverRepeats
    <3>2. CASE o[1] = i
      BY <1>2, <1>4, <1>6, <3>1, <3>2 DEF i
    <3>3. CASE o[1] # i
      BY <1>2, <3>1, <3>3
    <3> QED
      BY <3>2, <3>3
  <2>2. oid < nextOid'[i]
    BY <1>2, <1>6
  <2> QED
    BY <1>3, <2>1, <2>2 DEF InstanceNeverRepeats
<1>9. \A o \in issued' : o[2] <= boots'[o[1]]
  BY <1>1, <1>3, <1>4 DEF IssueInv
<1> QED
  BY <1>7, <1>8, <1>9 DEF IssueInv

(* No step hands out an OID twice. *)
LEMMA IssueStep == IInv /\ [Next]_vars => IssueInv'
<1> SUFFICES ASSUME IInv, [Next]_vars PROVE IssueInv'
  OBVIOUS
<1> USE DEF IInv
<1>1. ASSUME NEW s \in Session, BeginTxn(s) PROVE IssueInv'
  BY <1>1 DEF BeginTxn, IssueInv, NormalOidsOnly, InstanceNeverRepeats
<1>2. ASSUME NEW s \in Session, CommitTxn(s) PROVE IssueInv'
  BY <1>2 DEF CommitTxn, IssueInv, NormalOidsOnly, InstanceNeverRepeats
<1>3. ASSUME NEW s \in Session, StatementError(s) PROVE IssueInv'
  BY <1>3 DEF StatementError, IssueInv, NormalOidsOnly, InstanceNeverRepeats
<1>4. ASSUME NEW s \in Session, SkvAborts(s) PROVE IssueInv'
  BY <1>4 DEF SkvAborts, IssueInv, NormalOidsOnly, InstanceNeverRepeats
<1>5. ASSUME NEW s \in Session, TakeFromRange(s) PROVE IssueInv'
  BY <1>5, SessionParts, RangeBelowLast, HandIssue DEF TakeFromRange, Oid
<1>6. ASSUME NEW s \in Session, LockForReserve(s) PROVE IssueInv'
  <2>1. InstOf(s) \in Inst
    BY SessionParts
  <2>2. \A j \in Inst : nextOid[j] \in Oid /\ oidCount[j] \in Oid /\ nextOid'[j] \in Oid
    BY <1>6, <2>1, FlooredBounds DEF LockForReserve, TypeOK
  <2>3. \A j \in Inst : nextOid[j] <= nextOid'[j]
    BY <1>6, <2>1, <2>2, FlooredBounds DEF LockForReserve, TypeOK, Oid
  <2>4. \A o \in issued : o[1] \in Inst /\ o[4] \in Oid
    BY DEF TypeOK
  <2>5. \A j \in Inst : nextOid'[j] + oidCount'[j] <= MaxOid
    BY <1>6, <2>1, <2>2 DEF LockForReserve, IssueInv, NormalOidsOnly, TypeOK, Oid
  <2>6. InstanceNeverRepeats'
    BY <1>6, <2>2, <2>3, <2>4 DEF LockForReserve, IssueInv, InstanceNeverRepeats, Oid
  <2> QED
    BY <1>6, <2>5, <2>6 DEF LockForReserve, IssueInv, NormalOidsOnly
<1>7. ASSUME NEW s \in Session, ReserveRead(s) PROVE IssueInv'
  BY <1>7 DEF ReserveRead, IssueInv, NormalOidsOnly, InstanceNeverRepeats
<1>8. ASSUME NEW s \in Session, ReserveWrite(s) PROVE IssueInv'
  <2> DEFINE b == begin[s]
             e == EndOid(b)
  <2>1. /\ b \in Oid /\ b < MaxOid /\ nextOid[InstOf(s)] <= b
        /\ FirstNormal <= nextOid[InstOf(s)] /\ nextOid[InstOf(s)] \in Oid
    BY <1>8, SessionParts DEF ReserveWrite, WriteInv, LockInv, TypeOK
  <2>2. e \in Oid /\ b < e /\ SubOid(e, b) = e - b
    BY <2>1, EndOidBounds
  <2> HIDE DEF e
  <2>3. /\ SubOid(e, b) \in Oid /\ SubOid(e, b) > 0 /\ b + SubOid(e, b) <= MaxOid
        /\ FirstNormal <= b
    BY <2>1, <2>2, OidAssumption DEF Oid, MaxOid
  <2>4. Hand(s, DbOf(s), b, SubOid(e, b)) /\ UNCHANGED boots
    BY <1>8 DEF ReserveWrite, e
  <2> QED
    BY <2>1, <2>3, <2>4, HandIssue
<1>9. ASSUME NEW s \in Session, ReserveWriteFails(s) PROVE IssueInv'
  BY <1>9 DEF ReserveWriteFails, IssueInv, NormalOidsOnly, InstanceNeverRepeats
<1>10. ASSUME NEW s \in Session, AbortTxn(s) PROVE IssueInv'
  BY <1>10 DEF AbortTxn, IssueInv, NormalOidsOnly, InstanceNeverRepeats
<1>11. ASSUME NEW s \in Session, AbortSub(s) PROVE IssueInv'
  BY <1>11 DEF AbortSub, IssueInv, NormalOidsOnly, InstanceNeverRepeats
<1>12. ASSUME NEW s \in Session, ReleaseAll(s) PROVE IssueInv'
  BY <1>12 DEF ReleaseAll, IssueInv, NormalOidsOnly, InstanceNeverRepeats
<1>13. ASSUME NEW i \in Inst, Checkpoint(i) PROVE IssueInv'
  BY <1>13 DEF Checkpoint, IssueInv, NormalOidsOnly, InstanceNeverRepeats
<1>14. ASSUME NEW i \in Inst, Restart(i) PROVE IssueInv'
  <2>1. boots'[i] = boots[i] + 1 /\ \A j \in Inst \ {i} : boots'[j] = boots[j]
    BY <1>14 DEF Restart, TypeOK
  <2>2. /\ nextOid'[i] = ckpt[i] /\ oidCount'[i] = 0 /\ issued' = issued
        /\ \A j \in Inst \ {i} : nextOid'[j] = nextOid[j] /\ oidCount'[j] = oidCount[j]
    BY <1>14 DEF Restart, TypeOK
  <2>3. boots[i] \in Nat /\ ckpt[i] \in Oid /\ \A o \in issued : o[1] \in Inst /\ o[2] \in Nat
    BY OidAssumption DEF TypeOK
  <2>4. NormalOidsOnly'
    BY <2>2, <2>3, OidAssumption DEF IssueInv, NormalOidsOnly, Oid, MaxOid
  <2>5. \A o \in issued : o[2] <= boots'[o[1]] /\ (o[1] = i => o[2] # boots'[i])
    BY <2>1, <2>3 DEF IssueInv
  <2>6. InstanceNeverRepeats'
    BY <2>1, <2>2, <2>3, <2>5 DEF IssueInv, InstanceNeverRepeats
  <2> QED
    BY <2>2, <2>4, <2>5, <2>6 DEF IssueInv
<1>15. CASE UNCHANGED vars
  BY <1>15 DEF vars, IssueInv, NormalOidsOnly, InstanceNeverRepeats
<1> QED
  BY <1>1, <1>2, <1>3, <1>4, <1>5, <1>6, <1>7, <1>8,
     <1>9, <1>10, <1>11, <1>12, <1>13, <1>14, <1>15
  DEF Next, Step, Proceed

-----------------------------------------------------------------------------
(* The invariant is inductive. *)
LEMMA Inductive == Spec => []IInv
<1>1. IInv /\ [Next]_vars => IInv'
  BY TypeStep, LockStep, WriteStep, TxnStep, DoneStep, IssueStep DEF IInv, TxnInv
<1> QED
  BY InitInv, <1>1, PTL DEF Spec

(* TypeOK: with the test for wraparound of ReservePgOid, all counters stay *)
(* in the width of an Oid; without the inductive invariant EndOid could    *)
(* not be shown to leave a non-empty range.                                *)
THEOREM TypeCorrect == Spec => []TypeOK
BY Inductive, PTL DEF IInv

(* For any number of instances, sessions and databases, ranges reserved by *)
(* committed transactions never overlap within a database: the read and    *)
(* the write of next_pg_oid in one K23SI transaction suffice.              *)
THEOREM RangesDisjoint == Spec => []CommittedRangesDisjoint
BY Inductive, PTL DEF IInv, DoneInv

(* An instance never hands out an OID twice between two starts, whatever   *)
(* happens to the transactions that reserved the ranges.                   *)
THEOREM NoRepeat == Spec => []InstanceNeverRepeats
BY Inductive, PTL DEF IInv, IssueInv

(* No OID below FirstNormalObjectId and not the last OID is handed out.    *)
THEOREM NormalOids == Spec => []NormalOidsOnly
BY Inductive, PTL DEF IInv, IssueInv


-----------------------------------------------------------------------------
(* OIDs reserved in one database's record are distinct on all nodes as     *)
(* long as no reservation in use was rolled back.                          *)

(* the bounds up to which OIDs of d are reserved: by the committed record, *)
(* and by who has written it                                               *)
Reserved ==
  [d \in Db |-> {n \in Nat : \/ n <= next[d]
                             \/ \E s \in Session : /\ DbOf(s) = d
                                                   /\ pend[s] # None
                                                   /\ n <= pend[s]}]

(* o is in the range that instance i works from *)
InRange(i, o) == nextOid[i] <= o /\ o < nextOid[i] + oidCount[i]

(* What was handed out and what is left in the ranges is reserved in the   *)
(* database it is said to be from; what is left was not handed out and is  *)
(* in one range of its database; no OID was handed out twice from it       *)
NodesInv ==
  /\ \A o \in issued : o[3] \in Db /\ o[4] + 1 \in Reserved[o[3]]
  /\ \A i \in Inst : oidCount[i] > 0 =>
       from[i] \in Db /\ nextOid[i] + oidCount[i] \in Reserved[from[i]]
  /\ \A o \in issued, i \in Inst : o[3] = from[i] => ~InRange(i, o[4])
  /\ \A i, j \in Inst, o \in Oid :
       from[i] = from[j] /\ InRange(i, o) /\ InRange(j, o) => i = j
  /\ \A o, p \in issued : o[3] = p[3] /\ o[4] = p[4] => o = p

(* what a transaction has written is the end of a range it holds *)
WrittenHeld == \A s \in Session : pend[s] # None => held[s] # {}

OriginInv == WrittenHeld /\ (~lost => NodesInv)

(* what is reserved stays reserved *)
ReservedGrows == \A d \in Db : Reserved[d] \subseteq Reserved'[d]

(* nothing is handed out, and a range is left alone or given up *)
NothingOut ==
  /\ issued' = issued
  /\ from' = from
  /\ \A i \in Inst : \/ oidCount'[i] = 0
                     \/ oidCount'[i] = oidCount[i] /\ nextOid'[i] = nextOid[i]

LEMMA Numbers ==
  ASSUME TypeOK
  PROVE  /\ \A i \in Inst : nextOid[i] \in Nat /\ oidCount[i] \in Nat
         /\ \A o \in issued : o[4] \in Oid /\ o[4] \in Nat /\ o[1] \in Inst
         /\ \A d \in Db : next[d] \in Nat
         /\ \A s \in Session : pend[s] # None => pend[s] \in Nat
         /\ \A o \in Oid : o \in Nat
<1>1. Oid \subseteq Nat
  BY OidAssumption DEF Oid, MaxOid
<1> QED
  BY <1>1 DEF TypeOK

(* After a step, a bound below a reserved one is reserved. *)
LEMMA ReservedDown ==
  ASSUME TypeOK', NEW d \in Db, NEW n \in Reserved'[d], NEW m \in Nat, m <= n
  PROVE  m \in Reserved'[d]
<1>1. n \in Nat /\ \/ n <= next'[d]
                   \/ \E s \in Session : DbOf(s) = d /\ pend'[s] # None /\ n <= pend'[s]
  BY DEF Reserved
<1>2. /\ next'[d] \in Nat
      /\ \A s \in Session : pend'[s] # None => pend'[s] \in Nat
  BY OidAssumption DEF TypeOK, Oid, MaxOid
<1>3. \/ m <= next'[d]
      \/ \E s \in Session : DbOf(s) = d /\ pend'[s] # None /\ m <= pend'[s]
  BY <1>1, <1>2
<1> QED
  BY <1>3 DEF Reserved

LEMMA NodesStay ==
  ASSUME TypeOK, TypeOK', NodesInv, NothingOut, ReservedGrows
  PROVE  NodesInv'
<1>1. /\ \A i \in Inst : nextOid[i] \in Nat /\ oidCount[i] \in Nat
      /\ \A i \in Inst : nextOid'[i] \in Nat /\ oidCount'[i] \in Nat
      /\ \A o \in issued : o[4] \in Nat
      /\ \A o \in Oid : o \in Nat
  BY Numbers, OidAssumption DEF TypeOK, Oid, MaxOid
<1>2. from' = from /\ issued' = issued
  BY DEF NothingOut
<1>3. \A i \in Inst, o \in Nat : InRange(i, o)' => InRange(i, o)
  BY <1>1 DEF NothingOut, InRange
<1>4. \A o \in issued' : o[3] \in Db /\ o[4] + 1 \in Reserved'[o[3]]
  BY <1>2 DEF NodesInv, ReservedGrows
<1>5. \A i \in Inst : oidCount'[i] > 0 =>
        from'[i] \in Db /\ nextOid'[i] + oidCount'[i] \in Reserved'[from'[i]]
  <2> SUFFICES ASSUME NEW i \in Inst, oidCount'[i] > 0
               PROVE  /\ from[i] \in Db
                      /\ nextOid'[i] + oidCount'[i] \in Reserved'[from[i]]
    BY <1>2
  <2>1. oidCount'[i] = oidCount[i] /\ nextOid'[i] = nextOid[i]
    BY DEF NothingOut
  <2> QED
    BY <2>1 DEF NodesInv, ReservedGrows
<1>6. \A o \in issued', i \in Inst : o[3] = from'[i] => ~InRange(i, o[4])'
  BY <1>1, <1>2, <1>3 DEF NodesInv, InRange
<1>7. \A i, j \in Inst, o \in Oid :
        from'[i] = from'[j] /\ InRange(i, o)' /\ InRange(j, o)' => i = j
  BY <1>1, <1>2, <1>3 DEF NodesInv, InRange
<1>8. \A o, p \in issued' : o[3] = p[3] /\ o[4] = p[4] => o = p
  BY <1>2 DEF NodesInv
<1> QED
  BY <1>4, <1>5, <1>6, <1>7, <1>8 DEF NodesInv, InRange

(* One OID and what is left of its range, none of which was handed out or  *)
(* is in the range of another instance, goes to the instance of s          *)
LEMMA NodesHand ==
  ASSUME TypeOK, TypeOK', NodesInv, ReservedGrows,
         NEW s \in Session, NEW d \in Db, NEW oid \in Oid, NEW count \in Oid,
         oid < MaxOid, count > 0, Hand(s, d, oid, count),
         from'[InstOf(s)] = d,
         \A j \in Inst : j # InstOf(s) => from'[j] = from[j],
         oid + count \in Reserved'[d],
         \A o \in issued : o[3] = d => ~(oid <= o[4] /\ o[4] < oid + count),
         \A j \in Inst, o \in Oid :
           j # InstOf(s) /\ from[j] = d /\ InRange(j, o) =>
           ~(oid <= o /\ o < oid + count)
  PROVE  NodesInv'
<1> DEFINE i == InstOf(s)
<1>1. i \in Inst
  BY SessionParts
<1>2. /\ nextOid'[i] = oid + 1 /\ oidCount'[i] = count - 1 /\ from'[i] = d
      /\ \A j \in Inst : j # i => /\ nextOid'[j] = nextOid[j]
                                  /\ oidCount'[j] = oidCount[j]
                                  /\ from'[j] = from[j]
  BY HandCounter
<1>3. issued' = issued \cup {<<i, boots[i], d, oid>>}
  BY DEF Hand
<1>4. /\ \A j \in Inst : nextOid[j] \in Nat /\ oidCount[j] \in Nat
      /\ \A o \in issued : o[4] \in Nat /\ o[4] \in Oid
      /\ \A o \in Oid : o \in Nat
      /\ oid \in Nat /\ count \in Nat
  BY Numbers
<1>5. oid + 1 \in Reserved'[d]
  <2>1. oid + 1 \in Nat /\ oid + 1 <= oid + count
    BY <1>4
  <2> QED
    BY <2>1, ReservedDown
<1> HIDE DEF i
<1>6. \A o \in issued' : o[3] \in Db /\ o[4] + 1 \in Reserved'[o[3]]
  <2>1. ASSUME NEW o \in issued PROVE o[3] \in Db /\ o[4] + 1 \in Reserved'[o[3]]
    BY DEF NodesInv, ReservedGrows
  <2> QED
    BY <1>3, <1>5, <2>1
<1>7. \A j \in Inst : oidCount'[j] > 0 =>
        from'[j] \in Db /\ nextOid'[j] + oidCount'[j] \in Reserved'[from'[j]]
  <2> SUFFICES ASSUME NEW j \in Inst, oidCount'[j] > 0
               PROVE  /\ from'[j] \in Db
                      /\ nextOid'[j] + oidCount'[j] \in Reserved'[from'[j]]
    OBVIOUS
  <2>1. CASE j = i
    <3>1. nextOid'[j] + oidCount'[j] = oid + count
      BY <1>2, <1>4, <2>1
    <3> QED
      BY <1>2, <2>1, <3>1
  <2>2. CASE j # i
    <3>1. nextOid'[j] = nextOid[j] /\ oidCount'[j] = oidCount[j] /\ from'[j] = from[j]
      BY <1>2, <2>2
    <3> QED
      BY <3>1 DEF NodesInv, ReservedGrows
  <2> QED
    BY <2>1, <2>2
<1>10. \A o \in issued', j \in Inst : o[3] = from'[j] => ~InRange(j, o[4])'
  <2> SUFFICES ASSUME NEW o \in issued', NEW j \in Inst, o[3] = from'[j],
                      InRange(j, o[4])'
               PROVE FALSE
    OBVIOUS
  <2>1. o \in issued \/ (o[3] = d /\ o[4] = oid)
    BY <1>3
  <2>2. CASE j = i
    <3>1. nextOid'[i] <= o[4] /\ o[4] < nextOid'[i] + oidCount'[i]
      BY <2>2 DEF InRange
    <3>2. o[3] = d
      BY <1>2, <2>2
    <3> QED
      BY <1>2, <1>4, <2>1, <3>1, <3>2
  <2>3. CASE j # i
    <3>1. /\ nextOid[j] <= o[4] /\ o[4] < nextOid[j] + oidCount[j]
          /\ o[3] = from[j]
      BY <1>2, <2>3 DEF InRange
    <3>2. o[3] = d /\ o[4] = oid
      BY <2>1, <3>1 DEF NodesInv, InRange
    <3>3. InRange(j, oid) /\ from[j] = d
      BY <3>1, <3>2 DEF InRange
    <3> QED
      BY <1>4, <2>3, <3>3 DEF i
  <2> QED
    BY <2>2, <2>3
<1>11. ASSUME NEW j \in Inst, NEW k \in Inst, NEW o \in Oid, from'[j] = from'[k],
              InRange(j, o)', InRange(k, o)', j # i
       PROVE  k = j
  <2>1. InRange(j, o) /\ from'[j] = from[j]
    BY <1>2, <1>11 DEF InRange
  <2>2. CASE k = i
    <3>1. nextOid'[i] <= o /\ o < nextOid'[i] + oidCount'[i]
      BY <1>11, <2>2 DEF InRange
    <3>2. oid <= o /\ o < oid + count
      BY <1>2, <1>4, <3>1
    <3>3. from[j] = d
      BY <1>2, <1>11, <2>1, <2>2
    <3> QED
      BY <1>11, <2>1, <3>2, <3>3 DEF i
  <2>3. CASE k # i
    <3>1. InRange(k, o) /\ from'[k] = from[k]
      BY <1>2, <1>11, <2>3 DEF InRange
    <3> QED
      BY <1>11, <2>1, <3>1 DEF NodesInv
  <2> QED
    BY <2>2, <2>3
<1>12. \A j, k \in Inst, o \in Oid :
         from'[j] = from'[k] /\ InRange(j, o)' /\ InRange(k, o)' => j = k
  <2> SUFFICES ASSUME NEW j \in Inst, NEW k \in Inst, NEW o \in Oid,
                      from'[j] = from'[k], InRange(j, o)', InRange(k, o)'
               PROVE  j = k
    OBVIOUS
  <2> QED
    BY <1>11
<1>13. \A o, p \in issued' : o[3] = p[3] /\ o[4] = p[4] => o = p
  <2>1. \A o \in issued : ~(o[3] = d /\ o[4] = oid)
    BY <1>4
  <2> QED
    BY <1>3, <2>1 DEF NodesInv
<1> QED
  BY <1>6, <1>7, <1>10, <1>12, <1>13 DEF NodesInv, InRange

LEMMA SameReserved ==
  ASSUME TypeOK, next' = next, \A s \in Session : pend'[s] = pend[s]
  PROVE  ReservedGrows
BY DEF Reserved, ReservedGrows

(* nobody who is rolled back has a range in use *)
LEMMA RolledBack ==
  ASSUME TypeOK, WrittenHeld, NEW S \in SUBSET Session, RollBack(S), next' = next
  PROVE  WrittenHeld' /\ (~lost' => ~lost /\ ReservedGrows)
<1>1. WrittenHeld'
  BY DEF RollBack, Forget, WrittenHeld
<1>2. ASSUME ~lost' PROVE ~lost /\ ReservedGrows
  <2>1. ~lost /\ \A s \in S : pend[s] = None
    BY <1>2 DEF RollBack, WrittenHeld
  <2>2. \A s \in Session : pend'[s] = pend[s]
    BY <2>1 DEF RollBack, Forget
  <2> QED
    BY <2>1, <2>2, SameReserved
<1> QED
  BY <1>1, <1>2

LEMMA OriginStep == ASSUME IInv, IInv', OriginInv, [Next]_vars PROVE OriginInv'
<1>0. TypeOK /\ TypeOK' /\ WrittenHeld /\ (~lost => NodesInv)
  BY DEF IInv, OriginInv
<1>1. ASSUME UNCHANGED <<next, nextOid, oidCount, from, pend, held, issued, lost>>
      PROVE  OriginInv'
  <2>1. NothingOut /\ ReservedGrows
    BY <1>0, <1>1, SameReserved DEF NothingOut
  <2> QED
    BY <1>0, <1>1, <2>1, NodesStay DEF OriginInv, WrittenHeld
<1>2. ASSUME NEW s \in Session, CommitTxn(s) PROVE OriginInv'
  <2>1. /\ next' = IF pend[s] = None THEN next ELSE [next EXCEPT ![DbOf(s)] = pend[s]]
        /\ \A t \in Session : t # s => pend'[t] = pend[t] /\ held'[t] = held[t]
        /\ pend'[s] = None
        /\ UNCHANGED <<nextOid, oidCount, from, issued, lost>>
    BY <1>2 DEF CommitTxn, Forget
  <2>2. CASE pend[s] = None
    <3>1. ReservedGrows
      BY <1>0, <2>1, <2>2, SameReserved
    <3> QED
      BY <1>0, <2>1, <3>1, NodesStay DEF OriginInv, NothingOut, WrittenHeld
  <2>3. CASE pend[s] # None
    <3>1. pend[s] \in Nat /\ next[DbOf(s)] <= pend[s] /\ next[DbOf(s)] \in Nat
      BY <1>0, <2>3, SessionParts, Numbers DEF IInv, PendInv
    <3>2. /\ next'[DbOf(s)] = pend[s]
          /\ \A d \in Db : d # DbOf(s) => next'[d] = next[d]
      BY <1>0, <2>1, <2>3, SessionParts DEF TypeOK
    <3>3. ASSUME NEW d \in Db, NEW n \in Reserved[d] PROVE n \in Reserved'[d]
      <4>1. /\ n \in Nat
            /\ \/ n <= next[d]
               \/ \E t \in Session : DbOf(t) = d /\ pend[t] # None /\ n <= pend[t]
        BY <3>3 DEF Reserved
      <4>2. \/ n <= next'[d]
            \/ \E t \in Session : DbOf(t) = d /\ pend'[t] # None /\ n <= pend'[t]
        <5>1. CASE d = DbOf(s) /\ n <= next[d]
          BY <3>1, <3>2, <4>1, <5>1
        <5>2. CASE d # DbOf(s) /\ n <= next[d]
          BY <3>2, <5>2
        <5>3. CASE \E t \in Session : DbOf(t) = d /\ pend[t] # None /\ n <= pend[t]
          BY <2>1, <3>2, <5>3
        <5> QED
          BY <4>1, <5>1, <5>2, <5>3
      <4> QED
        BY <4>1, <4>2 DEF Reserved
    <3>4. ReservedGrows
      BY <3>3 DEF ReservedGrows
    <3> QED
      BY <1>0, <2>1, <3>4, NodesStay DEF OriginInv, NothingOut, WrittenHeld
  <2> QED
    BY <2>2, <2>3
<1>3. ASSUME NEW s \in Session, SkvAborts(s) PROVE OriginInv'
  <2>1. WrittenHeld'
    BY <1>0, <1>3 DEF SkvAborts, WrittenHeld, TypeOK
  <2>2. ASSUME ~lost' PROVE NodesInv'
    <3>1. ~lost /\ \A t \in Session : pend'[t] = pend[t]
      BY <1>0, <1>3, <2>2 DEF SkvAborts, WrittenHeld, TypeOK
    <3>2. NothingOut /\ ReservedGrows
      BY <1>0, <1>3, <3>1, SameReserved DEF SkvAborts, NothingOut
    <3> QED
      BY <1>0, <3>1, <3>2, NodesStay
  <2> QED
    BY <2>1, <2>2 DEF OriginInv
<1>4. ASSUME NEW s \in Session, TakeFromRange(s) PROVE OriginInv'
  <2> DEFINE i == InstOf(s)
  <2>1. i \in Inst /\ UNCHANGED <<next, from, pend, held, lost>>
    BY <1>4, SessionParts DEF TakeFromRange
  <2>2. /\ Hand(s, from[i], nextOid[i], oidCount[i])
        /\ nextOid[i] \in Oid /\ nextOid[i] < MaxOid
        /\ oidCount[i] \in Oid /\ oidCount[i] > 0
    BY <1>0, <1>4, <2>1, RangeBelowLast DEF TakeFromRange, IInv
  <2> HIDE DEF i
  <2>3. ASSUME ~lost PROVE NodesInv'
    <3>1. ReservedGrows
      BY <1>0, <2>1, SameReserved
    <3>2. from[i] \in Db /\ nextOid[i] + oidCount[i] \in Reserved'[from[i]]
      BY <1>0, <2>1, <2>2, <2>3, <3>1 DEF NodesInv, ReservedGrows
    <3>3. \A o \in issued : o[3] = from[i] =>
            ~(nextOid[i] <= o[4] /\ o[4] < nextOid[i] + oidCount[i])
      BY <1>0, <2>1, <2>3 DEF NodesInv, InRange
    <3>4. \A j \in Inst, o \in Oid : j # InstOf(s) /\ from[j] = from[i] /\ InRange(j, o) =>
            ~(nextOid[i] <= o /\ o < nextOid[i] + oidCount[i])
      BY <1>0, <2>1, <2>3 DEF NodesInv, InRange, i
    <3>5. from'[InstOf(s)] = from[i] /\ \A j \in Inst : from'[j] = from[j]
      BY <2>1 DEF i
    <3> QED
      BY <1>0, <2>2, <2>3, <3>1, <3>2, <3>3, <3>4, <3>5, NodesHand
  <2> QED
    BY <1>0, <2>1, <2>3 DEF OriginInv, WrittenHeld
<1>5. ASSUME NEW s \in Session, LockForReserve(s) PROVE OriginInv'
  <2>1. NothingOut
    BY <1>0, <1>5, SessionParts DEF LockForReserve, NothingOut, TypeOK
  <2>2. ReservedGrows /\ UNCHANGED <<pend, held, lost>>
    BY <1>0, <1>5, SameReserved DEF LockForReserve
  <2> QED
    BY <1>0, <2>1, <2>2, NodesStay DEF OriginInv, WrittenHeld
<1>6. ASSUME NEW s \in Session, ReserveWrite(s) PROVE OriginInv'
  <2> DEFINE b == begin[s]
             e == EndOid(b)
             d == DbOf(s)
  <2>0. d \in Db /\ InstOf(s) \in Inst
    BY SessionParts
  <2>1. b \in Oid /\ b < MaxOid
    BY <1>0, <1>6 DEF ReserveWrite, WriteInv, IInv, TypeOK
  <2>2. e \in Oid /\ b < e /\ SubOid(e, b) = e - b
    BY <2>1, EndOidBounds
  <2>3. /\ NoConflict(s) /\ pend' = [pend EXCEPT ![s] = e]
        /\ Hand(s, d, b, SubOid(e, b)) /\ UNCHANGED <<next, lost>>
        /\ held'[s] # {} /\ \A t \in Session : t # s => held'[t] = held[t]
        /\ from' = [from EXCEPT ![InstOf(s)] = d]
    BY <1>0, <1>6 DEF ReserveWrite, TypeOK
  <2> HIDE DEF e
  <2>4. WrittenHeld'
    BY <1>0, <2>3 DEF WrittenHeld, TypeOK
  <2>5. /\ next[d] <= b /\ (pend[s] # None => pend[s] <= b)
        /\ \A t \in Session : t # s /\ DbOf(t) = d => pend[t] = None
    BY <1>6, <2>3 DEF ReserveWrite, NoConflict, WriteInv, IInv
  <2>6. /\ b \in Nat /\ e \in Nat /\ e - b \in Oid /\ e - b > 0 /\ b + (e - b) = e
        /\ e # None
    BY <1>0, <2>1, <2>2, Numbers, OidAssumption DEF Oid, MaxOid
  <2>7. /\ pend'[s] = e /\ \A t \in Session : t # s => pend'[t] = pend[t]
        /\ from'[InstOf(s)] = d
        /\ \A j \in Inst : j # InstOf(s) => from'[j] = from[j]
    BY <1>0, <2>0, <2>3 DEF TypeOK
  <2> HIDE DEF b, d
  <2>8. \A n \in Reserved[d] : n \in Nat /\ n <= b
    <3> SUFFICES ASSUME NEW n \in Reserved[d] PROVE n \in Nat /\ n <= b
      OBVIOUS
    <3>1. /\ n \in Nat
          /\ \/ n <= next[d]
             \/ \E t \in Session : DbOf(t) = d /\ pend[t] # None /\ n <= pend[t]
      BY <2>0 DEF Reserved
    <3>2. next[d] \in Nat /\ (pend[s] # None => pend[s] \in Nat)
      BY <1>0, <2>0, Numbers
    <3> QED
      BY <2>5, <2>6, <3>1, <3>2
  <2>9. e \in Reserved'[d]
    <3>1. e <= pend'[s] /\ pend'[s] # None /\ DbOf(s) = d
      BY <2>6, <2>7 DEF d
    <3> QED
      BY <2>0, <2>6, <3>1 DEF Reserved
  <2>10. ReservedGrows
    <3> SUFFICES ASSUME NEW c \in Db, NEW n \in Reserved[c] PROVE n \in Reserved'[c]
      BY DEF ReservedGrows
    <3>1. /\ n \in Nat
          /\ \/ n <= next[c]
             \/ \E t \in Session : DbOf(t) = c /\ pend[t] # None /\ n <= pend[t]
      BY DEF Reserved
    <3>2. CASE c = d
      <4>1. n <= e
        BY <2>2, <2>6, <2>8, <3>2
      <4> QED
        BY <1>0, <2>9, <3>1, <3>2, <4>1, ReservedDown
    <3>3. CASE c # d
      <4>1. \/ n <= next'[c]
            \/ \E t \in Session : DbOf(t) = c /\ pend'[t] # None /\ n <= pend'[t]
        BY <2>3, <2>7, <3>1, <3>3 DEF d
      <4> QED
        BY <3>1, <4>1 DEF Reserved
    <3> QED
      BY <3>2, <3>3
  <2>11. ASSUME ~lost PROVE NodesInv'
    <3>1. \A o \in issued : o[3] = d => ~(b <= o[4] /\ o[4] < b + (e - b))
      <4> SUFFICES ASSUME NEW o \in issued, o[3] = d PROVE ~(b <= o[4])
        OBVIOUS
      <4>1. o[4] + 1 \in Reserved[d]
        BY <1>0, <2>11 DEF NodesInv
      <4>2. o[4] + 1 <= b /\ o[4] \in Nat
        BY <1>0, <2>8, <4>1, Numbers
      <4> QED
        BY <2>6, <4>2
    <3>2. \A j \in Inst, o \in Oid : j # InstOf(s) /\ from[j] = d /\ InRange(j, o) =>
            ~(b <= o /\ o < b + (e - b))
      <4> SUFFICES ASSUME NEW j \in Inst, NEW o \in Oid, from[j] = d, InRange(j, o)
                   PROVE  ~(b <= o)
        OBVIOUS
      <4>1. nextOid[j] \in Nat /\ oidCount[j] \in Nat /\ o \in Nat
        BY <1>0, Numbers
      <4>2. oidCount[j] > 0 /\ o < nextOid[j] + oidCount[j]
        BY <4>1 DEF InRange
      <4>3. nextOid[j] + oidCount[j] \in Reserved[d]
        BY <1>0, <2>11, <4>2 DEF NodesInv
      <4> QED
        BY <2>6, <2>8, <4>1, <4>2, <4>3
    <3>3. Hand(s, d, b, e - b) /\ b + (e - b) \in Reserved'[d]
      BY <2>2, <2>3, <2>6, <2>9
    <3> QED
      BY <1>0, <2>0, <2>1, <2>6, <2>7, <2>10, <2>11, <3>1, <3>2, <3>3, NodesHand
  <2> QED
    BY <1>0, <2>3, <2>4, <2>11 DEF OriginInv
<1>7. ASSUME NEW s \in Session, AbortTxn(s) PROVE OriginInv'
  <2>1. /\ {s} \in SUBSET Session /\ RollBack({s})
        /\ UNCHANGED <<next, nextOid, oidCount, from, issued>>
    BY <1>7 DEF AbortTxn
  <2>2. WrittenHeld' /\ (~lost' => ~lost /\ ReservedGrows)
    BY <1>0, <2>1, RolledBack
  <2> QED
    BY <1>0, <2>1, <2>2, NodesStay DEF OriginInv, NothingOut
<1>8. ASSUME NEW i \in Inst, Restart(i) PROVE OriginInv'
  <2> DEFINE S == {s \in Session : InstOf(s) = i}
  <2>1. S \in SUBSET Session /\ RollBack(S) /\ UNCHANGED <<next, issued>>
    BY <1>8 DEF Restart
  <2>2. NothingOut
    BY <1>0, <1>8 DEF Restart, NothingOut, TypeOK
  <2> HIDE DEF S
  <2>3. WrittenHeld' /\ (~lost' => ~lost /\ ReservedGrows)
    BY <1>0, <2>1, RolledBack
  <2> QED
    BY <1>0, <2>2, <2>3, NodesStay DEF OriginInv
<1>9. ASSUME NEW s \in Session,
             \/ BeginTxn(s) \/ StatementError(s) \/ ReserveRead(s)
             \/ ReserveWriteFails(s) \/ AbortSub(s) \/ ReleaseAll(s)
      PROVE  UNCHANGED <<next, nextOid, oidCount, from, pend, held, issued, lost>>
  BY <1>9 DEF BeginTxn, StatementError, ReserveRead, ReserveWriteFails, AbortSub,
              ReleaseAll
<1>10. ASSUME NEW i \in Inst, Checkpoint(i)
       PROVE  UNCHANGED <<next, nextOid, oidCount, from, pend, held, issued, lost>>
  BY <1>10 DEF Checkpoint
<1>11. CASE UNCHANGED vars
  BY <1>1, <1>11 DEF vars
<1> QED
  BY <1>1, <1>2, <1>3, <1>4, <1>5, <1>6, <1>7, <1>8, <1>9, <1>10, <1>11
  DEF Next, Step, Proceed

LEMMA OriginInit == Init => OriginInv
<1> SUFFICES ASSUME Init PROVE OriginInv
  OBVIOUS
<1>1. \A i \in Inst, o \in Oid : ~InRange(i, o)
  BY OidAssumption DEF Init, InRange, Oid, MaxOid
<1> QED
  BY <1>1 DEF Init, OriginInv, WrittenHeld, NodesInv

(* While no reservation in use is rolled back, no OID reserved in a        *)
(* database is handed out on two nodes, nor before and after a restart,    *)
(* for any number of instances, databases and sessions and any size of a   *)
(* range.                                                                  *)
THEOREM NodesDistinct == Spec => []NodesDistinctUnlessLost
<1>1. IInv /\ IInv' /\ OriginInv /\ [Next]_vars => OriginInv'
  BY OriginStep
<1>2. OriginInv => NodesDistinctUnlessLost
  BY DEF OriginInv, NodesInv, NodesDistinctUnlessLost
<1> QED
  BY Inductive, OriginInit, <1>1, <1>2, PTL DEF Spec
=============================================================================
