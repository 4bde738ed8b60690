----------------------------- MODULE OidReserve -----------------------------
(***************************************************************************)
(* Object identifiers.  Every gaussdb instance hands out OIDs from a range *)
(* in its shared memory (GetNewObjectId, varsup.cpp).  An empty range is   *)
(* refilled by SqlCatalogManager::ReservePgOid, which reads and writes the *)
(* next_pg_oid of the caller's database in the caller's own SKV            *)
(* transaction, while the instance's OidGenLock stays locked.              *)
(*                                                                         *)
(* A session <<i, d, b>> is backend b of instance i, connected to          *)
(* database d.  The store (K23SI) is external: a write succeeds only if    *)
(* the record has not been committed by others since the writer read it    *)
(* and no other transaction holds a write intent on it.                    *)
(***************************************************************************)
EXTENDS Naturals, FiniteSets

CONSTANTS
  Inst,         \* gaussdb instances
  Db,           \* databases, one record with next_pg_oid each
  Session,      \* sessions: <<instance, database, backend>>
  None,         \* "no value"
  OidMod,       \* number of OIDs: 2^32 in the code
  FirstNormal,  \* FirstNormalObjectId
  FirstOid,     \* nextOid in the checkpoint initdb leaves
  Count,        \* K2PG_OID_PREFETCH
  MaxRestart    \* bound: restarts of an instance

ASSUME OidAssumption ==
  /\ None \notin Nat /\ None \notin Session
  /\ \A s \in Session : s[1] \in Inst /\ s[2] \in Db
  /\ OidMod \in Nat /\ FirstNormal \in Nat /\ FirstOid \in Nat /\ Count \in Nat
  /\ MaxRestart \in Nat
  /\ 0 < FirstOid /\ FirstOid <= FirstNormal
  /\ FirstNormal + 1 < OidMod
  /\ 0 < Count /\ Count < OidMod

MaxOid == OidMod - 1
Oid == 0 .. MaxOid
InstOf(s) == s[1]
DbOf(s) == s[2]

VARIABLES
  next,      \* next[d]: committed next_pg_oid of database d
  nextOid,   \* ShmemVariableCache->nextOid of each instance
  oidCount,  \* ShmemVariableCache->oidCount
  from,      \* from[i]: database whose record the range of i was reserved in
  lock,      \* holder of the instance's OidGenLock, or None
  ckpt,      \* nextOid in the last checkpoint of each instance
  boots,     \* how many times the instance was restarted
  cache,     \* cache[i][d]: next_pg_oid in database_id_map_ of i
  st,        \* st[s]: where session s is
  base,      \* base[s]: next_pg_oid the SKV transaction of s has read
  pend,      \* pend[s]: next_pg_oid it has written and not committed
  killed,    \* has SKV aborted the transaction of s
  begin,     \* begin[s]: begin_oid between the read and the write
  held,      \* held[s]: ranges reserved by the open transaction of s
  done,      \* ranges whose reservation committed
  issued,    \* <<i, boot, d, oid>>: OIDs handed out, reserved in database d
  lost       \* has a reservation in use been rolled back

vars == <<next, nextOid, oidCount, from, lock, ckpt, boots, cache, st, base, pend,
          killed, begin, held, done, issued, lost>>

Where == {"idle", "open", "reading", "writing", "error", "aborted"}
OidRange == [db : Db, by : Session, begin : Oid, end : Oid]

TypeOK ==
  /\ next \in [Db -> Oid]
  /\ nextOid \in [Inst -> Oid]
  /\ oidCount \in [Inst -> Oid]
  /\ from \in [Inst -> Db \cup {None}]
  /\ lock \in [Inst -> Session \cup {None}]
  /\ ckpt \in [Inst -> Oid]
  /\ boots \in [Inst -> 0..MaxRestart]
  /\ cache \in [Inst -> [Db -> Oid]]
  /\ st \in [Session -> Where]
  /\ base \in [Session -> Oid \cup {None}]
  /\ pend \in [Session -> Oid \cup {None}]
  /\ killed \in [Session -> BOOLEAN]
  /\ begin \in [Session -> Oid]
  /\ held \in [Session -> SUBSET OidRange]
  /\ done \subseteq OidRange
  /\ issued \subseteq Inst \X (0..MaxRestart) \X (Db \cup {None}) \X Oid
  /\ lost \in BOOLEAN

(* The state initdb leaves: no range, counters at their first values       *)
Init ==
  /\ next = [d \in Db |-> FirstNormal]
  /\ nextOid = [i \in Inst |-> FirstOid]
  /\ oidCount = [i \in Inst |-> 0]
  /\ from = [i \in Inst |-> None]
  /\ lock = [i \in Inst |-> None]
  /\ ckpt = [i \in Inst |-> FirstOid]
  /\ boots = [i \in Inst |-> 0]
  /\ cache = [i \in Inst |-> [d \in Db |-> FirstNormal]]
  /\ st = [s \in Session |-> "idle"]
  /\ base = [s \in Session |-> None]
  /\ pend = [s \in Session |-> None]
  /\ killed = [s \in Session |-> FALSE]
  /\ begin = [s \in Session |-> 0]
  /\ held = [s \in Session |-> {}]
  /\ done = {}
  /\ issued = {}
  /\ lost = FALSE

-----------------------------------------------------------------------------
(* The caller's transaction, as seen from here *)

Goto(s, w) == st' = [st EXCEPT ![s] = w]

Forget(S) ==
  /\ base' = [s \in Session |-> IF s \in S THEN None ELSE base[s]]
  /\ pend' = [s \in Session |-> IF s \in S THEN None ELSE pend[s]]
  /\ killed' = [s \in Session |-> IF s \in S THEN FALSE ELSE killed[s]]
  /\ held' = [s \in Session |-> IF s \in S THEN {} ELSE held[s]]

RollBack(S) ==
  /\ Forget(S)
  /\ lost' = (lost \/ \E s \in S : held[s] # {})

BeginTxn(s) ==
  /\ st[s] = "idle"
  /\ Goto(s, "open")
  /\ UNCHANGED <<next, nextOid, oidCount, from, lock, ckpt, boots, cache, base, pend,
                 killed, begin, held, done, issued, lost>>

(* XACT_EVENT_COMMIT: SKV makes the pending record the committed one *)
CommitTxn(s) ==
  /\ st[s] = "open"
  /\ ~killed[s]
  /\ next' = IF pend[s] = None THEN next ELSE [next EXCEPT ![DbOf(s)] = pend[s]]
  /\ done' = done \cup held[s]
  /\ Forget({s})
  /\ Goto(s, "idle")
  /\ UNCHANGED <<nextOid, oidCount, from, lock, ckpt, boots, cache, begin, issued, lost>>

(* any other ERROR in the transaction, a failed commit included *)
StatementError(s) ==
  /\ st[s] = "open"
  /\ Goto(s, "error")
  /\ UNCHANGED <<next, nextOid, oidCount, from, lock, ckpt, boots, cache, base, pend,
                 killed, begin, held, done, issued, lost>>

(* a conflicting transaction pushes the one of s: its intents are gone *)
SkvAborts(s) ==
  /\ ~killed[s]
  /\ base[s] # None
  /\ killed' = [killed EXCEPT ![s] = TRUE]
  /\ pend' = [pend EXCEPT ![s] = None]
  /\ lost' = (lost \/ held[s] # {})
  /\ UNCHANGED <<next, nextOid, oidCount, from, lock, ckpt, boots, cache, st, base,
                 begin, held, done, issued>>

-----------------------------------------------------------------------------
(* GetNewObjectId *)

(* nextOid and oidCount after the check for wraparound *)
Floored(i) ==
  IF nextOid[i] < FirstNormal
  THEN [oid |-> FirstNormal, count |-> 0]
  ELSE [oid |-> nextOid[i], count |-> oidCount[i]]

(* unsigned addition in the width of an Oid *)
AddOid(a, b) == IF a + b < OidMod THEN a + b ELSE a + b - OidMod

(* unsigned subtraction in the width of an Oid *)
SubOid(a, b) == IF a < b THEN a + OidMod - b ELSE a - b

(* result = nextOid; nextOid++; oidCount--; the lock is released *)
Hand(s, d, oid, count) ==
  /\ issued' = issued \cup {<<InstOf(s), boots[InstOf(s)], d, oid>>}
  /\ nextOid' = [nextOid EXCEPT ![InstOf(s)] = AddOid(oid, 1)]
  /\ oidCount' = [oidCount EXCEPT ![InstOf(s)] = count - 1]

TakeFromRange(s) ==
  /\ st[s] = "open"
  /\ lock[InstOf(s)] = None
  /\ Floored(InstOf(s)).count > 0
  /\ Hand(s, from[InstOf(s)], Floored(InstOf(s)).oid, Floored(InstOf(s)).count)
  /\ UNCHANGED <<next, from, lock, ckpt, boots, cache, st, base, pend, killed, begin,
                 held, done, lost>>

(* the range is empty: keep OidGenLock and call ReservePgOid *)
LockForReserve(s) ==
  /\ st[s] = "open"
  /\ lock[InstOf(s)] = None
  /\ Floored(InstOf(s)).count = 0
  /\ lock' = [lock EXCEPT ![InstOf(s)] = s]
  /\ nextOid' = [nextOid EXCEPT ![InstOf(s)] = Floored(InstOf(s)).oid]
  /\ oidCount' = [oidCount EXCEPT ![InstOf(s)] = 0]
  /\ Goto(s, "reading")
  /\ UNCHANGED <<next, from, ckpt, boots, cache, base, pend, killed, begin, held,
                 done, issued, lost>>

-----------------------------------------------------------------------------
(* ReservePgOid *)

(* What GetDatabase returns: the transaction's own write, else the version *)
(* its snapshot shows                                                      *)
ReadNext(s) ==
  IF pend[s] # None THEN pend[s]
  ELSE IF base[s] # None THEN base[s]
  ELSE next[DbOf(s)]

(* mutant: the instance's own counter does not count *)
BeginOidOfRecord(oid, shm) == oid

(* begin_oid: the record's, or the instance's counter when that is ahead   *)
BeginOid(oid, shm) == IF oid < shm THEN shm ELSE oid

(* mutant: no test for wraparound *)
EndOidWraps(b) == AddOid(b, Count)

(* end_oid, with the test for wraparound *)
EndOid(b) == IF AddOid(b, Count) < b THEN MaxOid ELSE AddOid(b, Count)

(* mutant: an off-by-one in the test for the last OID *)
NoMoreOidsLate(b) == b > MaxOid

NoMoreOids(b) == b = MaxOid

ReserveRead(s) ==
  LET b == BeginOid(ReadNext(s), nextOid[InstOf(s)]) IN
  /\ st[s] = "reading"
  /\ \/ /\ ~killed[s]
        /\ base' = [base EXCEPT ![s] = IF @ = None THEN next[DbOf(s)] ELSE @]
        /\ IF NoMoreOids(b)
           THEN Goto(s, "error") /\ UNCHANGED begin
           ELSE Goto(s, "writing") /\ begin' = [begin EXCEPT ![s] = b]
     \/ Goto(s, "error") /\ UNCHANGED <<base, begin>>
  /\ UNCHANGED <<next, nextOid, oidCount, from, lock, ckpt, boots, cache, pend, killed,
                 held, done, issued, lost>>

(* mutant: last writer wins *)
NoConflictBlind(s) == ~killed[s]

(* K23SI lets s write the record *)
NoConflict(s) ==
  /\ ~killed[s]
  /\ next[DbOf(s)] = base[s]
  /\ \A t \in Session \ {s} : DbOf(t) = DbOf(s) => pend[t] = None

(* UpsertDatabase succeeds: the caches and the instance's range are        *)
(* refilled now, although the record commits only with the caller, and     *)
(* GetNewObjectId hands out the first OID of the range                     *)
ReserveWrite(s) ==
  LET i == InstOf(s)
      d == DbOf(s)
      e == EndOid(begin[s])
  IN
  /\ st[s] = "writing"
  /\ NoConflict(s)
  /\ pend' = [pend EXCEPT ![s] = e]
  /\ held' = [held EXCEPT ![s] = @ \cup
                {[db |-> d, by |-> s, begin |-> begin[s], end |-> e]}]
  /\ cache' = [cache EXCEPT ![i][d] = e]
  /\ Hand(s, d, begin[s], SubOid(e, begin[s]))
  /\ from' = [from EXCEPT ![i] = d]
  /\ lock' = [lock EXCEPT ![i] = None]
  /\ begin' = [begin EXCEPT ![s] = 0]
  /\ Goto(s, "open")
  /\ UNCHANGED <<next, ckpt, boots, base, killed, done, lost>>

(* the write is refused, times out, or its answer is lost *)
ReserveWriteFails(s) ==
  /\ st[s] = "writing"
  /\ begin' = [begin EXCEPT ![s] = 0]
  /\ Goto(s, "error")
  /\ UNCHANGED <<next, nextOid, oidCount, from, lock, ckpt, boots, cache, base, pend,
                 killed, held, done, issued, lost>>

-----------------------------------------------------------------------------
(* Recovery from an ERROR *)

Unlock(s) == lock' = [i \in Inst |-> IF lock[i] = s THEN None ELSE lock[i]]

(* AbortTransaction: aborts the SKV transaction, and under K2 leaves the   *)
(* LWLocks alone                                                           *)
AbortTxn(s) ==
  /\ st[s] = "error"
  /\ RollBack({s})
  /\ Goto(s, "aborted")
  /\ UNCHANGED <<next, nextOid, oidCount, from, lock, ckpt, boots, cache, begin, done,
                 issued>>

(* mutant: the error handler relies on AbortTransaction for the LWLocks *)
ReleaseAllNot(s) ==
  /\ st[s] = "aborted"
  /\ Goto(s, "idle")
  /\ UNCHANGED <<next, nextOid, oidCount, from, lock, ckpt, boots, cache, base, pend,
                 killed, begin, held, done, issued, lost>>

(* the error handler's own LWLockReleaseAll *)
ReleaseAll(s) ==
  /\ st[s] = "aborted"
  /\ Unlock(s)
  /\ Goto(s, "idle")
  /\ UNCHANGED <<next, nextOid, oidCount, from, ckpt, boots, cache, base, pend, killed,
                 begin, held, done, issued, lost>>

(* AbortSubTransaction: an exception block catches the ERROR, the LWLocks  *)
(* are released and the SKV transaction goes on                            *)
AbortSub(s) ==
  /\ st[s] = "error"
  /\ Unlock(s)
  /\ Goto(s, "open")
  /\ UNCHANGED <<next, nextOid, oidCount, from, ckpt, boots, cache, base, pend, killed,
                 begin, held, done, issued, lost>>

-----------------------------------------------------------------------------
(* An online checkpoint; it needs OidGenLock too *)
Checkpoint(i) ==
  /\ lock[i] = None
  /\ ckpt' = [ckpt EXCEPT ![i] = AddOid(nextOid[i], oidCount[i])]
  /\ UNCHANGED <<next, nextOid, oidCount, from, lock, boots, cache, st, base, pend,
                 killed, begin, held, done, issued, lost>>

(* A crash and the recovery from the last checkpoint *)
Restart(i) ==
  /\ boots[i] < MaxRestart
  /\ boots' = [boots EXCEPT ![i] = @ + 1]
  /\ nextOid' = [nextOid EXCEPT ![i] = ckpt[i]]
  /\ oidCount' = [oidCount EXCEPT ![i] = 0]
  /\ lock' = [lock EXCEPT ![i] = None]
  /\ cache' = [cache EXCEPT ![i] = next]
  /\ RollBack({s \in Session : InstOf(s) = i})
  /\ st' = [s \in Session |-> IF InstOf(s) = i THEN "idle" ELSE st[s]]
  /\ begin' = [s \in Session |-> IF InstOf(s) = i THEN 0 ELSE begin[s]]
  /\ UNCHANGED <<next, from, ckpt, done, issued>>

(* the steps a backend takes while it is inside GetNewObjectId or in the   *)
(* error handler                                                           *)
Proceed(s) ==
  \/ ReserveRead(s) \/ ReserveWrite(s) \/ ReserveWriteFails(s)
  \/ AbortTxn(s) \/ AbortSub(s) \/ ReleaseAll(s)

Step(s) ==
  \/ BeginTxn(s) \/ CommitTxn(s) \/ StatementError(s) \/ SkvAborts(s)
  \/ TakeFromRange(s) \/ LockForReserve(s)
  \/ Proceed(s)

Next ==
  \/ \E s \in Session : Step(s)
  \/ \E i \in Inst : Checkpoint(i) \/ Restart(i)

Spec == Init /\ [][Next]_vars

(* A backend never stops inside the critical section: every SKV call ends  *)
(* with an answer or after op_timeout_ms.                                  *)
FairSpec == Spec /\ \A s \in Session : WF_vars(Proceed(s))

-----------------------------------------------------------------------------
Apart(r, q) == r.end <= q.begin \/ q.end <= r.begin

(* Reservations that committed never overlap in a database, whichever      *)
(* instances raced for them: ReservePgOid reads and writes next_pg_oid in  *)
(* one SKV transaction, so one of two concurrent reservations loses.       *)
CommittedRangesDisjoint ==
  \A r, q \in done : r # q /\ r.db = q.db => Apart(r, q)

(* Whatever aborts, conflicts or other databases do in between, an         *)
(* instance never goes back: all OIDs it has handed out since it started   *)
(* are below its counter, so GetNewObjectId does not repeat one.           *)
InstanceNeverRepeats ==
  \A o \in issued : o[2] = boots[o[1]] => o[4] < nextOid[o[1]]

(* Near 2^32 the counter neither wraps to InvalidOid nor hands out an OID  *)
(* outside the range that was reserved: the last OID is never used, and no *)
(* OID below FirstNormalObjectId is.                                       *)
NormalOidsOnly ==
  /\ \A o \in issued : FirstNormal <= o[4] /\ o[4] < MaxOid
  /\ \A i \in Inst : nextOid[i] + oidCount[i] <= MaxOid

(* As long as no reservation in use was rolled back, no two instances (nor *)
(* an instance before and after a restart) ever hand out the same OID from *)
(* ranges reserved in the same database's record, whichever databases the  *)
(* sessions that share an instance's one range are connected to.           *)
NodesDistinctUnlessLost ==
  ~lost => \A o, p \in issued :
             o[3] = p[3] /\ o[4] = p[4] => o[1] = p[1] /\ o[2] = p[2]

(* An error inside ReservePgOid is raised with OidGenLock held and K2      *)
(* skips LWLockReleaseAll in AbortTransaction; every holder still gives    *)
(* the lock back.                                                          *)
LockReleased ==
  \A s \in Session : lock[InstOf(s)] = s ~> lock[InstOf(s)] # s

=============================================================================
