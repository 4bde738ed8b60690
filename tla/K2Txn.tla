------------------------------- MODULE K2Txn -------------------------------
(***************************************************************************)
(* The K2 transaction manager of one gaussdb instance (session.cpp) driven *)
(* by the PostgreSQL transaction machinery (xact.cpp).                     *)
(*                                                                         *)
(* Every backend thread owns a TxnManager that holds at most one handle    *)
(* of a K2 (SKV) transaction.  PostgreSQL's START, COMMIT and ABORT        *)
(* callbacks begin and end it; any read or write that finds no handle      *)
(* silently opens a new one.  A PostgreSQL transaction is identified by    *)
(* <<session, n>>; n = 0 stands for what a session does before its first   *)
(* transaction.                                                            *)
(*                                                                         *)
(* The SKV store is external: it may lose a request, lose a reply, process *)
(* a commit after the client gave up, and abort a transaction by itself.   *)
(***************************************************************************)
EXTENDS Naturals, FiniteSets

CONSTANTS
  Session,     \* backend threads of the instance, one TxnManager each
  Txn,         \* identities of SKV transactions
  NoTxn,       \* the null handle
  MaxPg,       \* bound: PostgreSQL transactions a session runs
  StackSize    \* ERRORDATA_STACK_SIZE

ASSUME TxnAssumption ==
  /\ NoTxn \notin Txn
  /\ MaxPg \in Nat
  /\ StackSize \in Nat \ {0}

VARIABLES
  txn,      \* txn[s]: the handle _txn of the TxnManager of s
  skv,      \* skv[x]: state of SKV transaction x in the store
  opened,   \* opened[x]: the PostgreSQL transaction current when x began
  late,     \* commit requests the client gave up on and SKV may still get
  pg,       \* pg[s]: state of the PostgreSQL transaction machinery of s
  pgx,      \* pgx[s]: number of the current PostgreSQL transaction of s
  sub,      \* sub[s]: is a savepoint (or PL/pgSQL exception block) open
  errs,     \* errs[s]: depth of the error stack of s
  wrote,    \* <<p, x, level>>: p wrote through x, inside a savepoint or not
  verdict,  \* verdict[p]: what the client of p has been told
  split     \* PostgreSQL transactions that CREATE DATABASE split in two

vars == <<txn, skv, opened, late, pg, pgx, sub, errs, wrote, verdict, split>>

PgTxn == Session \X (0..MaxPg)
SkvState == {"none", "active", "committed", "aborted"}
PgState == {"idle", "inprogress", "error", "down"}
Verdict == {"open", "committed", "rolledback", "failed"}

Cur(s) == <<s, pgx[s]>>

TypeOK ==
  /\ txn \in [Session -> Txn \cup {NoTxn}]
  /\ skv \in [Txn -> SkvState]
  /\ opened \in [Txn -> PgTxn \cup {NoTxn}]
  /\ late \subseteq Txn
  /\ pg \in [Session -> PgState]
  /\ pgx \in [Session -> 0..MaxPg]
  /\ sub \in [Session -> BOOLEAN]
  /\ errs \in [Session -> 0..StackSize]
  /\ wrote \subseteq PgTxn \X Txn \X {"top", "sub"}
  /\ verdict \in [PgTxn -> Verdict]
  /\ split \subseteq PgTxn

Init ==
  /\ txn = [s \in Session |-> NoTxn]
  /\ skv = [x \in Txn |-> "none"]
  /\ opened = [x \in Txn |-> NoTxn]
  /\ late = {}
  /\ pg = [s \in Session |-> "idle"]
  /\ pgx = [s \in Session |-> 0]
  /\ sub = [s \in Session |-> FALSE]
  /\ errs = [s \in Session |-> 0]
  /\ wrote = {}
  /\ verdict = [p \in PgTxn |-> "open"]
  /\ split = {}

-----------------------------------------------------------------------------
(***************************************************************************)
(* TxnManager.  Both calls answer with the set of replies the caller may   *)
(* get; a reply carries the status and the store it leaves behind.         *)
(***************************************************************************)

Reply(st, store, l, h) == [status |-> st, skv |-> store, late |-> l, handle |-> h]

(* What SKV may do with the end request of transaction x: "ok" when the    *)
(* client sees a 2xx, "fail" when it does not (refused, lost, or too late) *)
SkvEnd(x, act) ==
  LET to == IF act = "commit" THEN "committed" ELSE "aborted"
      done == [skv EXCEPT ![x] = to]
  IN  (IF skv[x] = "active"
       THEN {Reply("ok", done, late, NoTxn), Reply("fail", done, late, NoTxn)}
       ELSE {})
      \cup (IF skv[x] = "aborted" /\ act = "abort"
            THEN {Reply("ok", skv, late, NoTxn)} ELSE {})
      \cup (IF skv[x] = "active" /\ act = "commit"
            THEN {Reply("fail", skv, late \cup {x}, NoTxn)} ELSE {})
      \cup {Reply("fail", skv, late, NoTxn)}

(* mutant: the handle is dropped only when SKV answers 2xx *)
EndTxnKeepsHandle(s, act) ==
  IF txn[s] = NoTxn
  THEN {Reply("gone", skv, late, NoTxn)}
  ELSE {IF r.status = "ok" THEN r ELSE [r EXCEPT !.handle = txn[s]] :
          r \in SkvEnd(txn[s], act)}

(* TxnManager::endTxn: the handle is dropped whatever SKV answers; without *)
(* a handle the answer is 410 Gone                                         *)
EndTxn(s, act) ==
  IF txn[s] = NoTxn
  THEN {Reply("gone", skv, late, NoTxn)}
  ELSE SkvEnd(txn[s], act)

(* mutant: beginTxn without the test for an existing handle *)
BeginTxnAlways(h, st, l) ==
  {Reply("fail", st, l, h)}
  \cup {Reply("ok", [st EXCEPT ![x] = "active"], l, x) :
          x \in {y \in Txn : st[y] = "none"}}

(* TxnManager::beginTxn on the store st: keeps the handle h when there is  *)
(* one; otherwise a fresh SKV transaction, or an error and still no handle *)
BeginTxn(h, st, l) ==
  IF h # NoTxn
  THEN {Reply("ok", st, l, h)}
  ELSE {Reply("fail", st, l, NoTxn)}
       \cup {Reply("ok", [st EXCEPT ![x] = "active"], l, x) :
               x \in {y \in Txn : st[y] = "none"}}

Apply(s, p, r) ==
  /\ skv' = r.skv
  /\ late' = r.late
  /\ txn' = [txn EXCEPT ![s] = r.handle]
  /\ opened' = [x \in Txn |-> IF skv[x] = "none" /\ r.skv[x] # "none"
                              THEN p ELSE opened[x]]

-----------------------------------------------------------------------------
(* An ERROR raised in session s: one more level of the error stack         *)
Raise(s) ==
  /\ pg' = [pg EXCEPT ![s] = "error"]
  /\ errs' = [errs EXCEPT ![s] = @ + 1]

(***************************************************************************)
(* The process dies: every thread loses its handle, and the client of      *)
(* every open PostgreSQL transaction loses its connection.                 *)
(***************************************************************************)
Die ==
  /\ pg' = [s \in Session |-> "down"]
  /\ txn' = [s \in Session |-> NoTxn]
  /\ sub' = [s \in Session |-> FALSE]
  /\ errs' = [s \in Session |-> 0]
  /\ verdict' = [p \in PgTxn |->
        IF p[2] = pgx[p[1]] /\ pg[p[1]] \in {"inprogress", "error"}
           /\ verdict[p] = "open"
        THEN "rolledback" ELSE verdict[p]]

(* mutant: the ABORT event ends the transaction like COMMIT does *)
EndActionSwapped(event) ==
  IF event \in {"COMMIT", "ABORT"} THEN "commit" ELSE "abort"

(* K2XactCallback: the end action each event asks for *)
EndActionOf(event) == IF event = "COMMIT" THEN "commit" ELSE "abort"

(* mutant: START does not end what an earlier user of the thread left *)
CallbackStartNoEnd(s, p) ==
  \E r \in BeginTxn(txn[s], skv, late) :
    /\ Apply(s, p, r)
    /\ IF r.status = "ok"
       THEN /\ pg' = [pg EXCEPT ![s] = "inprogress"]
            /\ UNCHANGED errs
       ELSE Raise(s)

(* K2XactCallback(XACT_EVENT_START): abort what is left over (410 is fine),*)
(* then begin; either failing raises                                       *)
CallbackStart(s, p) ==
  \E r1 \in EndTxn(s, EndActionOf("START")) :
    IF r1.status = "fail"
    THEN Apply(s, p, r1) /\ Raise(s)
    ELSE \E r2 \in BeginTxn(NoTxn, r1.skv, r1.late) :
           /\ Apply(s, p, r2)
           /\ IF r2.status = "ok"
              THEN /\ pg' = [pg EXCEPT ![s] = "inprogress"]
                   /\ UNCHANGED errs
              ELSE Raise(s)

(* StartTransaction *)
StartTransaction(s) ==
  /\ pg[s] = "idle"
  /\ pgx[s] < MaxPg
  /\ pgx' = [pgx EXCEPT ![s] = @ + 1]
  /\ CallbackStart(s, <<s, pgx[s] + 1>>)
  /\ UNCHANGED <<sub, wrote, verdict, split>>

(* mutant: a commit that failed for another reason than 410 is accepted *)
CommitAcceptedUnlessGone(r) == r.status # "gone"

(* the COMMIT callback's test of the reply *)
CommitAccepted(r) == r.status = "ok"

(* K2XactCallback(XACT_EVENT_COMMIT) inside CommitTransaction *)
CommitTransaction(s) ==
  /\ pg[s] = "inprogress"
  /\ \E r \in EndTxn(s, EndActionOf("COMMIT")) :
       /\ Apply(s, Cur(s), r)
       /\ sub' = [sub EXCEPT ![s] = FALSE]
       /\ IF CommitAccepted(r)
          THEN /\ pg' = [pg EXCEPT ![s] = "idle"]
               /\ verdict' = [verdict EXCEPT ![Cur(s)] = "committed"]
               /\ UNCHANGED errs
          ELSE /\ Raise(s)
               /\ verdict' = [verdict EXCEPT ![Cur(s)] = "failed"]
  /\ UNCHANGED <<pgx, wrote, split>>

(* mutant: no limit on nested errors *)
StackFullNever(s) == FALSE

(* errstart: no room for another ERROR on the error stack *)
StackFull(s) == errs[s] = StackSize

(***************************************************************************)
(* AbortTransaction: a user's ROLLBACK, or the recovery from an error.     *)
(* K2XactCallback(XACT_EVENT_ABORT) raises on every status but 2xx, 410    *)
(* included; an ERROR in the recovery re-enters it, and the error stack    *)
(* overflowing aborts the process (elog.cpp).                              *)
(***************************************************************************)
AbortTransaction(s) ==
  /\ pg[s] \in {"inprogress", "error"}
  /\ \E r \in EndTxn(s, EndActionOf("ABORT")) :
       /\ \/ /\ r.status = "ok"
             /\ Apply(s, Cur(s), r)
             /\ pg' = [pg EXCEPT ![s] = "idle"]
             /\ errs' = [errs EXCEPT ![s] = 0]
             /\ sub' = [sub EXCEPT ![s] = FALSE]
             /\ verdict' = [verdict EXCEPT ![Cur(s)] =
                              IF @ = "open" THEN "rolledback" ELSE @]
          \/ /\ r.status # "ok"
             /\ ~StackFull(s)
             /\ Apply(s, Cur(s), r)
             /\ Raise(s)
             /\ UNCHANGED <<sub, verdict>>
          \/ /\ r.status # "ok"
             /\ StackFull(s)
             /\ skv' = r.skv
             /\ late' = r.late
             /\ Die
             /\ UNCHANGED opened
  /\ UNCHANGED <<pgx, wrote, split>>

-----------------------------------------------------------------------------
Level(s) == IF sub[s] THEN "sub" ELSE "top"

(* AbortSubTransaction (ROLLBACK TO, or an exception block catching an     *)
(* error): no K2 call, so the writes since the savepoint are rolled back   *)
(* in PostgreSQL's eyes only                                               *)
AbortSub(s, w0) == wrote' = {w \in w0 : w[1] # Cur(s) \/ w[3] = "top"}

(* A failed statement ends the PostgreSQL transaction, or an open          *)
(* exception block catches it; w0 holds the writes that reached SKV        *)
StatementFails(s, w0) ==
  \/ /\ Raise(s)
     /\ wrote' = w0
     /\ UNCHANGED sub
  \/ /\ sub[s]
     /\ AbortSub(s, w0)
     /\ sub' = [sub EXCEPT ![s] = FALSE]
     /\ UNCHANGED <<pg, errs>>

(***************************************************************************)
(* TxnManager::write, partialUpdate (and read, query, createQuery,         *)
(* destroyQuery, which only differ in leaving no write behind): open a     *)
(* transaction if there is none, then the operation.  A failed operation   *)
(* keeps the handle, and may have been executed all the same.              *)
(***************************************************************************)
WriteOk(s) ==
  /\ pg[s] = "inprogress"
  /\ \E r \in BeginTxn(txn[s], skv, late) :
       /\ r.status = "ok"
       /\ r.skv[r.handle] = "active"
       /\ Apply(s, Cur(s), r)
       /\ wrote' = wrote \cup {<<Cur(s), r.handle, Level(s)>>}
  /\ UNCHANGED <<pg, pgx, sub, errs, verdict, split>>

WriteFails(s) ==
  /\ pg[s] = "inprogress"
  /\ \E r \in BeginTxn(txn[s], skv, late) :
       /\ Apply(s, Cur(s), r)
       /\ \E w \in SUBSET (IF r.status = "ok" /\ r.skv[r.handle] = "active"
                          THEN {<<Cur(s), r.handle, Level(s)>>} ELSE {}) :
            StatementFails(s, wrote \cup w)
  /\ UNCHANGED <<pgx, verdict, split>>

(* DefineSavepoint / BeginInternalSubTransaction: no K2 callback *)
Savepoint(s) ==
  /\ pg[s] = "inprogress"
  /\ ~sub[s]
  /\ sub' = [sub EXCEPT ![s] = TRUE]
  /\ UNCHANGED <<txn, skv, opened, late, pg, pgx, errs, wrote, verdict, split>>

RollbackToSavepoint(s) ==
  /\ pg[s] = "inprogress"
  /\ sub[s]
  /\ AbortSub(s, wrote)
  /\ UNCHANGED <<txn, skv, opened, late, pg, pgx, sub, errs, verdict, split>>

(* ReleaseSavepoint: its writes become writes of the parent *)
ReleaseSavepoint(s) ==
  /\ pg[s] = "inprogress"
  /\ sub[s]
  /\ sub' = [sub EXCEPT ![s] = FALSE]
  /\ wrote' = {w \in wrote : w[1] # Cur(s) \/ w[3] = "top"} \cup
              {<<Cur(s), x, "top">> : x \in
                  {y \in Txn : <<Cur(s), y, "sub">> \in wrote}}
  /\ UNCHANGED <<txn, skv, opened, late, pg, pgx, errs, verdict, split>>

(***************************************************************************)
(* SqlCatalogManager::CreateDatabase from a template: writes the database  *)
(* record, commits the SKV transaction on its own, then copies the tables  *)
(* in the transaction the next operation opens.  Never inside a block.     *)
(***************************************************************************)
CreateDatabase(s) ==
  /\ pg[s] = "inprogress"
  /\ ~sub[s]
  /\ txn[s] # NoTxn
  /\ skv[txn[s]] = "active"
  /\ {w \in wrote : w[1] = Cur(s)} = {}
  /\ \E r1 \in EndTxn(s, "commit") :
       \/ /\ r1.status # "ok"
          /\ Apply(s, Cur(s), r1)
          /\ Raise(s)
          /\ wrote' = wrote \cup {<<Cur(s), txn[s], "top">>}
          /\ verdict' = [verdict EXCEPT ![Cur(s)] = "failed"]
          /\ UNCHANGED <<split>>
       \/ /\ r1.status = "ok"
          /\ split' = split \cup {Cur(s)}
          /\ \E r2 \in BeginTxn(NoTxn, r1.skv, r1.late) :
               /\ Apply(s, Cur(s), r2)
               /\ \/ /\ r2.status = "ok"
                     /\ wrote' = wrote \cup {<<Cur(s), txn[s], "top">>,
                                             <<Cur(s), r2.handle, "top">>}
                     /\ UNCHANGED <<pg, errs>>
                  \/ /\ wrote' = wrote \cup {<<Cur(s), txn[s], "top">>}
                     /\ Raise(s)
          /\ UNCHANGED verdict
  /\ UNCHANGED <<pgx, sub>>

-----------------------------------------------------------------------------
(***************************************************************************)
(* Outside PostgreSQL transactions: PgGate_InitSession aborts whatever is  *)
(* left, ignoring the status, and the catalog reads that follow open a     *)
(* transaction that stays open when StartTransaction runs.                 *)
(***************************************************************************)
InitSession(s) ==
  /\ pg[s] = "idle"
  /\ \E r1 \in EndTxn(s, "abort") :
       \E r2 \in BeginTxn(NoTxn, r1.skv, r1.late) : Apply(s, Cur(s), r2)
  /\ UNCHANGED <<pg, pgx, sub, errs, wrote, verdict, split>>

-----------------------------------------------------------------------------
(* The store by itself: a push by a conflicting transaction or an expired  *)
(* heartbeat aborts x; a delayed commit request arrives                    *)
SkvAborts(x) ==
  /\ skv[x] = "active"
  /\ skv' = [skv EXCEPT ![x] = "aborted"]
  /\ UNCHANGED <<txn, opened, late, pg, pgx, sub, errs, wrote, verdict, split>>

SkvLateCommit(x) ==
  /\ x \in late
  /\ late' = late \ {x}
  /\ skv' = IF skv[x] = "active" THEN [skv EXCEPT ![x] = "committed"] ELSE skv
  /\ UNCHANGED <<txn, opened, pg, pgx, sub, errs, wrote, verdict, split>>

(* The instance is killed, and started again *)
Crash ==
  /\ \E s \in Session : pg[s] # "down"
  /\ Die
  /\ UNCHANGED <<skv, opened, late, pgx, wrote, split>>

Restart ==
  /\ \A s \in Session : pg[s] = "down"
  /\ pg' = [s \in Session |-> "idle"]
  /\ UNCHANGED <<txn, skv, opened, late, pgx, sub, errs, wrote, verdict, split>>

Next ==
  \/ \E s \in Session :
       \/ StartTransaction(s) \/ CommitTransaction(s) \/ AbortTransaction(s)
       \/ WriteOk(s) \/ WriteFails(s)
       \/ Savepoint(s) \/ RollbackToSavepoint(s) \/ ReleaseSavepoint(s)
       \/ CreateDatabase(s)
       \/ InitSession(s)
  \/ \E x \in Txn : SkvAborts(x) \/ SkvLateCommit(x)
  \/ Crash
  \/ Restart

Spec == Init /\ [][Next]_vars

-----------------------------------------------------------------------------
(* Commit acknowledged means durable: once CommitTransaction has told the  *)
(* client "committed", every write of that PostgreSQL transaction that was *)
(* not rolled back to a savepoint sits in a committed SKV transaction.     *)
AckedCommitDurable ==
  \A w \in wrote : verdict[w[1]] = "committed" => skv[w[2]] = "committed"

(* A PostgreSQL transaction that rolled back without having attempted its  *)
(* commit leaves nothing in the store, whatever requests were lost, late   *)
(* or refused; CREATE DATABASE, which commits half way, is the exception.  *)
RolledBackLeavesNothing ==
  \A w \in wrote :
    verdict[w[1]] = "rolledback" /\ w[1] \notin split => skv[w[2]] # "committed"

(* XACT_EVENT_START aborts what an earlier user of the thread left open:   *)
(* no PostgreSQL transaction ever writes through an SKV transaction that   *)
(* was begun outside it (a stale snapshot, or somebody else's writes).     *)
OwnSnapshot == \A w \in wrote : opened[w[2]] = w[1]

(* All writes of one PostgreSQL transaction go through one SKV transaction *)
(* even when operations fail and are caught: the handle survives a failed  *)
(* operation, so a half aborted transaction cannot commit its second half. *)
AtomicUnit ==
  \A v, w \in wrote : v[1] = w[1] /\ v[1] \notin split => v[2] = w[2]

(* At most one thread holds a given SKV transaction, and SKV never commits *)
(* a transaction somebody can still write through.                         *)
HandleLive ==
  \A s \in Session : txn[s] # NoTxn =>
    /\ skv[txn[s]] \in {"active", "aborted"}
    /\ \A t \in Session \ {s} : txn[t] # txn[s]

(* AbortTransaction must not fail: "report warning but not error, if error *)
(* recurse error might happen" (xact.cpp).  The ABORT callback raises.     *)
AbortDoesNotRaise == \A s \in Session : errs[s] <= 1

=============================================================================
