---------------------------- MODULE K2TxnProofs ----------------------------
(***************************************************************************)
(* Proofs about K2Txn: for any number of threads, SKV transactions and     *)
(* PostgreSQL transactions, and any size of the error stack.               *)
(*                                                                         *)
(* What a session does to the store is the same in every operation: it     *)
(* ends the transaction it holds, begins a fresh one, or both (Moves).     *)
(* The inductive invariant says who may still change which transaction:    *)
(* only the session that holds its handle, or a commit request in `late'.  *)
(***************************************************************************)
EXTENDS K2Txn, TLAPS

(* a transaction that a thread holds is neither committed nor about to be, *)
(* and no other thread holds it                                            *)
Handles ==
  \A s \in Session : txn[s] # NoTxn =>
    /\ skv[txn[s]] \in {"active", "aborted"}
    /\ txn[s] \notin late
    /\ \A t \in Session \ {s} : txn[t] # txn[s]

(* a transaction that was never begun was never written or committed *)
Begun ==
  \A x \in Txn : skv[x] = "none" => x \notin late /\ \A w \in wrote : w[2] # x

(* the error stack is empty but while an error is being handled *)
Stack == \A s \in Session : pg[s] # "error" => errs[s] = 0

(* nothing happened in a PostgreSQL transaction that has not started *)
Unborn ==
  \A p \in PgTxn : p[2] > pgx[p[1]] =>
    verdict[p] = "open" /\ \A w \in wrote : w[1] # p

(* a running PostgreSQL transaction holds an SKV transaction of its own *)
Running ==
  \A s \in Session : pg[s] = "inprogress" =>
    /\ verdict[Cur(s)] = "open"
    /\ txn[s] # NoTxn
    /\ opened[txn[s]] = Cur(s)

(* ... and wrote through no other, but for the half that CREATE DATABASE   *)
(* committed                                                               *)
OneHandle ==
  \A s \in Session : pg[s] = "inprogress" =>
    \A w \in wrote : w[1] = Cur(s) =>
      \/ w[2] = txn[s]
      \/ Cur(s) \in split /\ skv[w[2]] = "committed"

(* what an open or rolled back PostgreSQL transaction wrote is not         *)
(* committed, and no commit request for it is under way                    *)
Unsettled ==
  \A w \in wrote :
    verdict[w[1]] \in {"open", "rolledback"} /\ w[1] \notin split =>
      skv[w[2]] # "committed" /\ w[2] \notin late

IInv ==
  /\ TypeOK
  /\ Handles
  /\ Begun
  /\ Stack
  /\ Unborn
  /\ Running
  /\ OneHandle
  /\ Unsettled
  /\ OwnSnapshot
  /\ AtomicUnit
  /\ AckedCommitDurable

-----------------------------------------------------------------------------
(* What a session may do to the store and to its handle in one operation *)
Moves(s) ==
  /\ skv' \in [Txn -> SkvState]
  /\ late' \subseteq Txn
  /\ txn' \in [Session -> Txn \cup {NoTxn}]
  /\ \A t \in Session \ {s} : txn'[t] = txn[t]
  /\ \/ txn'[s] = txn[s] /\ skv' = skv /\ late' = late
     \/ txn'[s] = NoTxn
     \/ /\ txn'[s] \in Txn
        /\ skv[txn'[s]] = "none"
        /\ skv'[txn'[s]] = "active"
  /\ \A x \in Txn :
       \/ skv'[x] = skv[x]
       \/ skv[x] = "none" /\ skv'[x] = "active" /\ x = txn'[s]
       \/ /\ skv[x] = "active" /\ skv'[x] \in {"committed", "aborted"}
          /\ x = txn[s] /\ x # txn'[s]
  /\ \A x \in late' :
       x \in late \/ (x = txn[s] /\ x # txn'[s] /\ skv[x] = "active")

(* The session ended nothing with a commit *)
NoCommit ==
  /\ late' = late
  /\ \A x \in Txn : skv'[x] = "committed" => skv[x] = "committed"

(* A transaction keeps the PostgreSQL transaction it was begun in; one     *)
(* that is begun now belongs to p                                          *)
OpenedBy(p) ==
  /\ opened' \in [Txn -> PgTxn \cup {NoTxn}]
  /\ \A x \in Txn : skv[x] # "none" => opened'[x] = opened[x]
  /\ \A x \in Txn : skv[x] = "none" /\ skv'[x] # "none" => opened'[x] = p

(* TxnManager::endTxn drops the handle, and changes no other transaction *)
LEMMA EndFacts ==
  ASSUME TypeOK, NEW s \in Session, NEW act \in {"commit", "abort"},
         NEW r \in EndTxn(s, act)
  PROVE  /\ r.handle = NoTxn
         /\ r.skv \in [Txn -> SkvState]
         /\ r.late \subseteq Txn
         /\ \A x \in r.late : x \in late \/ (x = txn[s] /\ skv[x] = "active")
         /\ \A x \in Txn :
              \/ r.skv[x] = skv[x]
              \/ /\ x = txn[s] /\ skv[x] = "active"
                 /\ r.skv[x] \in {"committed", "aborted"}
         /\ act = "abort" =>
              /\ r.late = late
              /\ \A x \in Txn : r.skv[x] = "committed" => skv[x] = "committed"
         /\ act = "commit" /\ r.status = "ok" =>
              txn[s] \in Txn /\ r.skv[txn[s]] = "committed"
<1> DEFINE to == IF act = "commit" THEN "committed" ELSE "aborted"
           done == [skv EXCEPT ![txn[s]] = to]
<1>1. CASE txn[s] = NoTxn
  BY <1>1 DEF EndTxn, Reply, TypeOK
<1>2. CASE txn[s] # NoTxn
  <2>1. txn[s] \in Txn /\ done \in [Txn -> SkvState]
    BY <1>2 DEF TypeOK, SkvState
  <2>2. \/ skv[txn[s]] = "active" /\ r = Reply("ok", done, late, NoTxn)
        \/ skv[txn[s]] = "active" /\ r = Reply("fail", done, late, NoTxn)
        \/ act = "abort" /\ r = Reply("ok", skv, late, NoTxn)
        \/ /\ skv[txn[s]] = "active" /\ act = "commit"
           /\ r = Reply("fail", skv, late \cup {txn[s]}, NoTxn)
        \/ r = Reply("fail", skv, late, NoTxn)
    BY <1>2 DEF EndTxn, SkvEnd
  <2> HIDE DEF done
  <2>3. done[txn[s]] = to /\ \A x \in Txn : x # txn[s] => done[x] = skv[x]
    BY <2>1 DEF TypeOK, done
  <2> QED
    BY <2>1, <2>2, <2>3 DEF Reply, TypeOK
<1> QED
  BY <1>1, <1>2

(* TxnManager::beginTxn keeps the handle there is, or takes a fresh one *)
LEMMA BeginFacts ==
  ASSUME TxnAssumption, NEW h \in Txn \cup {NoTxn},
         NEW st \in [Txn -> SkvState],
         NEW l \in SUBSET Txn, NEW r \in BeginTxn(h, st, l)
  PROVE  /\ r.late = l
         /\ r.skv \in [Txn -> SkvState]
         /\ r.handle \in Txn \cup {NoTxn}
         /\ h # NoTxn => r.skv = st /\ r.handle = h
         /\ h = NoTxn =>
              \/ r.skv = st /\ r.handle = NoTxn
              \/ /\ r.handle \in Txn
                 /\ st[r.handle] = "none" /\ r.skv[r.handle] = "active"
                 /\ \A x \in Txn : x # r.handle => r.skv[x] = st[x]
         /\ r.status = "ok" => r.handle \in Txn
<1>1. CASE h # NoTxn
  BY <1>1 DEF BeginTxn, Reply
<1>2. CASE h = NoTxn /\ r = Reply("fail", st, l, NoTxn)
  BY <1>2 DEF Reply
<1>3. ASSUME h = NoTxn, NEW x \in Txn, st[x] = "none",
             r = Reply("ok", [st EXCEPT ![x] = "active"], l, x)
      PROVE  /\ r.late = l /\ r.handle = x /\ r.skv[x] = "active"
             /\ r.skv \in [Txn -> SkvState]
             /\ \A y \in Txn : y # x => r.skv[y] = st[y]
  BY <1>3 DEF Reply, SkvState
<1>4. h = NoTxn =>
        \/ r = Reply("fail", st, l, NoTxn)
        \/ \E x \in Txn : /\ st[x] = "none"
                          /\ r = Reply("ok", [st EXCEPT ![x] = "active"], l, x)
  BY DEF BeginTxn
<1>5. CASE h = NoTxn /\ r # Reply("fail", st, l, NoTxn)
  <2>1. PICK x \in Txn : /\ st[x] = "none"
                         /\ r = Reply("ok", [st EXCEPT ![x] = "active"], l, x)
    BY <1>4, <1>5
  <2> QED
    BY <1>3, <1>5, <2>1, TxnAssumption
<1> QED
  BY <1>1, <1>2, <1>5

LEMMA ApplyOpened ==
  ASSUME TypeOK, NEW s \in Session, NEW p \in PgTxn, NEW r, Apply(s, p, r)
  PROVE  OpenedBy(p)
BY DEF Apply, OpenedBy, TypeOK

(* endTxn alone *)
LEMMA MovesEnd ==
  ASSUME TypeOK, TxnAssumption, NEW s \in Session, NEW p,
         NEW act \in {"commit", "abort"},
         NEW r \in EndTxn(s, act), Apply(s, p, r)
  PROVE  /\ Moves(s)
         /\ txn'[s] = NoTxn
         /\ act = "abort" => NoCommit
         /\ act = "commit" /\ r.status = "ok" =>
              txn[s] \in Txn /\ skv'[txn[s]] = "committed"
<1>1. /\ skv' = r.skv /\ late' = r.late
      /\ txn' = [txn EXCEPT ![s] = NoTxn]
  <2>1. r.handle = NoTxn
    BY EndFacts
  <2> QED
    BY <2>1 DEF Apply
<1>2. /\ txn' \in [Session -> Txn \cup {NoTxn}] /\ txn'[s] = NoTxn
      /\ \A t \in Session \ {s} : txn'[t] = txn[t]
  BY <1>1 DEF TypeOK
<1>3. \A x \in Txn : x # NoTxn
  BY TxnAssumption
<1> QED
  BY <1>1, <1>2, <1>3, EndFacts DEF Moves, NoCommit

(* beginTxn alone *)
LEMMA MovesBegin ==
  ASSUME TypeOK, TxnAssumption, NEW s \in Session, NEW p,
         NEW r \in BeginTxn(txn[s], skv, late), Apply(s, p, r)
  PROVE  /\ Moves(s)
         /\ NoCommit
         /\ txn'[s] = r.handle
         /\ txn[s] # NoTxn => txn'[s] = txn[s]
<1>0. txn[s] \in Txn \cup {NoTxn} /\ skv \in [Txn -> SkvState] /\ late \in SUBSET Txn
  BY DEF TypeOK
<1>1. /\ skv' = r.skv /\ late' = r.late
      /\ txn' = [txn EXCEPT ![s] = r.handle]
  BY DEF Apply
<1>2. /\ txn' \in [Session -> Txn \cup {NoTxn}] /\ txn'[s] = r.handle
      /\ \A t \in Session \ {s} : txn'[t] = txn[t]
  BY <1>0, <1>1, BeginFacts DEF TypeOK
<1>3. late' = late /\ skv' \in [Txn -> SkvState]
  BY <1>0, <1>1, BeginFacts
<1>4. CASE txn[s] # NoTxn
  BY <1>0, <1>1, <1>2, <1>3, <1>4, BeginFacts DEF Moves, NoCommit
<1>5. CASE txn[s] = NoTxn
  <2>1. \/ skv' = skv /\ txn'[s] = NoTxn
        \/ /\ txn'[s] \in Txn
           /\ skv[txn'[s]] = "none" /\ skv'[txn'[s]] = "active"
           /\ \A x \in Txn : x # txn'[s] => skv'[x] = skv[x]
    BY <1>0, <1>1, <1>2, <1>5, BeginFacts
  <2> QED
    BY <1>0, <1>2, <1>3, <1>5, <2>1, TxnAssumption DEF Moves, NoCommit
<1> QED
  BY <1>4, <1>5

(* endTxn followed by beginTxn *)
LEMMA MovesBoth ==
  ASSUME TypeOK, TxnAssumption, NEW s \in Session, NEW p,
         NEW act \in {"commit", "abort"}, NEW r1 \in EndTxn(s, act),
         NEW r2 \in BeginTxn(NoTxn, r1.skv, r1.late), Apply(s, p, r2)
  PROVE  /\ Moves(s)
         /\ act = "abort" => NoCommit
         /\ act = "commit" /\ r1.status = "ok" =>
              txn[s] \in Txn /\ skv'[txn[s]] = "committed"
         /\ txn'[s] = r2.handle
         /\ r2.status = "ok" => txn'[s] \in Txn /\ skv[txn'[s]] = "none"
                                /\ skv'[txn'[s]] = "active"
<1>0. /\ NoTxn \in Txn \cup {NoTxn}
      /\ r1.skv \in [Txn -> SkvState] /\ r1.late \in SUBSET Txn
  BY EndFacts
<1>1. /\ skv' = r2.skv /\ late' = r1.late
      /\ txn' = [txn EXCEPT ![s] = r2.handle]
  BY <1>0, BeginFacts DEF Apply
<1>2. /\ txn' \in [Session -> Txn \cup {NoTxn}] /\ txn'[s] = r2.handle
      /\ \A t \in Session \ {s} : txn'[t] = txn[t]
  BY <1>0, <1>1, BeginFacts DEF TypeOK
<1>3. /\ skv' \in [Txn -> SkvState]
      /\ \/ skv' = r1.skv /\ txn'[s] = NoTxn
         \/ /\ txn'[s] \in Txn
            /\ r1.skv[txn'[s]] = "none" /\ skv'[txn'[s]] = "active"
            /\ \A x \in Txn : x # txn'[s] => skv'[x] = r1.skv[x]
      /\ r2.status = "ok" => txn'[s] \in Txn
  BY <1>0, <1>1, <1>2, BeginFacts
<1>4. \A x \in Txn : r1.skv[x] = "none" =>
        skv[x] = "none"
  BY EndFacts
<1>5. CASE skv' = r1.skv /\ txn'[s] = NoTxn
  BY <1>1, <1>2, <1>3, <1>5, EndFacts, TxnAssumption DEF Moves, NoCommit
<1>6. CASE /\ txn'[s] \in Txn
           /\ r1.skv[txn'[s]] = "none" /\ skv'[txn'[s]] = "active"
           /\ \A x \in Txn : x # txn'[s] => skv'[x] = r1.skv[x]
  <2>1. skv[txn'[s]] = "none"
    BY <1>4, <1>6
  <2>2. \A x \in Txn :
          \/ skv'[x] = skv[x]
          \/ skv[x] = "none" /\ skv'[x] = "active" /\ x = txn'[s]
          \/ /\ skv[x] = "active" /\ skv'[x] \in {"committed", "aborted"}
             /\ x = txn[s] /\ x # txn'[s]
    BY <1>6, <2>1, EndFacts
  <2>3. \A x \in late' :
          x \in late \/ (x = txn[s] /\ x # txn'[s] /\ skv[x] = "active")
    BY <1>1, <2>1, EndFacts
  <2>4. act = "commit" /\ r1.status = "ok" =>
          txn[s] \in Txn /\ skv'[txn[s]] = "committed"
    BY <1>6, EndFacts
  <2>5. act = "abort" => NoCommit
    BY <1>1, <1>6, EndFacts DEF NoCommit
  <2>6. late' \subseteq Txn
    BY <1>0, <1>1
  <2> QED
    BY <1>2, <1>3, <1>6, <2>1, <2>2, <2>3, <2>4, <2>5, <2>6 DEF Moves
<1> QED
  BY <1>3, <1>5, <1>6
-----------------------------------------------------------------------------
(***************************************************************************)
(* The operations fall into a few kinds of steps; the invariant is proved  *)
(* kind by kind.                                                           *)
(***************************************************************************)

(* What session s does to its own part of PostgreSQL's state machine *)
Machine(s) ==
  /\ pg' \in [Session -> PgState]
  /\ errs' \in [Session -> 0..StackSize]
  /\ sub' \in [Session -> BOOLEAN]
  /\ \A t \in Session \ {s} : pg'[t] = pg[t] /\ errs'[t] = errs[t]
  /\ pg'[s] # "error" => errs'[s] = 0

(* StartTransaction *)
Starts(s) ==
  /\ Moves(s) /\ NoCommit /\ Machine(s)
  /\ pgx[s] < MaxPg /\ pgx' = [pgx EXCEPT ![s] = @ + 1]
  /\ OpenedBy(<<s, pgx[s] + 1>>)
  /\ pg'[s] = "inprogress" =>
       txn'[s] \in Txn /\ skv[txn'[s]] = "none" /\ skv'[txn'[s]] = "active"
  /\ UNCHANGED <<wrote, verdict, split>>

(* CommitTransaction, and AbortTransaction but for a full error stack *)
Ends(s) ==
  /\ Moves(s) /\ OpenedBy(Cur(s)) /\ Machine(s)
  /\ txn'[s] = NoTxn
  /\ pg'[s] # "inprogress"
  /\ verdict' \in [PgTxn -> Verdict]
  /\ \A p \in PgTxn : p # Cur(s) => verdict'[p] = verdict[p]
  /\ \/ NoCommit /\ verdict'[Cur(s)] = verdict[Cur(s)]
     \/ NoCommit /\ verdict[Cur(s)] = "open" /\ verdict'[Cur(s)] = "rolledback"
     \/ pg[s] = "inprogress" /\ verdict'[Cur(s)] = "failed"
     \/ /\ pg[s] = "inprogress" /\ verdict'[Cur(s)] = "committed"
        /\ txn[s] \in Txn /\ skv'[txn[s]] = "committed"
  /\ UNCHANGED <<pgx, wrote, split>>

(* A statement or a savepoint command of a running transaction *)
Works(s) ==
  /\ pg[s] = "inprogress" /\ Machine(s)
  /\ wrote' \subseteq PgTxn \X Txn \X {"top", "sub"}
  /\ \A w \in wrote' :
       \/ \E v \in wrote : v[1] = w[1] /\ v[2] = w[2]
       \/ w[1] = Cur(s) /\ w[2] = txn[s] /\ skv[txn[s]] # "none"
  /\ UNCHANGED <<txn, skv, opened, late, pgx, verdict, split>>

(* CREATE DATABASE whose own commit is not acknowledged *)
CreateFails(s) ==
  /\ Moves(s) /\ OpenedBy(Cur(s)) /\ Machine(s)
  /\ pg[s] = "inprogress" /\ pg'[s] = "error"
  /\ txn[s] \in Txn /\ skv[txn[s]] = "active" /\ txn'[s] = NoTxn
  /\ wrote' = wrote \cup {<<Cur(s), txn[s], "top">>}
  /\ verdict' = [verdict EXCEPT ![Cur(s)] = "failed"]
  /\ UNCHANGED <<pgx, split>>

(* CREATE DATABASE past its own commit *)
CreateSplits(s) ==
  /\ Moves(s) /\ OpenedBy(Cur(s)) /\ Machine(s)
  /\ pg[s] = "inprogress"
  /\ txn[s] \in Txn /\ skv[txn[s]] = "active" /\ skv'[txn[s]] = "committed"
  /\ split' = split \cup {Cur(s)}
  /\ \/ wrote' = wrote \cup {<<Cur(s), txn[s], "top">>} /\ pg'[s] = "error"
     \/ /\ wrote' = wrote \cup {<<Cur(s), txn[s], "top">>,
                                <<Cur(s), txn'[s], "top">>}
        /\ txn'[s] \in Txn
        /\ skv[txn'[s]] = "none" /\ skv'[txn'[s]] = "active"
  /\ UNCHANGED <<pgx, verdict>>

(* InitSession *)
Inits(s) ==
  /\ Moves(s) /\ NoCommit /\ OpenedBy(Cur(s))
  /\ pg[s] = "idle"
  /\ UNCHANGED <<pg, pgx, sub, errs, wrote, verdict, split>>

(* The process dies, by a crash or on a full error stack *)
Dies ==
  /\ Die /\ NoCommit
  /\ skv' \in [Txn -> SkvState]
  /\ \A x \in Txn : skv'[x] = skv[x] \/ skv[x] = "active"
  /\ \A x \in Txn : skv'[x] = "none" => skv[x] = "none"
  /\ UNCHANGED <<opened, pgx, wrote, split>>

LEMMA CurType ==
  ASSUME TypeOK, NEW s \in Session
  PROVE  Cur(s) \in PgTxn /\ Cur(s)[1] = s /\ Cur(s)[2] = pgx[s]
BY DEF TypeOK, Cur, PgTxn

LEMMA RaiseMachine ==
  ASSUME TypeOK, NEW s \in Session, Raise(s), errs[s] < StackSize,
         sub' \in [Session -> BOOLEAN]
  PROVE  Machine(s) /\ pg'[s] = "error"
<1>1. pg' \in [Session -> PgState] /\ pg'[s] = "error"
  BY DEF Raise, TypeOK, PgState
<1>2. errs[s] + 1 \in 0..StackSize
  BY TxnAssumption DEF TypeOK
<1>3. errs' \in [Session -> 0..StackSize]
  BY <1>2 DEF Raise, TypeOK
<1>4. \A t \in Session \ {s} : pg'[t] = pg[t] /\ errs'[t] = errs[t]
  BY DEF Raise, TypeOK
<1> QED
  BY <1>1, <1>3, <1>4 DEF Machine

LEMMA CalmMachine ==
  ASSUME TypeOK, Stack, NEW s \in Session, NEW st \in PgState,
         pg' = [pg EXCEPT ![s] = st], errs' = [errs EXCEPT ![s] = 0],
         sub' \in [Session -> BOOLEAN]
  PROVE  Machine(s) /\ pg'[s] = st
<1>1. pg' \in [Session -> PgState] /\ pg'[s] = st
  BY DEF TypeOK
<1>2. 0 \in 0..StackSize
  BY TxnAssumption
<1>3. errs' \in [Session -> 0..StackSize] /\ errs'[s] = 0
  BY <1>2 DEF TypeOK
<1>4. \A t \in Session \ {s} : pg'[t] = pg[t] /\ errs'[t] = errs[t]
  BY DEF TypeOK
<1> QED
  BY <1>1, <1>3, <1>4 DEF Machine

LEMMA NoErrs ==
  ASSUME TypeOK, Stack, NEW s \in Session, pg[s] # "error"
  PROVE  errs[s] = 0 /\ errs[s] < StackSize /\ errs = [errs EXCEPT ![s] = 0]
BY TxnAssumption DEF TypeOK, Stack

LEMMA StartKind ==
  ASSUME TypeOK, Stack, NEW s \in Session, StartTransaction(s)
  PROVE  Starts(s)
<1> DEFINE p == <<s, pgx[s] + 1>>
<1>1. /\ pg[s] = "idle" /\ pgx[s] < MaxPg
      /\ pgx' = [pgx EXCEPT ![s] = @ + 1]
      /\ CallbackStart(s, p)
      /\ UNCHANGED <<sub, wrote, verdict, split>>
  BY DEF StartTransaction
<1>2. p \in PgTxn
  BY <1>1, TxnAssumption DEF TypeOK, PgTxn
<1>3. PICK r1 \in EndTxn(s, "abort") :
        IF r1.status = "fail"
        THEN Apply(s, p, r1) /\ Raise(s)
        ELSE \E r2 \in BeginTxn(NoTxn, r1.skv, r1.late) :
               /\ Apply(s, p, r2)
               /\ IF r2.status = "ok"
                  THEN /\ pg' = [pg EXCEPT ![s] = "inprogress"]
                       /\ UNCHANGED errs
                  ELSE Raise(s)
  BY <1>1 DEF CallbackStart, EndActionOf
<1>4. sub' \in [Session -> BOOLEAN]
  BY <1>1 DEF TypeOK
<1> HIDE DEF p
<1>5. CASE r1.status = "fail"
  <2>1. Moves(s) /\ NoCommit
    BY <1>3, <1>5, MovesEnd, TxnAssumption
  <2>2. OpenedBy(p)
    BY <1>2, <1>3, <1>5, ApplyOpened
  <2>3. Machine(s) /\ pg'[s] = "error"
    BY <1>1, <1>3, <1>4, <1>5, NoErrs, RaiseMachine
  <2> QED
    BY <1>1, <2>1, <2>2, <2>3 DEF Starts, p
<1>6. CASE r1.status # "fail"
  <2>1. PICK r2 \in BeginTxn(NoTxn, r1.skv, r1.late) :
               /\ Apply(s, p, r2)
               /\ IF r2.status = "ok"
                  THEN /\ pg' = [pg EXCEPT ![s] = "inprogress"]
                       /\ UNCHANGED errs
                  ELSE Raise(s)
    BY <1>3, <1>6
  <2>2. /\ Moves(s) /\ NoCommit
        /\ r2.status = "ok" => txn'[s] \in Txn /\ skv[txn'[s]] = "none"
                               /\ skv'[txn'[s]] = "active"
    BY <2>1, MovesBoth, TxnAssumption
  <2>3. OpenedBy(p)
    BY <1>2, <2>1, ApplyOpened
  <2>4. CASE r2.status = "ok"
    <3>1. Machine(s)
      BY <1>1, <1>4, <2>1, <2>4, NoErrs, CalmMachine DEF PgState
    <3> QED
      BY <1>1, <2>2, <2>3, <2>4, <3>1 DEF Starts, p
  <2>5. CASE r2.status # "ok"
    <3>1. Machine(s) /\ pg'[s] = "error"
      BY <1>1, <1>4, <2>1, <2>5, NoErrs, RaiseMachine
    <3> QED
      BY <1>1, <2>2, <2>3, <3>1 DEF Starts, p
  <2> QED
    BY <2>4, <2>5
<1> QED
  BY <1>5, <1>6

LEMMA CommitKind ==
  ASSUME TypeOK, Stack, NEW s \in Session, CommitTransaction(s)
  PROVE  Ends(s)
<1>1. PICK r \in EndTxn(s, "commit") :
       /\ Apply(s, Cur(s), r)
       /\ sub' = [sub EXCEPT ![s] = FALSE]
       /\ IF r.status = "ok"
          THEN /\ pg' = [pg EXCEPT ![s] = "idle"]
               /\ verdict' = [verdict EXCEPT ![Cur(s)] = "committed"]
               /\ UNCHANGED errs
          ELSE /\ Raise(s)
               /\ verdict' = [verdict EXCEPT ![Cur(s)] = "failed"]
  BY DEF CommitTransaction, EndActionOf, CommitAccepted
<1>2. pg[s] = "inprogress" /\ UNCHANGED <<pgx, wrote, split>>
  BY DEF CommitTransaction
<1>3. sub' \in [Session -> BOOLEAN]
  BY <1>1 DEF TypeOK
<1>4. /\ Moves(s) /\ txn'[s] = NoTxn
      /\ r.status = "ok" => txn[s] \in Txn /\ skv'[txn[s]] = "committed"
  BY <1>1, MovesEnd, TxnAssumption
<1>5. OpenedBy(Cur(s))
  BY <1>1, CurType, ApplyOpened
<1>6. \A v \in {"committed", "failed"} :
        verdict' = [verdict EXCEPT ![Cur(s)] = v] =>
          /\ verdict' \in [PgTxn -> Verdict] /\ verdict'[Cur(s)] = v
          /\ \A p \in PgTxn : p # Cur(s) => verdict'[p] = verdict[p]
  BY CurType DEF TypeOK, Verdict
<1>7. CASE r.status = "ok"
  <2>1. Machine(s) /\ pg'[s] = "idle"
    BY <1>1, <1>2, <1>3, <1>7, NoErrs, CalmMachine DEF PgState
  <2> QED
    BY <1>1, <1>2, <1>4, <1>5, <1>6, <1>7, <2>1 DEF Ends
<1>8. CASE r.status # "ok"
  <2>1. Machine(s) /\ pg'[s] = "error"
    BY <1>1, <1>2, <1>3, <1>8, NoErrs, RaiseMachine
  <2> QED
    BY <1>1, <1>2, <1>4, <1>5, <1>6, <1>8, <2>1 DEF Ends
<1> QED
  BY <1>7, <1>8

LEMMA AbortKind ==
  ASSUME TypeOK, Stack, NEW s \in Session, AbortTransaction(s)
  PROVE  Ends(s) \/ Dies
<1>1. PICK r \in EndTxn(s, "abort") :
       \/ /\ r.status = "ok"
          /\ Apply(s, Cur(s), r)
          /\ pg' = [pg EXCEPT ![s] = "idle"]
          /\ errs' = [errs EXCEPT ![s] = 0]
          /\ sub' = [sub EXCEPT ![s] = FALSE]
          /\ verdict' = [verdict EXCEPT ![Cur(s)] =
                           IF @ = "open" THEN "rolledback" ELSE @]
       \/ /\ ~StackFull(s)
          /\ Apply(s, Cur(s), r)
          /\ Raise(s)
          /\ UNCHANGED <<sub, verdict>>
       \/ /\ skv' = r.skv
          /\ late' = r.late
          /\ Die
          /\ UNCHANGED opened
  BY DEF AbortTransaction, EndActionOf
<1>2. UNCHANGED <<pgx, wrote, split>>
  BY DEF AbortTransaction
<1>3. ASSUME Apply(s, Cur(s), r)
      PROVE  Moves(s) /\ txn'[s] = NoTxn /\ NoCommit /\ OpenedBy(Cur(s))
  BY <1>3, MovesEnd, CurType, ApplyOpened, TxnAssumption
<1>4. CASE /\ Apply(s, Cur(s), r)
           /\ pg' = [pg EXCEPT ![s] = "idle"]
           /\ errs' = [errs EXCEPT ![s] = 0]
           /\ sub' = [sub EXCEPT ![s] = FALSE]
           /\ verdict' = [verdict EXCEPT ![Cur(s)] =
                           IF @ = "open" THEN "rolledback" ELSE @]
  <2>1. sub' \in [Session -> BOOLEAN]
    BY <1>4 DEF TypeOK
  <2>2. Machine(s) /\ pg'[s] = "idle"
    BY <1>4, <2>1, CalmMachine DEF PgState
  <2>3. /\ verdict' \in [PgTxn -> Verdict]
        /\ \A p \in PgTxn : p # Cur(s) => verdict'[p] = verdict[p]
        /\ \/ verdict'[Cur(s)] = verdict[Cur(s)]
           \/ verdict[Cur(s)] = "open" /\ verdict'[Cur(s)] = "rolledback"
    BY <1>4, CurType DEF TypeOK, Verdict
  <2> QED
    BY <1>2, <1>3, <1>4, <2>2, <2>3 DEF Ends
<1>5. CASE /\ ~StackFull(s)
           /\ Apply(s, Cur(s), r)
           /\ Raise(s)
           /\ UNCHANGED <<sub, verdict>>
  <2>1. errs[s] < StackSize /\ sub' \in [Session -> BOOLEAN]
    BY <1>5, TxnAssumption DEF StackFull, TypeOK
  <2>2. Machine(s) /\ pg'[s] = "error"
    BY <1>5, <2>1, RaiseMachine
  <2>3. verdict' \in [PgTxn -> Verdict]
    BY <1>5 DEF TypeOK
  <2> QED
    BY <1>2, <1>3, <1>5, <2>2, <2>3 DEF Ends
<1>6. CASE /\ skv' = r.skv
           /\ late' = r.late
           /\ Die
           /\ UNCHANGED opened
  BY <1>2, <1>6, EndFacts DEF Dies, NoCommit
<1> QED
  BY <1>1, <1>4, <1>5, <1>6

(* A running transaction has its handle: beginTxn changes nothing *)
LEMMA BeginKeeps ==
  ASSUME TypeOK, Running, NEW s \in Session, pg[s] = "inprogress", NEW p,
         NEW r \in BeginTxn(txn[s], skv, late), Apply(s, p, r)
  PROVE  r.handle = txn[s] /\ txn[s] \in Txn /\ r.skv = skv
         /\ UNCHANGED <<txn, skv, opened, late>>
<1>1. txn[s] # NoTxn /\ txn[s] \in Txn
  BY DEF Running, TypeOK
<1>2. r = Reply("ok", skv, late, txn[s])
  BY <1>1 DEF BeginTxn
<1>3. r.handle = txn[s] /\ r.skv = skv /\ r.late = late
  BY <1>2 DEF Reply
<1>4. txn' = txn /\ skv' = skv /\ late' = late
  BY <1>3 DEF Apply, TypeOK
<1>5. opened' = opened
  BY <1>3 DEF Apply, TypeOK
<1> QED
  BY <1>1, <1>3, <1>4, <1>5

LEMMA WriteType ==
  ASSUME TypeOK, NEW s \in Session, txn[s] \in Txn
  PROVE  \A l \in {"top", "sub"} :
           <<Cur(s), txn[s], l>> \in PgTxn \X Txn \X {"top", "sub"}
BY CurType

LEMMA WriteOkKind ==
  ASSUME TypeOK, Stack, Running, NEW s \in Session, WriteOk(s)
  PROVE  Works(s)
<1>1. PICK r \in BeginTxn(txn[s], skv, late) :
       /\ r.skv[r.handle] = "active"
       /\ Apply(s, Cur(s), r)
       /\ wrote' = wrote \cup {<<Cur(s), r.handle, Level(s)>>}
  BY DEF WriteOk
<1>2. pg[s] = "inprogress" /\ UNCHANGED <<pg, pgx, sub, errs, verdict, split>>
  BY DEF WriteOk
<1>3. /\ r.handle = txn[s] /\ txn[s] \in Txn /\ r.skv = skv
      /\ UNCHANGED <<txn, skv, opened, late>>
  BY <1>1, <1>2, BeginKeeps
<1>4. Machine(s)
  BY <1>2 DEF TypeOK, Stack, Machine
<1>5. wrote' \subseteq PgTxn \X Txn \X {"top", "sub"}
  BY <1>1, <1>3, WriteType DEF TypeOK, Level
<1>6. \A w \in wrote' : w \in wrote \/ (w[1] = Cur(s) /\ w[2] = txn[s])
  BY <1>1, <1>3
<1> QED
  BY <1>1, <1>2, <1>3, <1>4, <1>5, <1>6 DEF Works

LEMMA WriteFailsKind ==
  ASSUME TypeOK, Stack, Running, NEW s \in Session, WriteFails(s)
  PROVE  Works(s)
<1>1. PICK r \in BeginTxn(txn[s], skv, late) :
       /\ Apply(s, Cur(s), r)
       /\ \E u \in SUBSET (IF r.status = "ok" /\ r.skv[r.handle] = "active"
                          THEN {<<Cur(s), r.handle, Level(s)>>} ELSE {}) :
            StatementFails(s, wrote \cup u)
  BY DEF WriteFails
<1>2. pg[s] = "inprogress" /\ UNCHANGED <<pgx, verdict, split>>
  BY DEF WriteFails
<1>3. /\ r.handle = txn[s] /\ txn[s] \in Txn /\ r.skv = skv
      /\ UNCHANGED <<txn, skv, opened, late>>
  BY <1>1, <1>2, BeginKeeps
<1>4. PICK u : /\ StatementFails(s, wrote \cup u)
               /\ u \subseteq {<<Cur(s), txn[s], Level(s)>>}
               /\ u # {} => skv[txn[s]] = "active"
  BY <1>1, <1>3
<1>5. Machine(s)
  <2>1. CASE Raise(s) /\ UNCHANGED sub
    <3>1. sub' \in [Session -> BOOLEAN]
      BY <2>1 DEF TypeOK
    <3> QED
      BY <1>2, <2>1, <3>1, NoErrs, RaiseMachine
  <2>2. CASE sub' = [sub EXCEPT ![s] = FALSE] /\ UNCHANGED <<pg, errs>>
    BY <2>2 DEF TypeOK, Stack, Machine
  <2> QED
    BY <1>4, <2>1, <2>2 DEF StatementFails
<1>6. wrote' \subseteq wrote \cup u
  BY <1>4 DEF StatementFails, AbortSub
<1>7. wrote' \subseteq PgTxn \X Txn \X {"top", "sub"}
  BY <1>3, <1>4, <1>6, WriteType DEF TypeOK, Level
<1>8. \A w \in wrote' :
        w \in wrote \/ (w[1] = Cur(s) /\ w[2] = txn[s] /\ skv[txn[s]] = "active")
  BY <1>4, <1>6
<1> QED
  BY <1>2, <1>3, <1>5, <1>7, <1>8 DEF Works

LEMMA SavepointKinds ==
  ASSUME TypeOK, Stack, NEW s \in Session,
         Savepoint(s) \/ RollbackToSavepoint(s) \/ ReleaseSavepoint(s)
  PROVE  Works(s)
<1>1. /\ pg[s] = "inprogress"
      /\ UNCHANGED <<txn, skv, opened, late, pg, pgx, errs, verdict, split>>
  BY DEF Savepoint, RollbackToSavepoint, ReleaseSavepoint
<1>2. sub' \in [Session -> BOOLEAN]
  BY DEF Savepoint, RollbackToSavepoint, ReleaseSavepoint, TypeOK
<1>3. Machine(s)
  BY <1>1, <1>2 DEF Machine, TypeOK, Stack
<1>4. CASE Savepoint(s) \/ RollbackToSavepoint(s)
  <2>1. wrote' \subseteq wrote
    BY <1>4 DEF Savepoint, RollbackToSavepoint, AbortSub
  <2> QED
    BY <1>1, <1>3, <2>1 DEF Works, TypeOK
<1>5. CASE ReleaseSavepoint(s)
  <2>1. ASSUME NEW w \in wrote'
        PROVE  /\ w \in PgTxn \X Txn \X {"top", "sub"}
               /\ \E v \in wrote : v[1] = w[1] /\ v[2] = w[2]
    <3>1. \/ w \in wrote
          \/ \E x \in Txn : <<Cur(s), x, "sub">> \in wrote /\ w = <<Cur(s), x, "top">>
      BY <1>5, <2>1 DEF ReleaseSavepoint
    <3>2. CASE w \in wrote
      BY <3>2 DEF TypeOK
    <3>3. ASSUME NEW x \in Txn, <<Cur(s), x, "sub">> \in wrote,
                 w = <<Cur(s), x, "top">>
          PROVE  /\ w \in PgTxn \X Txn \X {"top", "sub"}
                 /\ \E v \in wrote : v[1] = w[1] /\ v[2] = w[2]
      BY <3>3, CurType
    <3> QED
      BY <3>1, <3>2, <3>3
  <2> QED
    BY <1>1, <1>3, <2>1 DEF Works
<1> QED
  BY <1>4, <1>5

LEMMA CreateKind ==
  ASSUME TypeOK, Stack, NEW s \in Session, CreateDatabase(s)
  PROVE  CreateFails(s) \/ CreateSplits(s)
<1>1. /\ pg[s] = "inprogress" /\ txn[s] # NoTxn /\ skv[txn[s]] = "active"
      /\ UNCHANGED <<pgx, sub>>
  BY DEF CreateDatabase
<1>2. txn[s] \in Txn /\ sub' \in [Session -> BOOLEAN] /\ errs[s] < StackSize
  BY <1>1, NoErrs DEF TypeOK
<1>3. PICK r1 \in EndTxn(s, "commit") :
       \/ /\ r1.status # "ok"
          /\ Apply(s, Cur(s), r1)
          /\ Raise(s)
          /\ wrote' = wrote \cup {<<Cur(s), txn[s], "top">>}
          /\ verdict' = [verdict EXCEPT ![Cur(s)] = "failed"]
          /\ UNCHANGED <<split>>
       \/ /\ r1.status = "ok"
          /\ split' = split \cup {Cur(s)}
          /\ \E r2 \in BeginTxn(NoTxn, r1.skv, r1.late) :
               /\ Apply(s, Cur(s), r2)
               /\ \/ /\ r2.status = "ok"
                     /\ wrote' = wrote \cup {<<Cur(s), txn[s], "top">>,
                                             <<Cur(s), r2.handle, "top">>}
                     /\ UNCHANGED <<pg, errs>>
                  \/ /\ wrote' = wrote \cup {<<Cur(s), txn[s], "top">>}
                     /\ Raise(s)
          /\ UNCHANGED verdict
  BY DEF CreateDatabase
<1>4. CASE r1.status # "ok"
  <2>1. /\ Apply(s, Cur(s), r1) /\ Raise(s)
        /\ wrote' = wrote \cup {<<Cur(s), txn[s], "top">>}
        /\ verdict' = [verdict EXCEPT ![Cur(s)] = "failed"]
        /\ UNCHANGED <<split>>
    BY <1>3, <1>4
  <2>2. Moves(s) /\ txn'[s] = NoTxn
    BY <2>1, MovesEnd, TxnAssumption
  <2>3. OpenedBy(Cur(s))
    BY <2>1, CurType, ApplyOpened
  <2>4. Machine(s) /\ pg'[s] = "error"
    BY <1>2, <2>1, RaiseMachine
  <2> QED
    BY <1>1, <1>2, <2>1, <2>2, <2>3, <2>4 DEF CreateFails
<1>5. CASE r1.status = "ok"
  <2>1. PICK r2 \in BeginTxn(NoTxn, r1.skv, r1.late) :
          /\ Apply(s, Cur(s), r2)
          /\ \/ /\ r2.status = "ok"
                /\ wrote' = wrote \cup {<<Cur(s), txn[s], "top">>,
                                        <<Cur(s), r2.handle, "top">>}
                /\ UNCHANGED <<pg, errs>>
             \/ /\ wrote' = wrote \cup {<<Cur(s), txn[s], "top">>}
                /\ Raise(s)
    BY <1>3, <1>5
  <2>2. split' = split \cup {Cur(s)} /\ UNCHANGED verdict
    BY <1>3, <1>5
  <2>3. /\ Moves(s)
        /\ skv'[txn[s]] = "committed"
        /\ txn'[s] = r2.handle
        /\ r2.status = "ok" => txn'[s] \in Txn /\ skv[txn'[s]] = "none"
                               /\ skv'[txn'[s]] = "active"
    BY <1>5, <2>1, MovesBoth, TxnAssumption
  <2>4. OpenedBy(Cur(s))
    BY <2>1, CurType, ApplyOpened
  <2>5. CASE Raise(s) /\ wrote' = wrote \cup {<<Cur(s), txn[s], "top">>}
    <3>1. Machine(s) /\ pg'[s] = "error"
      BY <1>2, <2>5, RaiseMachine
    <3> QED
      BY <1>1, <1>2, <2>2, <2>3, <2>4, <2>5, <3>1 DEF CreateSplits
  <2>6. CASE /\ r2.status = "ok"
             /\ wrote' = wrote \cup {<<Cur(s), txn[s], "top">>,
                                     <<Cur(s), r2.handle, "top">>}
             /\ UNCHANGED <<pg, errs>>
    <3>1. Machine(s)
      BY <1>2, <2>6 DEF Machine, TypeOK, Stack
    <3> QED
      BY <1>1, <1>2, <2>2, <2>3, <2>4, <2>6, <3>1 DEF CreateSplits
  <2> QED
    BY <2>1, <2>5, <2>6
<1> QED
  BY <1>4, <1>5

LEMMA InitKind ==
  ASSUME TypeOK, NEW s \in Session, InitSession(s)
  PROVE  Inits(s)
<1>0. PICK r1 \in EndTxn(s, "abort") :
        \E r2 \in BeginTxn(NoTxn, r1.skv, r1.late) : Apply(s, Cur(s), r2)
  BY DEF InitSession
<1>1. PICK r2 \in BeginTxn(NoTxn, r1.skv, r1.late) : Apply(s, Cur(s), r2)
  BY <1>0
<1>2. Moves(s) /\ NoCommit
  BY <1>1, MovesBoth, TxnAssumption
<1>3. OpenedBy(Cur(s))
  BY <1>1, CurType, ApplyOpened
<1> QED
  BY <1>2, <1>3 DEF Inits, InitSession

LEMMA CrashKind ==
  ASSUME TypeOK, Crash
  PROVE  Dies
BY DEF Crash, Dies, NoCommit, TypeOK

(* Every step is of one of these kinds *)
LEMMA Kinds ==
  ASSUME TypeOK, Stack, Running, Next
  PROVE  \/ \E s \in Session :
              \/ Starts(s) \/ Ends(s) \/ Works(s) \/ Inits(s)
              \/ CreateFails(s) \/ CreateSplits(s)
         \/ Dies
         \/ \E x \in Txn : SkvAborts(x) \/ SkvLateCommit(x)
         \/ Restart
<1>1. ASSUME NEW s \in Session, StartTransaction(s)
      PROVE  Starts(s)
  BY <1>1, StartKind
<1>2. ASSUME NEW s \in Session, CommitTransaction(s)
      PROVE  Ends(s)
  BY <1>2, CommitKind
<1>3. ASSUME NEW s \in Session, AbortTransaction(s)
      PROVE  Ends(s) \/ Dies
  BY <1>3, AbortKind
<1>4. ASSUME NEW s \in Session, WriteOk(s)
      PROVE  Works(s)
  BY <1>4, WriteOkKind
<1>5. ASSUME NEW s \in Session, WriteFails(s)
      PROVE  Works(s)
  BY <1>5, WriteFailsKind
<1>6. ASSUME NEW s \in Session,
             Savepoint(s) \/ RollbackToSavepoint(s) \/ ReleaseSavepoint(s)
      PROVE  Works(s)
  BY <1>6, SavepointKinds
<1>7. ASSUME NEW s \in Session, CreateDatabase(s)
      PROVE  CreateFails(s) \/ CreateSplits(s)
  BY <1>7, CreateKind
<1>8. ASSUME NEW s \in Session, InitSession(s)
      PROVE  Inits(s)
  BY <1>8, InitKind
<1> QED
  BY <1>1, <1>2, <1>3, <1>4, <1>5, <1>6, <1>7, <1>8, CrashKind DEF Next
-----------------------------------------------------------------------------
(* Type correctness; the error stack never overflows *)
LEMMA TypeStep ==
  ASSUME TypeOK, Stack, Running, Next
  PROVE  TypeOK'
<1>1. ASSUME NEW s \in Session, Starts(s)
      PROVE  TypeOK'
  <2>1. pgx[s] + 1 \in 0..MaxPg
    BY <1>1, TxnAssumption DEF Starts, TypeOK
  <2>2. pgx' \in [Session -> 0..MaxPg]
    BY <1>1, <2>1 DEF Starts, TypeOK
  <2> QED
    BY <1>1, <2>2 DEF Starts, TypeOK, Moves, OpenedBy, Machine
<1>2. ASSUME NEW s \in Session, Ends(s)
      PROVE  TypeOK'
  BY <1>2 DEF Ends, TypeOK, Moves, OpenedBy, Machine
<1>3. ASSUME NEW s \in Session, Works(s)
      PROVE  TypeOK'
  BY <1>3 DEF Works, TypeOK, Moves, OpenedBy, Machine
<1>4. ASSUME NEW s \in Session, Inits(s)
      PROVE  TypeOK'
  BY <1>4 DEF Inits, TypeOK, Moves, OpenedBy
<1>5. ASSUME NEW s \in Session, CreateFails(s)
      PROVE  TypeOK'
  <2>1. wrote' \subseteq PgTxn \X Txn \X {"top", "sub"}
    BY <1>5, WriteType DEF CreateFails, TypeOK
  <2>2. verdict' \in [PgTxn -> Verdict]
    BY <1>5, CurType DEF CreateFails, TypeOK, Verdict
  <2> QED
    BY <1>5, <2>1, <2>2 DEF CreateFails, TypeOK, Moves, OpenedBy, Machine
<1>6. ASSUME NEW s \in Session, CreateSplits(s)
      PROVE  TypeOK'
  <2>1. wrote' \subseteq PgTxn \X Txn \X {"top", "sub"}
    BY <1>6, CurType DEF CreateSplits, TypeOK
  <2>2. split' \subseteq PgTxn
    BY <1>6, CurType DEF CreateSplits, TypeOK
  <2> QED
    BY <1>6, <2>1, <2>2 DEF CreateSplits, TypeOK, Moves, OpenedBy, Machine
<1>7. ASSUME Dies
      PROVE  TypeOK'
  <2>1. 0 \in 0..StackSize
    BY TxnAssumption
  <2>2. pg' \in [Session -> PgState] /\ errs' \in [Session -> 0..StackSize]
    BY <1>7, <2>1 DEF Dies, Die, PgState
  <2>3. verdict' \in [PgTxn -> Verdict]
    BY <1>7 DEF Dies, Die, TypeOK, Verdict
  <2> QED
    BY <1>7, <2>2, <2>3 DEF Dies, Die, TypeOK, NoCommit
<1>8. ASSUME NEW x \in Txn, SkvAborts(x)
      PROVE  TypeOK'
  BY <1>8 DEF SkvAborts, TypeOK, SkvState
<1>9. ASSUME NEW x \in Txn, SkvLateCommit(x)
      PROVE  TypeOK'
  BY <1>9 DEF SkvLateCommit, TypeOK, SkvState
<1>10. ASSUME Restart
      PROVE  TypeOK'
  BY <1>10 DEF Restart, TypeOK, PgState
<1> QED
  BY <1>1, <1>2, <1>3, <1>4, <1>5, <1>6, <1>7, <1>8, <1>9, <1>10, Kinds

(* A handle is dropped before its transaction can be committed *)
LEMMA HandlesStep ==
  ASSUME TypeOK, Stack, Running, Handles, Begun, Next
  PROVE  Handles'
<1>1. ASSUME NEW s \in Session, Starts(s)
      PROVE  Handles'
  BY <1>1, TxnAssumption DEF Starts,  TypeOK, Handles, Begun, Moves
<1>2. ASSUME NEW s \in Session, Ends(s)
      PROVE  Handles'
  BY <1>2, TxnAssumption DEF Ends,  TypeOK, Handles, Begun, Moves
<1>3. ASSUME NEW s \in Session, Works(s)
      PROVE  Handles'
  BY <1>3 DEF Works, TypeOK, Handles
<1>4. ASSUME NEW s \in Session, Inits(s)
      PROVE  Handles'
  BY <1>4, TxnAssumption DEF Inits,  TypeOK, Handles, Begun, Moves
<1>5. ASSUME NEW s \in Session, CreateFails(s)
      PROVE  Handles'
  BY <1>5, TxnAssumption DEF CreateFails,  TypeOK, Handles, Begun, Moves
<1>6. ASSUME NEW s \in Session, CreateSplits(s)
      PROVE  Handles'
  BY <1>6, TxnAssumption DEF CreateSplits,  TypeOK, Handles, Begun, Moves
<1>7. ASSUME Dies
      PROVE  Handles'
  BY <1>7 DEF Dies, Die, Handles
<1>8. ASSUME NEW x \in Txn, SkvAborts(x)
      PROVE  Handles'
  BY <1>8 DEF SkvAborts, TypeOK, Handles
<1>9. ASSUME NEW x \in Txn, SkvLateCommit(x)
      PROVE  Handles'
  BY <1>9 DEF SkvLateCommit, TypeOK, Handles
<1>10. ASSUME Restart
      PROVE  Handles'
  BY <1>10 DEF Restart, Handles
<1> QED
  BY <1>1, <1>2, <1>3, <1>4, <1>5, <1>6, <1>7, <1>8, <1>9, <1>10, Kinds

LEMMA BegunStep ==
  ASSUME TypeOK, Stack, Running, Handles, Begun, Next
  PROVE  Begun'
<1>1. ASSUME NEW s \in Session, Starts(s)
      PROVE  Begun'
  BY <1>1 DEF Starts, TypeOK, Handles, Begun, Moves
<1>2. ASSUME NEW s \in Session, Ends(s)
      PROVE  Begun'
  BY <1>2 DEF Ends, TypeOK, Handles, Begun, Moves
<1>3. ASSUME NEW s \in Session, Works(s)
      PROVE  Begun'
  BY <1>3 DEF Works, TypeOK, Begun
<1>4. ASSUME NEW s \in Session, Inits(s)
      PROVE  Begun'
  BY <1>4 DEF Inits, TypeOK, Handles, Begun, Moves
<1>5. ASSUME NEW s \in Session, CreateFails(s)
      PROVE  Begun'
  BY <1>5 DEF CreateFails, TypeOK, Handles, Begun, Moves
<1>6. ASSUME NEW s \in Session, CreateSplits(s)
      PROVE  Begun'
  BY <1>6 DEF CreateSplits, TypeOK, Handles, Begun, Moves
<1>7. ASSUME Dies
      PROVE  Begun'
  BY <1>7 DEF Dies, NoCommit, Begun
<1>8. ASSUME NEW x \in Txn, SkvAborts(x)
      PROVE  Begun'
  BY <1>8 DEF SkvAborts, TypeOK, Begun
<1>9. ASSUME NEW x \in Txn, SkvLateCommit(x)
      PROVE  Begun'
  BY <1>9 DEF SkvLateCommit, TypeOK, Begun
<1>10. ASSUME Restart
      PROVE  Begun'
  BY <1>10 DEF Restart, Begun
<1> QED
  BY <1>1, <1>2, <1>3, <1>4, <1>5, <1>6, <1>7, <1>8, <1>9, <1>10, Kinds

LEMMA StackStep ==
  ASSUME TypeOK, Stack, Running, Next
  PROVE  Stack'
<1>1. ASSUME NEW s \in Session, Starts(s)
      PROVE  Stack'
  BY <1>1 DEF Starts, Stack, Machine
<1>2. ASSUME NEW s \in Session, Ends(s)
      PROVE  Stack'
  BY <1>2 DEF Ends, Stack, Machine
<1>3. ASSUME NEW s \in Session, Works(s)
      PROVE  Stack'
  BY <1>3 DEF Works, Stack, Machine
<1>4. ASSUME NEW s \in Session, Inits(s)
      PROVE  Stack'
  BY <1>4 DEF Inits, Stack
<1>5. ASSUME NEW s \in Session, CreateFails(s)
      PROVE  Stack'
  BY <1>5 DEF CreateFails, Stack, Machine
<1>6. ASSUME NEW s \in Session, CreateSplits(s)
      PROVE  Stack'
  BY <1>6 DEF CreateSplits, Stack, Machine
<1>7. ASSUME Dies
      PROVE  Stack'
  BY <1>7 DEF Dies, Die, Stack
<1>8. ASSUME NEW x \in Txn, SkvAborts(x)
      PROVE  Stack'
  BY <1>8 DEF SkvAborts, Stack
<1>9. ASSUME NEW x \in Txn, SkvLateCommit(x)
      PROVE  Stack'
  BY <1>9 DEF SkvLateCommit, Stack
<1>10. ASSUME Restart
      PROVE  Stack'
  BY <1>10 DEF Restart, Stack, TypeOK
<1> QED
  BY <1>1, <1>2, <1>3, <1>4, <1>5, <1>6, <1>7, <1>8, <1>9, <1>10, Kinds

LEMMA UnbornStep ==
  ASSUME TypeOK, Stack, Running, Unborn, Next
  PROVE  Unborn'
<1>1. ASSUME NEW s \in Session, Starts(s)
      PROVE  Unborn'
  BY <1>1 DEF Starts, TypeOK, Unborn, PgTxn, Cur
<1>2. ASSUME NEW s \in Session, Ends(s)
      PROVE  Unborn'
  BY <1>2 DEF Ends, TypeOK, Unborn, PgTxn, Cur
<1>3. ASSUME NEW s \in Session, Works(s)
      PROVE  Unborn'
  BY <1>3 DEF Works, TypeOK, Unborn, PgTxn, Cur
<1>4. ASSUME NEW s \in Session, Inits(s)
      PROVE  Unborn'
  BY <1>4 DEF Inits, Unborn
<1>5. ASSUME NEW s \in Session, CreateFails(s)
      PROVE  Unborn'
  BY <1>5 DEF CreateFails, TypeOK, Unborn, PgTxn, Cur
<1>6. ASSUME NEW s \in Session, CreateSplits(s)
      PROVE  Unborn'
  BY <1>6 DEF CreateSplits, TypeOK, Unborn, PgTxn, Cur
<1>7. ASSUME Dies
      PROVE  Unborn'
  <2>1. \A p \in PgTxn : p[2] > pgx[p[1]] => verdict'[p] = verdict[p]
    BY <1>7, TxnAssumption DEF Dies, Die, TypeOK, PgTxn
  <2> QED
    BY <1>7, <2>1 DEF Dies, Unborn
<1>8. ASSUME NEW x \in Txn, SkvAborts(x)
      PROVE  Unborn'
  BY <1>8 DEF SkvAborts, Unborn
<1>9. ASSUME NEW x \in Txn, SkvLateCommit(x)
      PROVE  Unborn'
  BY <1>9 DEF SkvLateCommit, Unborn
<1>10. ASSUME Restart
      PROVE  Unborn'
  BY <1>10 DEF Restart, Unborn
<1> QED
  BY <1>1, <1>2, <1>3, <1>4, <1>5, <1>6, <1>7, <1>8, <1>9, <1>10, Kinds
(* A PostgreSQL transaction runs on an SKV transaction it began itself *)
LEMMA RunningStep ==
  ASSUME TypeOK, Stack, Running, Handles, Unborn, Next
  PROVE  Running'
<1>1. ASSUME NEW s \in Session, Starts(s)
      PROVE  Running'
  <2> SUFFICES ASSUME NEW t \in Session, pg'[t] = "inprogress"
               PROVE  /\ verdict'[Cur(t)'] = "open"
                      /\ txn'[t] # NoTxn
                      /\ opened'[txn'[t]] = Cur(t)'
    BY DEF Running
  <2>1. pgx[s] + 1 \in 0..MaxPg /\ <<s, pgx[s] + 1>> \in PgTxn
    BY <1>1, TxnAssumption DEF Starts, TypeOK, PgTxn
  <2>2. CASE t = s
    <3>1. Cur(s)' = <<s, pgx[s] + 1>>
      BY <1>1 DEF Starts, Cur, TypeOK
    <3>2. verdict[<<s, pgx[s] + 1>>] = "open"
      BY <2>1, TxnAssumption DEF Unborn, TypeOK
    <3>3. txn'[s] \in Txn /\ skv[txn'[s]] = "none" /\ skv'[txn'[s]] = "active"
      BY <1>1, <2>2 DEF Starts
    <3>4. opened'[txn'[s]] = <<s, pgx[s] + 1>>
      BY <1>1, <3>3 DEF Starts, OpenedBy
    <3> QED
      BY <1>1, <2>2, <3>1, <3>2, <3>3, <3>4, TxnAssumption DEF Starts
  <2>3. CASE t # s
    <3>1. pg[t] = "inprogress" /\ txn'[t] = txn[t] /\ Cur(t)' = Cur(t)
      BY <1>1, <2>3 DEF Starts, Moves, Machine, Cur, TypeOK
    <3>2. txn[t] \in Txn /\ skv[txn[t]] # "none"
      BY <3>1 DEF Running, Handles, TypeOK
    <3> QED
      BY <1>1, <3>1, <3>2 DEF Starts, OpenedBy, Running
  <2> QED
    BY <2>2, <2>3
<1>2. ASSUME NEW s \in Session, Ends(s)
      PROVE  Running'
  <2> SUFFICES ASSUME NEW t \in Session, pg'[t] = "inprogress"
               PROVE  /\ verdict'[Cur(t)] = "open"
                      /\ txn'[t] # NoTxn
                      /\ opened'[txn'[t]] = Cur(t)
    BY <1>2 DEF Ends, Running, Cur
  <2>1. t # s /\ pg[t] = "inprogress" /\ txn'[t] = txn[t]
    BY <1>2 DEF Ends, Moves, Machine
  <2>2. Cur(t) \in PgTxn /\ Cur(s) # Cur(t)
    BY <2>1, CurType
  <2>3. txn[t] \in Txn /\ skv[txn[t]] # "none"
    BY <2>1 DEF Running, Handles, TypeOK
  <2> QED
    BY <1>2, <2>1, <2>2, <2>3 DEF Ends, OpenedBy, Running, TypeOK
<1>3. ASSUME NEW s \in Session, Works(s)
      PROVE  Running'
  BY <1>3 DEF Works, Running, Cur, Machine
<1>4. ASSUME NEW s \in Session, Inits(s)
      PROVE  Running'
  <2> SUFFICES ASSUME NEW t \in Session, pg'[t] = "inprogress"
               PROVE  /\ verdict'[Cur(t)] = "open"
                      /\ txn'[t] # NoTxn
                      /\ opened'[txn'[t]] = Cur(t)
    BY <1>4 DEF Inits, Running, Cur
  <2>1. t # s /\ pg[t] = "inprogress" /\ txn'[t] = txn[t]
    BY <1>4 DEF Inits, Moves
  <2>2. Cur(t) \in PgTxn /\ Cur(s) # Cur(t)
    BY <2>1, CurType
  <2>3. txn[t] \in Txn /\ skv[txn[t]] # "none"
    BY <2>1 DEF Running, Handles, TypeOK
  <2> QED
    BY <1>4, <2>1, <2>2, <2>3 DEF Inits, OpenedBy, Running, TypeOK
<1>5. ASSUME NEW s \in Session, CreateFails(s)
      PROVE  Running'
  <2> SUFFICES ASSUME NEW t \in Session, pg'[t] = "inprogress"
               PROVE  /\ verdict'[Cur(t)] = "open"
                      /\ txn'[t] # NoTxn
                      /\ opened'[txn'[t]] = Cur(t)
    BY <1>5 DEF CreateFails, Running, Cur
  <2>1. t # s /\ pg[t] = "inprogress" /\ txn'[t] = txn[t]
    BY <1>5 DEF CreateFails, Moves, Machine
  <2>2. Cur(t) \in PgTxn /\ Cur(s) # Cur(t)
    BY <2>1, CurType
  <2>3. txn[t] \in Txn /\ skv[txn[t]] # "none"
    BY <2>1 DEF Running, Handles, TypeOK
  <2> QED
    BY <1>5, <2>1, <2>2, <2>3 DEF CreateFails, OpenedBy, Running, TypeOK
<1>6. ASSUME NEW s \in Session, CreateSplits(s)
      PROVE  Running'
  <2> SUFFICES ASSUME NEW t \in Session, pg'[t] = "inprogress"
               PROVE  /\ verdict[Cur(t)] = "open"
                      /\ txn'[t] # NoTxn
                      /\ opened'[txn'[t]] = Cur(t)
    BY <1>6 DEF CreateSplits, Running, Cur
  <2>2. CASE t = s
    BY <1>6, <2>2, TxnAssumption DEF CreateSplits, OpenedBy, Running
  <2>3. CASE t # s
    <3>1. pg[t] = "inprogress" /\ txn'[t] = txn[t]
      BY <1>6, <2>3 DEF CreateSplits, Moves, Machine
    <3>2. txn[t] \in Txn /\ skv[txn[t]] # "none"
      BY <3>1 DEF Running, Handles, TypeOK
    <3> QED
      BY <1>6, <3>1, <3>2 DEF CreateSplits, OpenedBy, Running
  <2> QED
    BY <2>2, <2>3
<1>7. ASSUME Dies
      PROVE  Running'
  BY <1>7 DEF Dies, Die, Running
<1>8. ASSUME NEW x \in Txn, SkvAborts(x)
      PROVE  Running'
  BY <1>8 DEF SkvAborts, Running, Cur
<1>9. ASSUME NEW x \in Txn, SkvLateCommit(x)
      PROVE  Running'
  BY <1>9 DEF SkvLateCommit, Running, Cur
<1>10. ASSUME Restart
      PROVE  Running'
  BY <1>10 DEF Restart, Running
<1> QED
  BY <1>1, <1>2, <1>3, <1>4, <1>5, <1>6, <1>7, <1>8, <1>9, <1>10, Kinds

(* All its writes go through that one, but for a split *)
LEMMA OneHandleStep ==
  ASSUME TypeOK, Stack, Running, Handles, Begun, Unborn, OneHandle, OwnSnapshot, Next
  PROVE  OneHandle'
<1>1. ASSUME NEW s \in Session, Starts(s)
      PROVE  OneHandle'
  <2> SUFFICES ASSUME NEW t \in Session, pg'[t] = "inprogress",
                      NEW w \in wrote, w[1] = Cur(t)'
               PROVE  w[2] = txn'[t] \/ (w[1] \in split /\ skv'[w[2]] = "committed")
    BY <1>1 DEF Starts, OneHandle
  <2>1. CASE t = s
    <3>1. Cur(s)' = <<s, pgx[s] + 1>> /\ <<s, pgx[s] + 1>> \in PgTxn
      BY <1>1, TxnAssumption DEF Starts, Cur, TypeOK, PgTxn
    <3> QED
      BY <2>1, <3>1, TxnAssumption DEF Unborn, TypeOK
  <2>2. CASE t # s
    <3>1. pg[t] = "inprogress" /\ txn'[t] = txn[t] /\ Cur(t)' = Cur(t)
      BY <1>1, <2>2 DEF Starts, Moves, Machine, Cur, TypeOK
    <3>2. w[2] \in Txn
      BY DEF TypeOK
    <3> QED
      BY <1>1, <3>1, <3>2 DEF Starts, Moves, OneHandle
  <2> QED
    BY <2>1, <2>2
<1>2. ASSUME NEW s \in Session, Ends(s)
      PROVE  OneHandle'
  <2> SUFFICES ASSUME NEW t \in Session, pg'[t] = "inprogress",
                      NEW w \in wrote', w[1] = Cur(t)
               PROVE  w[2] = txn'[t] \/ (w[1] \in split /\ skv'[w[2]] = "committed")
    BY <1>2 DEF Ends, OneHandle, Cur
  <2>1. t # s /\ pg[t] = "inprogress" /\ txn'[t] = txn[t]
    BY <1>2 DEF Ends, Moves, Machine
  <2>2. Cur(s) # Cur(t)
    BY <2>1, CurType
  <2>3. w \in wrote /\ w[2] \in Txn
    BY <1>2, <2>2 DEF Ends, TypeOK
  <2> QED
    BY <1>2, <2>1, <2>3 DEF Ends, Moves, OneHandle
<1>3. ASSUME NEW s \in Session, Works(s)
      PROVE  OneHandle'
  <2> SUFFICES ASSUME NEW t \in Session, pg'[t] = "inprogress",
                      NEW w \in wrote', w[1] = Cur(t)
               PROVE  w[2] = txn[t] \/ (w[1] \in split /\ skv[w[2]] = "committed")
    BY <1>3 DEF Works, OneHandle, Cur
  <2>1. pg[t] = "inprogress"
    BY <1>3 DEF Works, Machine
  <2>2. CASE \E v \in wrote : v[1] = w[1] /\ v[2] = w[2]
    BY <2>1, <2>2 DEF OneHandle
  <2>3. CASE w[1] = Cur(s) /\ w[2] = txn[s]
    <3>1. Cur(s)[1] = s /\ Cur(t)[1] = t
      BY CurType
    <3> QED
      BY <2>3, <3>1
  <2> QED
    BY <1>3, <2>2, <2>3 DEF Works
<1>4. ASSUME NEW s \in Session, Inits(s)
      PROVE  OneHandle'
  <2> SUFFICES ASSUME NEW t \in Session, pg'[t] = "inprogress",
                      NEW w \in wrote', w[1] = Cur(t)
               PROVE  w[2] = txn'[t] \/ (w[1] \in split /\ skv'[w[2]] = "committed")
    BY <1>4 DEF Inits, OneHandle, Cur
  <2>1. t # s /\ pg[t] = "inprogress" /\ txn'[t] = txn[t]
    BY <1>4 DEF Inits, Moves
  <2>2. Cur(s) # Cur(t)
    BY <2>1, CurType
  <2>3. w \in wrote /\ w[2] \in Txn
    BY <1>4, <2>2 DEF Inits, TypeOK
  <2> QED
    BY <1>4, <2>1, <2>3 DEF Inits, Moves, OneHandle
<1>5. ASSUME NEW s \in Session, CreateFails(s)
      PROVE  OneHandle'
  <2> SUFFICES ASSUME NEW t \in Session, pg'[t] = "inprogress",
                      NEW w \in wrote', w[1] = Cur(t)
               PROVE  w[2] = txn'[t] \/ (w[1] \in split /\ skv'[w[2]] = "committed")
    BY <1>5 DEF CreateFails, OneHandle, Cur
  <2>1. t # s /\ pg[t] = "inprogress" /\ txn'[t] = txn[t]
    BY <1>5 DEF CreateFails, Moves, Machine
  <2>2. Cur(s) # Cur(t)
    BY <2>1, CurType
  <2>3. w \in wrote /\ w[2] \in Txn
    BY <1>5, <2>2 DEF CreateFails, TypeOK
  <2> QED
    BY <1>5, <2>1, <2>3 DEF CreateFails, Moves, OneHandle
<1>6. ASSUME NEW s \in Session, CreateSplits(s)
      PROVE  OneHandle'
  <2> SUFFICES ASSUME NEW t \in Session, pg'[t] = "inprogress",
                      NEW w \in wrote', w[1] = Cur(t)
               PROVE  w[2] = txn'[t] \/ (w[1] \in split' /\ skv'[w[2]] = "committed")
    BY <1>6 DEF CreateSplits, OneHandle, Cur
  <2>1. \A x \in Txn : skv[x] = "committed" => skv'[x] = "committed"
    BY <1>6 DEF CreateSplits, Moves
  <2>2. CASE t = s
    <3>1. CASE w \in wrote
      <4>1. w[2] = txn[s] \/ skv[w[2]] = "committed"
        BY <1>6, <2>2, <3>1 DEF OneHandle, CreateSplits
      <4>2. w[2] \in Txn
        BY <3>1 DEF TypeOK
      <4> QED
        BY <1>6, <2>1, <2>2, <4>1, <4>2 DEF CreateSplits
    <3>2. CASE w \notin wrote
      BY <1>6, <2>2, <3>2 DEF CreateSplits
    <3> QED
      BY <3>1, <3>2
  <2>3. CASE t # s
    <3>1. pg[t] = "inprogress" /\ txn'[t] = txn[t]
      BY <1>6, <2>3 DEF CreateSplits, Moves, Machine
    <3>2. Cur(s) # Cur(t)
      BY <2>3, CurType
    <3>3. w \in wrote /\ w[2] \in Txn
      BY <1>6, <3>2 DEF CreateSplits, TypeOK
    <3> QED
      BY <1>6, <2>1, <3>1, <3>3 DEF CreateSplits, OneHandle
  <2> QED
    BY <2>2, <2>3
<1>7. ASSUME Dies
      PROVE  OneHandle'
  BY <1>7 DEF Dies, Die, OneHandle
<1>8. ASSUME NEW x \in Txn, SkvAborts(x)
      PROVE  OneHandle'
  BY <1>8 DEF SkvAborts, OneHandle, Cur, TypeOK
<1>9. ASSUME NEW x \in Txn, SkvLateCommit(x)
      PROVE  OneHandle'
  BY <1>9 DEF SkvLateCommit, OneHandle, Cur, TypeOK
<1>10. ASSUME Restart
      PROVE  OneHandle'
  BY <1>10 DEF Restart, OneHandle
<1> QED
  BY <1>1, <1>2, <1>3, <1>4, <1>5, <1>6, <1>7, <1>8, <1>9, <1>10, Kinds
(* Who wrote through the transaction that a running session holds *)
LEMMA Owner ==
  ASSUME TypeOK, Running, OwnSnapshot, NEW s \in Session, pg[s] = "inprogress",
         NEW w \in wrote, w[2] = txn[s]
  PROVE  w[1] = Cur(s)
BY DEF Running, OwnSnapshot

(* Only the session that holds a transaction commits it *)
LEMMA UnsettledStep ==
  ASSUME TypeOK, Stack, Running, Handles, Begun,
         OneHandle, OwnSnapshot, Unsettled, Next
  PROVE  Unsettled'
<1>1. ASSUME NEW s \in Session, Starts(s)
      PROVE  Unsettled'
  <2> SUFFICES ASSUME NEW w \in wrote', w[1] \notin split',
                      verdict'[w[1]] \in {"open", "rolledback"}
               PROVE  skv'[w[2]] # "committed" /\ w[2] \notin late'
    BY DEF Unsettled
  <2>1. w \in wrote /\ w[1] \in PgTxn /\ w[2] \in Txn
    BY <1>1 DEF Starts, TypeOK
  <2>2. w[1] \notin split /\ verdict[w[1]] \in {"open", "rolledback"}
    BY <1>1, <2>1 DEF Starts
  <2> QED
    BY <1>1, <2>1, <2>2 DEF Starts, NoCommit, Unsettled
<1>2. ASSUME NEW s \in Session, Ends(s)
      PROVE  Unsettled'
  <2> SUFFICES ASSUME NEW w \in wrote', w[1] \notin split',
                      verdict'[w[1]] \in {"open", "rolledback"}
               PROVE  skv'[w[2]] # "committed" /\ w[2] \notin late'
    BY DEF Unsettled
  <2>1. w \in wrote /\ w[1] \in PgTxn /\ w[2] \in Txn /\ w[1] \notin split
    BY <1>2 DEF Ends, TypeOK
  <2>2. verdict[w[1]] \in {"open", "rolledback"}
    BY <1>2, <2>1 DEF Ends
  <2>3. skv[w[2]] # "committed" /\ w[2] \notin late
    BY <2>1, <2>2 DEF Unsettled
  <2>4. CASE NoCommit
    BY <2>1, <2>3, <2>4 DEF NoCommit
  <2>5. CASE pg[s] = "inprogress" /\ verdict'[Cur(s)] \in {"failed", "committed"}
    <3>1. w[2] # txn[s]
      BY <2>1, <2>5, Owner
    <3> QED
      BY <1>2, <2>1, <2>3, <3>1 DEF Ends, Moves
  <2> QED
    BY <1>2, <2>4, <2>5 DEF Ends
<1>3. ASSUME NEW s \in Session, Works(s)
      PROVE  Unsettled'
  <2> SUFFICES ASSUME NEW w \in wrote', w[1] \notin split',
                      verdict'[w[1]] \in {"open", "rolledback"}
               PROVE  skv'[w[2]] # "committed" /\ w[2] \notin late'
    BY DEF Unsettled
  <2>1. CASE \E v \in wrote : v[1] = w[1] /\ v[2] = w[2]
    BY <1>3, <2>1 DEF Works, Unsettled
  <2>2. CASE w[2] = txn[s]
    BY <1>3, <2>2 DEF Works, Running, Handles
  <2> QED
    BY <1>3, <2>1, <2>2 DEF Works
<1>4. ASSUME NEW s \in Session, Inits(s)
      PROVE  Unsettled'
  <2> SUFFICES ASSUME NEW w \in wrote', w[1] \notin split',
                      verdict'[w[1]] \in {"open", "rolledback"}
               PROVE  skv'[w[2]] # "committed" /\ w[2] \notin late'
    BY DEF Unsettled
  <2>1. w \in wrote /\ w[1] \in PgTxn /\ w[2] \in Txn
    BY <1>4 DEF Inits, TypeOK
  <2>2. w[1] \notin split /\ verdict[w[1]] \in {"open", "rolledback"}
    BY <1>4, <2>1 DEF Inits
  <2> QED
    BY <1>4, <2>1, <2>2 DEF Inits, NoCommit, Unsettled
<1>5. ASSUME NEW s \in Session, CreateFails(s)
      PROVE  Unsettled'
  <2> SUFFICES ASSUME NEW w \in wrote', w[1] \notin split',
                      verdict'[w[1]] \in {"open", "rolledback"}
               PROVE  skv'[w[2]] # "committed" /\ w[2] \notin late'
    BY DEF Unsettled
  <2>1. w[1] # Cur(s)
    BY <1>5, CurType DEF CreateFails, TypeOK
  <2>2. w \in wrote /\ w[1] \in PgTxn /\ w[2] \in Txn
    BY <1>5, <2>1 DEF CreateFails, TypeOK
  <2>3. w[1] \notin split /\ verdict[w[1]] \in {"open", "rolledback"}
    BY <1>5, <2>1, <2>2 DEF CreateFails, TypeOK
  <2>4. skv[w[2]] # "committed" /\ w[2] \notin late
    BY <2>2, <2>3 DEF Unsettled
  <2>5. w[2] # txn[s]
    BY <1>5, <2>1, <2>2, Owner DEF CreateFails
  <2> QED
    BY <1>5, <2>2, <2>4, <2>5 DEF CreateFails, Moves
<1>6. ASSUME NEW s \in Session, CreateSplits(s)
      PROVE  Unsettled'
  <2> SUFFICES ASSUME NEW w \in wrote', w[1] \notin split',
                      verdict'[w[1]] \in {"open", "rolledback"}
               PROVE  skv'[w[2]] # "committed" /\ w[2] \notin late'
    BY DEF Unsettled
  <2>1. w[1] # Cur(s)
    BY <1>6 DEF CreateSplits
  <2>2. w \in wrote /\ w[1] \in PgTxn /\ w[2] \in Txn
    BY <1>6, <2>1 DEF CreateSplits, TypeOK
  <2>3. w[1] \notin split /\ verdict[w[1]] \in {"open", "rolledback"}
    BY <1>6 DEF CreateSplits
  <2>4. skv[w[2]] # "committed" /\ w[2] \notin late
    BY <2>2, <2>3 DEF Unsettled
  <2>5. w[2] # txn[s]
    BY <1>6, <2>1, <2>2, Owner DEF CreateSplits
  <2> QED
    BY <1>6, <2>2, <2>4, <2>5 DEF CreateSplits, Moves
<1>7. ASSUME Dies
      PROVE  Unsettled'
  <2> SUFFICES ASSUME NEW w \in wrote', w[1] \notin split',
                      verdict'[w[1]] \in {"open", "rolledback"}
               PROVE  skv'[w[2]] # "committed" /\ w[2] \notin late'
    BY DEF Unsettled
  <2>1. w \in wrote /\ w[1] \in PgTxn /\ w[2] \in Txn
    BY <1>7 DEF Dies, TypeOK
  <2>2. w[1] \notin split /\ verdict[w[1]] \in {"open", "rolledback"}
    BY <1>7, <2>1 DEF Dies, Die
  <2> QED
    BY <1>7, <2>1, <2>2 DEF Dies, NoCommit, Unsettled
<1>8. ASSUME NEW x \in Txn, SkvAborts(x)
      PROVE  Unsettled'
  BY <1>8 DEF SkvAborts, Unsettled, TypeOK
<1>9. ASSUME NEW x \in Txn, SkvLateCommit(x)
      PROVE  Unsettled'
  BY <1>9 DEF SkvLateCommit, Unsettled, TypeOK
<1>10. ASSUME Restart
      PROVE  Unsettled'
  BY <1>10 DEF Restart, Unsettled
<1> QED
  BY <1>1, <1>2, <1>3, <1>4, <1>5, <1>6, <1>7, <1>8, <1>9, <1>10, Kinds

LEMMA OwnSnapshotStep ==
  ASSUME TypeOK, Stack, Running, Handles, Begun, OwnSnapshot, Next
  PROVE  OwnSnapshot'
<1>1. ASSUME NEW s \in Session, Starts(s)
      PROVE  OwnSnapshot'
  <2>1. \A w \in wrote' : w \in wrote /\ w[2] \in Txn
    BY <1>1 DEF Starts, TypeOK
  <2> QED
    BY <1>1, <2>1 DEF Starts, Begun, OpenedBy, OwnSnapshot
<1>2. ASSUME NEW s \in Session, Ends(s)
      PROVE  OwnSnapshot'
  <2>1. \A w \in wrote' : w \in wrote /\ w[2] \in Txn
    BY <1>2 DEF Ends, TypeOK
  <2> QED
    BY <1>2, <2>1 DEF Ends, Begun, OpenedBy, OwnSnapshot
<1>3. ASSUME NEW s \in Session, Works(s)
      PROVE  OwnSnapshot'
  <2> SUFFICES ASSUME NEW w \in wrote'
               PROVE  opened[w[2]] = w[1]
    BY <1>3 DEF Works, OwnSnapshot
  <2>1. CASE \E v \in wrote : v[1] = w[1] /\ v[2] = w[2]
    BY <2>1 DEF OwnSnapshot
  <2>2. CASE w[1] = Cur(s) /\ w[2] = txn[s]
    BY <1>3, <2>2 DEF Works, Running
  <2> QED
    BY <1>3, <2>1, <2>2 DEF Works
<1>4. ASSUME NEW s \in Session, Inits(s)
      PROVE  OwnSnapshot'
  <2>1. \A w \in wrote' : w \in wrote /\ w[2] \in Txn
    BY <1>4 DEF Inits, TypeOK
  <2> QED
    BY <1>4, <2>1 DEF Inits, Begun, OpenedBy, OwnSnapshot
<1>5. ASSUME NEW s \in Session, CreateFails(s)
      PROVE  OwnSnapshot'
  <2> SUFFICES ASSUME NEW w \in wrote'
               PROVE  opened'[w[2]] = w[1]
    BY DEF OwnSnapshot
  <2>1. CASE w \in wrote
    <3>1. w[2] \in Txn
      BY <2>1 DEF TypeOK
    <3> QED
      BY <1>5, <2>1, <3>1 DEF CreateFails, Begun, OpenedBy, OwnSnapshot
  <2>2. CASE w = <<Cur(s), txn[s], "top">>
    BY <1>5, <2>2 DEF CreateFails, OpenedBy, Running
  <2> QED
    BY <1>5, <2>1, <2>2 DEF CreateFails
<1>6. ASSUME NEW s \in Session, CreateSplits(s)
      PROVE  OwnSnapshot'
  <2> SUFFICES ASSUME NEW w \in wrote'
               PROVE  opened'[w[2]] = w[1]
    BY DEF OwnSnapshot
  <2>1. CASE w \in wrote
    <3>1. w[2] \in Txn
      BY <2>1 DEF TypeOK
    <3> QED
      BY <1>6, <2>1, <3>1 DEF CreateSplits, Begun, OpenedBy, OwnSnapshot
  <2>2. CASE w = <<Cur(s), txn[s], "top">>
    BY <1>6, <2>2 DEF CreateSplits, OpenedBy, Running
  <2>3. CASE /\ w = <<Cur(s), txn'[s], "top">> /\ txn'[s] \in Txn
             /\ skv[txn'[s]] = "none" /\ skv'[txn'[s]] = "active"
    BY <1>6, <2>3 DEF CreateSplits, OpenedBy
  <2> QED
    BY <1>6, <2>1, <2>2, <2>3 DEF CreateSplits
<1>7. ASSUME Dies
      PROVE  OwnSnapshot'
  BY <1>7 DEF Dies, OwnSnapshot
<1>8. ASSUME NEW x \in Txn, SkvAborts(x)
      PROVE  OwnSnapshot'
  BY <1>8 DEF SkvAborts, OwnSnapshot
<1>9. ASSUME NEW x \in Txn, SkvLateCommit(x)
      PROVE  OwnSnapshot'
  BY <1>9 DEF SkvLateCommit, OwnSnapshot
<1>10. ASSUME Restart
      PROVE  OwnSnapshot'
  BY <1>10 DEF Restart, OwnSnapshot
<1> QED
  BY <1>1, <1>2, <1>3, <1>4, <1>5, <1>6, <1>7, <1>8, <1>9, <1>10, Kinds

LEMMA AtomicUnitStep ==
  ASSUME TypeOK, Stack, Running, OneHandle, AtomicUnit, Next
  PROVE  AtomicUnit'
<1>1. ASSUME NEW s \in Session, Starts(s)
      PROVE  AtomicUnit'
  BY <1>1 DEF Starts, AtomicUnit
<1>2. ASSUME NEW s \in Session, Ends(s)
      PROVE  AtomicUnit'
  BY <1>2 DEF Ends, AtomicUnit
<1>3. ASSUME NEW s \in Session, Works(s)
      PROVE  AtomicUnit'
  <2> SUFFICES ASSUME NEW v \in wrote', NEW w \in wrote',
                      v[1] = w[1], v[1] \notin split
               PROVE  v[2] = w[2]
    BY <1>3 DEF Works, AtomicUnit
  <2>1. ASSUME NEW u \in wrote'
        PROVE  \/ \E o \in wrote : o[1] = u[1] /\ o[2] = u[2]
               \/ u[1] = Cur(s) /\ u[2] = txn[s]
    BY <1>3 DEF Works
  <2>2. ASSUME NEW o \in wrote, o[1] = Cur(s), o[1] \notin split
        PROVE  o[2] = txn[s]
    BY <1>3, <2>2 DEF Works, OneHandle
  <2> QED
    BY <2>1, <2>2 DEF AtomicUnit
<1>4. ASSUME NEW s \in Session, Inits(s)
      PROVE  AtomicUnit'
  BY <1>4 DEF Inits, AtomicUnit
<1>5. ASSUME NEW s \in Session, CreateFails(s)
      PROVE  AtomicUnit'
  <2>1. \A o \in wrote : o[1] = Cur(s) /\ o[1] \notin split => o[2] = txn[s]
    BY <1>5 DEF CreateFails, OneHandle
  <2> QED
    BY <1>5, <2>1 DEF CreateFails, AtomicUnit
<1>6. ASSUME NEW s \in Session, CreateSplits(s)
      PROVE  AtomicUnit'
  BY <1>6 DEF CreateSplits, AtomicUnit
<1>7. ASSUME Dies
      PROVE  AtomicUnit'
  BY <1>7 DEF Dies, AtomicUnit
<1>8. ASSUME NEW x \in Txn, SkvAborts(x)
      PROVE  AtomicUnit'
  BY <1>8 DEF SkvAborts, AtomicUnit
<1>9. ASSUME NEW x \in Txn, SkvLateCommit(x)
      PROVE  AtomicUnit'
  BY <1>9 DEF SkvLateCommit, AtomicUnit
<1>10. ASSUME Restart
      PROVE  AtomicUnit'
  BY <1>10 DEF Restart, AtomicUnit
<1> QED
  BY <1>1, <1>2, <1>3, <1>4, <1>5, <1>6, <1>7, <1>8, <1>9, <1>10, Kinds

(* Nobody writes for a PostgreSQL transaction that has ended *)
LEMMA AckedStep ==
  ASSUME TypeOK, Stack, Running, OneHandle, AckedCommitDurable, Next
  PROVE  AckedCommitDurable'
<1>1. ASSUME NEW s \in Session, Starts(s)
      PROVE  AckedCommitDurable'
  <2> SUFFICES ASSUME NEW w \in wrote', verdict'[w[1]] = "committed"
               PROVE  skv'[w[2]] = "committed"
    BY DEF AckedCommitDurable
  <2>1. w \in wrote /\ w[1] \in PgTxn /\ w[2] \in Txn
    BY <1>1 DEF Starts, TypeOK
  <2>2. verdict[w[1]] = "committed"
    BY <1>1, <2>1 DEF Starts
  <2> QED
    BY <1>1, <2>1, <2>2 DEF Starts, Moves, AckedCommitDurable
<1>2. ASSUME NEW s \in Session, Ends(s)
      PROVE  AckedCommitDurable'
  <2> SUFFICES ASSUME NEW w \in wrote', verdict'[w[1]] = "committed"
               PROVE  skv'[w[2]] = "committed"
    BY DEF AckedCommitDurable
  <2>1. w \in wrote /\ w[1] \in PgTxn /\ w[2] \in Txn
    BY <1>2 DEF Ends, TypeOK
  <2>2. CASE verdict[w[1]] = "committed"
    BY <1>2, <2>1, <2>2 DEF Ends, Moves, AckedCommitDurable
  <2>3. CASE verdict[w[1]] # "committed"
    <3>1. /\ w[1] = Cur(s) /\ pg[s] = "inprogress"
          /\ txn[s] \in Txn /\ skv'[txn[s]] = "committed"
      BY <1>2, <2>1, <2>3 DEF Ends
    <3>2. w[2] = txn[s] \/ skv[w[2]] = "committed"
      BY <2>1, <3>1 DEF OneHandle
    <3> QED
      BY <1>2, <2>1, <3>1, <3>2 DEF Ends, Moves
  <2> QED
    BY <2>2, <2>3
<1>3. ASSUME NEW s \in Session, Works(s)
      PROVE  AckedCommitDurable'
  <2> SUFFICES ASSUME NEW w \in wrote', verdict[w[1]] = "committed"
               PROVE  skv[w[2]] = "committed"
    BY <1>3 DEF Works, AckedCommitDurable
  <2>1. w[1] # Cur(s)
    BY <1>3 DEF Works, Running
  <2> QED
    BY <1>3, <2>1 DEF Works, AckedCommitDurable
<1>4. ASSUME NEW s \in Session, Inits(s)
      PROVE  AckedCommitDurable'
  <2> SUFFICES ASSUME NEW w \in wrote', verdict'[w[1]] = "committed"
               PROVE  skv'[w[2]] = "committed"
    BY DEF AckedCommitDurable
  <2>1. w \in wrote /\ w[1] \in PgTxn /\ w[2] \in Txn
    BY <1>4 DEF Inits, TypeOK
  <2>2. verdict[w[1]] = "committed"
    BY <1>4, <2>1 DEF Inits
  <2> QED
    BY <1>4, <2>1, <2>2 DEF Inits, Moves, AckedCommitDurable
<1>5. ASSUME NEW s \in Session, CreateFails(s)
      PROVE  AckedCommitDurable'
  <2> SUFFICES ASSUME NEW w \in wrote', verdict'[w[1]] = "committed"
               PROVE  skv'[w[2]] = "committed"
    BY DEF AckedCommitDurable
  <2>1. w[1] # Cur(s)
    BY <1>5, CurType DEF CreateFails, Running, TypeOK
  <2>2. w \in wrote /\ w[1] \in PgTxn /\ w[2] \in Txn
    BY <1>5, <2>1 DEF CreateFails, TypeOK
  <2>3. verdict[w[1]] = "committed"
    BY <1>5, <2>1, <2>2 DEF CreateFails, TypeOK
  <2> QED
    BY <1>5, <2>2, <2>3 DEF CreateFails, Moves, AckedCommitDurable
<1>6. ASSUME NEW s \in Session, CreateSplits(s)
      PROVE  AckedCommitDurable'
  <2> SUFFICES ASSUME NEW w \in wrote', verdict'[w[1]] = "committed"
               PROVE  skv'[w[2]] = "committed"
    BY DEF AckedCommitDurable
  <2>1. w[1] # Cur(s)
    BY <1>6, CurType DEF CreateSplits, Running, TypeOK
  <2>2. w \in wrote /\ w[1] \in PgTxn /\ w[2] \in Txn
    BY <1>6, <2>1 DEF CreateSplits, TypeOK
  <2>3. verdict[w[1]] = "committed"
    BY <1>6, <2>1, <2>2 DEF CreateSplits, TypeOK
  <2> QED
    BY <1>6, <2>2, <2>3 DEF CreateSplits, Moves, AckedCommitDurable
<1>7. ASSUME Dies
      PROVE  AckedCommitDurable'
  <2> SUFFICES ASSUME NEW w \in wrote', verdict'[w[1]] = "committed"
               PROVE  skv'[w[2]] = "committed"
    BY DEF AckedCommitDurable
  <2>1. w \in wrote /\ w[1] \in PgTxn /\ w[2] \in Txn
    BY <1>7 DEF Dies, TypeOK
  <2>2. verdict[w[1]] = "committed"
    BY <1>7, <2>1 DEF Dies, Die
  <2> QED
    BY <1>7, <2>1, <2>2 DEF Dies, Moves, AckedCommitDurable
<1>8. ASSUME NEW x \in Txn, SkvAborts(x)
      PROVE  AckedCommitDurable'
  BY <1>8 DEF SkvAborts, AckedCommitDurable, TypeOK
<1>9. ASSUME NEW x \in Txn, SkvLateCommit(x)
      PROVE  AckedCommitDurable'
  BY <1>9 DEF SkvLateCommit, AckedCommitDurable, TypeOK
<1>10. ASSUME Restart
      PROVE  AckedCommitDurable'
  BY <1>10 DEF Restart, AckedCommitDurable
<1> QED
  BY <1>1, <1>2, <1>3, <1>4, <1>5, <1>6, <1>7, <1>8, <1>9, <1>10, Kinds
-----------------------------------------------------------------------------
LEMMA InitIInv == Init => IInv
<1> SUFFICES ASSUME Init PROVE IInv
  OBVIOUS
<1>1. TypeOK
  BY TxnAssumption DEF Init, TypeOK, SkvState, PgState, PgTxn, Verdict
<1>2. Handles /\ Begun /\ Stack /\ Running /\ OneHandle
  BY DEF Init, Handles, Begun, Stack, Running, OneHandle
<1>3. Unborn /\ Unsettled /\ OwnSnapshot /\ AtomicUnit /\ AckedCommitDurable
  BY DEF Init, Unborn, Unsettled, OwnSnapshot, AtomicUnit, AckedCommitDurable
<1> QED
  BY <1>1, <1>2, <1>3 DEF IInv

LEMMA StepIInv == IInv /\ [Next]_vars => IInv'
<1> SUFFICES ASSUME IInv, [Next]_vars PROVE IInv'
  OBVIOUS
<1> USE DEF IInv
<1>1. CASE Next
  <2>1. TypeOK' /\ Handles' /\ Begun' /\ Stack'
    BY <1>1, TypeStep, HandlesStep, BegunStep, StackStep
  <2>2. Unborn' /\ Running' /\ OneHandle'
    BY <1>1, UnbornStep, RunningStep, OneHandleStep
  <2>3. Unsettled' /\ OwnSnapshot' /\ AtomicUnit' /\ AckedCommitDurable'
    BY <1>1, UnsettledStep, OwnSnapshotStep, AtomicUnitStep, AckedStep
  <2> QED
    BY <2>1, <2>2, <2>3
<1>2. CASE UNCHANGED vars
  BY <1>2 DEF vars, TypeOK, Handles, Begun, Stack, Unborn, Running, OneHandle,
              Cur, Unsettled, OwnSnapshot, AtomicUnit, AckedCommitDurable
<1> QED
  BY <1>1, <1>2

LEMMA Inductive == Spec => []IInv
BY InitIInv, StepIInv, PTL DEF Spec

(* Every variable of the transaction manager keeps its type; in particular *)
(* the error stack of errstart never grows past ERRORDATA_STACK_SIZE.      *)
THEOREM TxnTypes == Spec => []TypeOK
<1>1. IInv => TypeOK
  BY DEF IInv
<1> QED
  BY <1>1, Inductive, PTL

(* Commit acknowledged means durable, whatever replies K2XactCallback      *)
(* loses: the writes of a PostgreSQL transaction that was told "committed" *)
(* are all in committed SKV transactions.                                  *)
THEOREM CommittedIsDurable == Spec => []AckedCommitDurable
<1>1. IInv => AckedCommitDurable
  BY DEF IInv
<1> QED
  BY <1>1, Inductive, PTL

(* A PostgreSQL transaction that rolled back without having tried to       *)
(* commit left nothing in the store, unless CREATE DATABASE split it: no   *)
(* lost, refused or late request of endTxn can commit what it wrote.       *)
THEOREM RollbackIsClean == Spec => []RolledBackLeavesNothing
<1>1. IInv => RolledBackLeavesNothing
  BY DEF IInv, Unsettled, RolledBackLeavesNothing
<1> QED
  BY <1>1, Inductive, PTL

(* No PostgreSQL transaction writes through an SKV transaction begun       *)
(* outside it: XACT_EVENT_START ends what the thread still held.           *)
THEOREM WritesInOwnSnapshot == Spec => []OwnSnapshot
<1>1. IInv => OwnSnapshot
  BY DEF IInv
<1> QED
  BY <1>1, Inductive, PTL

(* A PostgreSQL transaction is one SKV transaction: beginTxn never opens a *)
(* second one under it, whichever operations fail and are caught.          *)
THEOREM OneUnit == Spec => []AtomicUnit
<1>1. IInv => AtomicUnit
  BY DEF IInv
<1> QED
  BY <1>1, Inductive, PTL

(* No two threads hold the same SKV transaction, and none holds one that   *)
(* is committed: endTxn drops the handle whatever SKV answers.             *)
THEOREM HandlesLive == Spec => []HandleLive
<1>1. IInv => HandleLive
  BY DEF IInv, Handles, HandleLive
<1> QED
  BY <1>1, Inductive, PTL
=============================================================================
