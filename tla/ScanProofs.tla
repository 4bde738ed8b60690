---------------------------- MODULE ScanProofs ----------------------------
(***************************************************************************)
(* Proofs about the two halves of a scan.                                  *)
(*                                                                         *)
(* ScanFetch: for a query of any number of rows and any limit on parallel  *)
(* reads, PgGate_DmlFetch implements OrderedScan.  At any moment the rows  *)
(* the store has sent are cut into three runs of consecutive rows: those   *)
(* handed out, those being read from the base table, and those waiting in  *)
(* queryRecords.                                                           *)
(*                                                                         *)
(* RangeScan: for keys of any number of columns with any                   *)
(* values, the key range of an orderly query loses no row, and range and   *)
(* filters together are exact.  The keys built so far are a common prefix  *)
(* of EQ values, then one bound each at most, on the column after it.      *)
(***************************************************************************)
EXTENDS ScanFetch, RangeScan, TLAPS

(* rows from+1 .. from+n *)
Run(from, n) == [i \in 1..n |-> from + i]

Cut ==
  /\ out = Run(0, Len(out))
  /\ readReqs = Run(Len(out), Len(readReqs))
  /\ queryRecords = Run(Len(out) + Len(readReqs), Len(queryRecords))
  /\ Len(out) \in Nat /\ Len(readReqs) \in Nat /\ Len(queryRecords) \in Nat
  /\ sent = Len(out) + Len(readReqs) + Len(queryRecords)

(* only a secondary index scan reads the base table, MaxParallel rows at a *)
(* time; while rows remain a page is under way                             *)
Flow ==
  /\ Len(readReqs) <= MaxParallel
  /\ ~secondary => Len(readReqs) = 0
  /\ phase = "scanning" /\ ~queryInFlight => sent = Rows

Flags ==
  /\ secondary \in BOOLEAN
  /\ queryInFlight \in BOOLEAN
  /\ phase \in {"scanning", "eof", "error"}
  /\ sent \in 0..Rows
  /\ hole \in BOOLEAN

IInv == Flags /\ Cut /\ Flow

-----------------------------------------------------------------------------
LEMMA RunLen ==
  ASSUME NEW f \in Nat, NEW n \in Nat
  PROVE  /\ Run(f, n) \in Seq(Nat)
         /\ Len(Run(f, n)) = n
         /\ (Run(f, n) = <<>>) <=> (n = 0)
         /\ \A i \in 1..n : Run(f, n)[i] = f + i
<1>1. Run(f, n) \in [1..n -> Nat]
  BY DEF Run
<1>2. Run(f, n) \in Seq(Nat) /\ Len(Run(f, n)) = n
  BY <1>1
<1>3. (Run(f, n) = <<>>) <=> (n = 0)
  BY <1>2
<1> QED
  BY <1>2, <1>3 DEF Run

LEMMA RunSub ==
  ASSUME NEW f \in Nat, NEW n \in Nat, NEW k \in 0..n
  PROVE  /\ SubSeq(Run(f, n), 1, k) = Run(f, k)
         /\ SubSeq(Run(f, n), k + 1, n) = Run(f + k, n - k)
<1>1. SubSeq(Run(f, n), 1, k) = Run(f, k)
  BY RunLen DEF Run
<1>2. SubSeq(Run(f, n), k + 1, n) = Run(f + k, n - k)
  BY RunLen DEF Run
<1> QED
  BY <1>1, <1>2

LEMMA RunConcat ==
  ASSUME NEW f \in Nat, NEW n \in Nat, NEW k \in Nat
  PROVE  Run(f, n) \o Run(f + n, k) = Run(f, n + k)
BY RunLen DEF Run

LEMMA RunHead ==
  ASSUME NEW f \in Nat, NEW n \in Nat, n # 0
  PROVE  /\ Head(Run(f, n)) = f + 1
         /\ Tail(Run(f, n)) = Run(f + 1, n - 1)
<1>1. Head(Run(f, n)) = f + 1
  BY RunLen DEF Run
<1>2. Tail(Run(f, n)) = Run(f + 1, n - 1)
  BY RunLen DEF Run
<1> QED
  BY <1>1, <1>2

LEMMA RunAppend ==
  ASSUME NEW n \in Nat
  PROVE  Append(Run(0, n), n + 1) = Run(0, n + 1)
BY RunLen DEF Run

-----------------------------------------------------------------------------
(* What the first stage of PgGate_DmlFetch leaves in the handle: the next  *)
(* rows, and a page under way unless it was the last.  It is left empty    *)
(* after the last row, or by an empty page.                                *)
LEMMA WaitFacts ==
  ASSUME IInv, phase = "scanning", NEW h \in AfterWait
  PROVE  /\ Len(h.recs) \in Nat
         /\ h.recs = Run(Len(out) + Len(readReqs), Len(h.recs))
         /\ h.sent = Len(out) + Len(readReqs) + Len(h.recs)
         /\ h.sent \in sent..Rows
         /\ h.fly \in BOOLEAN
         /\ ~h.fly => h.sent = Rows
         /\ Len(h.recs) = 0 => h.sent = sent /\ (h.sent = Rows \/ MustWait)
         /\ MustWait /\ h.recs = <<>> => h.sent = sent
<1> DEFINE b == Len(out) + Len(readReqs)
<1>0. b \in Nat /\ Rows \in Nat /\ sent \in 0..Rows
  BY ScanAssumption DEF IInv, Flags, Cut
<1>1. CASE MustWait
  <2>1. PICK p \in Pages :
          h = Scan([i \in 1..(p.upto - sent) |-> sent + i], p.upto, ~p.done)
    BY <1>1 DEF AfterWait
  <2>2. sent = b
    BY <1>1 DEF MustWait, IInv, Cut
  <2>3. /\ p.upto \in sent..Rows /\ p.done \in BOOLEAN
        /\ p.done => p.upto = Rows
    BY DEF Pages
  <2> DEFINE m == p.upto - sent
  <2> HIDE DEF b
  <2>4. m \in Nat /\ b + m = p.upto /\ p.upto \in sent..Rows
    BY <1>0, <2>2, <2>3
  <2>5. h.recs = Run(b, m) /\ h.sent = p.upto /\ h.fly = ~p.done
    BY <2>1, <2>2 DEF Scan, Run
  <2> HIDE DEF m
  <2>6. Len(h.recs) = m
    BY <1>0, <2>4, <2>5, RunLen
  <2>7. m = 0 => p.upto = sent
    BY <1>0, <2>2, <2>4
  <2>8. h.recs = <<>> => m = 0
    BY <2>6
  <2> QED
    BY <1>1, <2>3, <2>4, <2>5, <2>6, <2>7, <2>8 DEF b
<1>2. CASE ~MustWait
  <2>1. h.recs = queryRecords /\ h.sent = sent /\ h.fly = queryInFlight
    BY <1>2 DEF AfterWait, Scan
  <2> QED
    BY <1>0, <1>2, <2>1 DEF MustWait, IInv, Flags, Cut, Flow
<1> QED
  BY <1>1, <1>2

(* A fetch hands out the next row, or finds none among those sent *)
LEMMA FetchStep ==
  ASSUME IInv, Fetch
  PROVE  /\ IInv'
         /\ Ordered!Page
         /\ \/ /\ out' = Append(out, Len(out) + 1)
               /\ Len(out) < sent'
               /\ UNCHANGED phase
            \/ /\ UNCHANGED out
               /\ phase' = "eof"
               /\ Len(out) = sent'
               /\ sent' = Rows \/ hole'
<1>0. /\ phase = "scanning"
      /\ secondary' = secondary
  BY DEF Fetch
<1>1. PICK h \in AfterWait :
        LET k == IF secondary THEN ToIssue(h.recs) ELSE 0
            reads == readReqs \o SubSeq(h.recs, 1, k)
            recs == SubSeq(h.recs, k + 1, Len(h.recs))
        IN
        /\ sent' = h.sent
        /\ queryInFlight' = h.fly
        /\ hole' = (MustWait /\ h.recs = <<>> /\ h.sent < Rows)
        /\ \/ /\ reads = <<>> /\ recs = <<>>
              /\ phase' = "eof"
              /\ readReqs' = reads
              /\ queryRecords' = recs
              /\ UNCHANGED out
           \/ /\ secondary /\ reads # <<>>
              /\ out' = Append(out, NextRead(reads))
              /\ readReqs' = Tail(reads)
              /\ queryRecords' = recs
              /\ UNCHANGED phase
           \/ /\ ~secondary /\ recs # <<>>
              /\ out' = Append(out, Head(recs))
              /\ queryRecords' = Tail(recs)
              /\ readReqs' = reads
              /\ UNCHANGED phase
  BY DEF Fetch
<1> DEFINE o == Len(out)
           r == Len(readReqs)
           m == Len(h.recs)
           k == IF secondary THEN ToIssue(h.recs) ELSE 0
           reads == readReqs \o SubSeq(h.recs, 1, k)
           recs == SubSeq(h.recs, k + 1, m)
<1>2. /\ o \in Nat /\ r \in Nat /\ m \in Nat
      /\ out = Run(0, o) /\ readReqs = Run(o, r) /\ h.recs = Run(o + r, m)
      /\ h.sent = o + r + m /\ h.sent \in sent..Rows /\ h.fly \in BOOLEAN
      /\ ~h.fly => h.sent = Rows
  BY <1>0, WaitFacts DEF IInv, Cut
<1>w. /\ m = 0 => h.sent = Rows \/ MustWait
      /\ MustWait /\ h.recs = <<>> => h.sent = sent
  BY <1>0, WaitFacts
<1>r. Rows \in Nat /\ sent \in 0..Rows /\ h.sent \in 0..Rows
  <2>1. Rows \in Nat /\ sent \in 0..Rows
    BY ScanAssumption, Zenon DEF IInv, Flags
  <2>2. h.sent \in sent..Rows
    BY <1>2, Zenon
  <2> HIDE DEF o, r, m
  <2> QED
    BY <2>1, <2>2
<1>3. /\ k \in 0..m /\ r + k <= MaxParallel
      /\ ~secondary => r = 0 /\ k = 0
      /\ secondary /\ r + k = 0 => m = 0
  BY <1>2, ScanAssumption DEF IInv, Flow, ToIssue, Least
<1>4. /\ sent' = h.sent
      /\ queryInFlight' = h.fly
      /\ hole' = (MustWait /\ h.recs = <<>> /\ h.sent < Rows)
      /\ \/ /\ reads = <<>> /\ recs = <<>>
            /\ phase' = "eof"
            /\ readReqs' = reads
            /\ queryRecords' = recs
            /\ UNCHANGED out
         \/ /\ secondary /\ reads # <<>>
            /\ out' = Append(out, NextRead(reads))
            /\ readReqs' = Tail(reads)
            /\ queryRecords' = recs
            /\ UNCHANGED phase
         \/ /\ ~secondary /\ recs # <<>>
            /\ out' = Append(out, Head(recs))
            /\ queryRecords' = Tail(recs)
            /\ readReqs' = reads
            /\ UNCHANGED phase
  BY <1>1
<1> HIDE DEF k, o, r, m
<1> DEFINE n == r + k
           q == m - k
<1>5. /\ n \in Nat /\ q \in Nat /\ n + q = r + m
      /\ ~secondary => r = 0 /\ n = 0
      /\ h.sent = o + n + q
      /\ n <= MaxParallel
      /\ n + q = 0 => m = 0
  BY <1>2, <1>3
<1>6. reads = Run(o, n) /\ recs = Run(o + n, q)
  <2> DEFINE f == o + r
  <2>1. f \in Nat /\ k \in Nat /\ f + k = o + n
    BY <1>2, <1>3
  <2>2. h.recs = Run(f, m)
    BY <1>2
  <2> HIDE DEF f
  <2>3. SubSeq(h.recs, 1, k) = Run(f, k) /\ recs = Run(f + k, q)
    <3>1. m \in Nat /\ k \in 0..m
      BY <1>2, <1>3
    <3>2. /\ SubSeq(Run(f, m), 1, k) = Run(f, k)
          /\ SubSeq(Run(f, m), k + 1, m) = Run(f + k, m - k)
      BY <2>1, <3>1, RunSub
    <3> QED
      BY <2>2, <3>2
  <2>4. Run(o, r) \o Run(f, k) = Run(o, n)
    BY <1>2, <2>1, RunConcat DEF f
  <2> QED
    BY <1>2, <2>1, <2>3, <2>4
<1> HIDE DEF n, q, reads, recs
<1>h. hole' \in BOOLEAN
  BY <1>4, Zenon
<1>p. Ordered!Page
  <2>1. hole' => MustWait /\ h.recs = <<>> /\ h.sent < Rows
    BY <1>4, Zenon
  <2> QED
    BY <1>2, <1>4, <1>h, <1>r, <1>w, <2>1 DEF Ordered!Page
<1>7. Flags'
  BY <1>0, <1>2, <1>4, <1>h, <1>r DEF Flags, IInv
<1>8. CASE /\ reads = <<>> /\ recs = <<>>
           /\ phase' = "eof"
           /\ readReqs' = reads
           /\ queryRecords' = recs
           /\ UNCHANGED out
  <2>1. o + n \in Nat
    BY <1>2, <1>5
  <2>2. n = 0 /\ q = 0
    BY <1>2, <1>5, <1>6, <1>8, <2>1, RunLen
  <2>3. Len(readReqs') = 0 /\ Len(queryRecords') = 0 /\ Len(out') = o
    BY <1>8 DEF o
  <2>4. o + 0 = o /\ o + 0 + 0 = o
    BY <1>2
  <2>5. /\ out' = Run(0, o) /\ readReqs' = Run(o, 0)
        /\ queryRecords' = Run(o + 0, 0) /\ sent' = o + 0 + 0
    BY <1>2, <1>4, <1>5, <1>6, <1>8, <2>2, <2>4
  <2>6. Cut'
    BY <1>2, <2>3, <2>5 DEF Cut
  <2>7. Flow'
    BY <1>8, <2>3, ScanAssumption DEF Flow
  <2>8. m = 0 /\ sent' = o
    BY <1>2, <1>4, <1>5, <2>2
  <2>9. sent' = Rows \/ hole'
    <3>1. h.recs = <<>>
      BY <2>8 DEF m
    <3>2. h.sent = Rows \/ h.sent < Rows
      BY <1>r
    <3> QED
      BY <1>4, <1>w, <2>8, <3>1, <3>2, Zenon
  <2> QED
    BY <1>7, <1>8, <1>p, <2>6, <2>7, <2>8, <2>9 DEF IInv, o
<1>9. CASE /\ secondary /\ reads # <<>>
           /\ out' = Append(out, NextRead(reads))
           /\ readReqs' = Tail(reads)
           /\ queryRecords' = recs
           /\ UNCHANGED phase
  <2>1. n # 0
    BY <1>2, <1>5, <1>6, <1>9, RunLen
  <2>2. NextRead(reads) = o + 1 /\ readReqs' = Run(o + 1, n - 1)
    BY <1>2, <1>5, <1>6, <1>9, <2>1, RunHead DEF NextRead
  <2>3. out' = Run(0, o + 1)
    BY <1>2, <1>9, <2>2, RunAppend
  <2>4. o + 1 \in Nat /\ n - 1 \in Nat /\ o + n \in Nat /\ o + 1 + (n - 1) = o + n
    BY <1>2, <1>5, <2>1
  <2>5. /\ Len(out') = o + 1
        /\ Len(readReqs') = n - 1
        /\ Len(queryRecords') = q
    <3>1. queryRecords' = Run(o + n, q) /\ n \in Nat /\ q \in Nat
      BY <1>5, <1>6, <1>9
    <3>2. Len(Run(0, o + 1)) = o + 1 /\ Len(Run(o + 1, n - 1)) = n - 1
      BY <2>4, RunLen
    <3>3. Len(Run(o + n, q)) = q
      BY <2>4, <3>1, RunLen
    <3> QED
      BY <2>2, <2>3, <3>1, <3>2, <3>3
  <2>6. queryRecords' = Run(o + 1 + (n - 1), q) /\ sent' = o + 1 + (n - 1) + q
    BY <1>4, <1>5, <1>6, <1>9, <2>4
  <2>7. Cut'
    BY <1>5, <2>2, <2>3, <2>4, <2>5, <2>6 DEF Cut
  <2>8. Flow'
    BY <1>0, <1>2, <1>4, <1>5, <1>9, <2>5, ScanAssumption DEF Flow
  <2>9. o < sent'
    BY <1>2, <1>4, <1>5, <2>1
  <2> QED
    BY <1>7, <1>9, <1>p, <2>2, <2>7, <2>8, <2>9 DEF IInv, o
<1>10. CASE /\ ~secondary /\ recs # <<>>
            /\ out' = Append(out, Head(recs))
            /\ queryRecords' = Tail(recs)
            /\ readReqs' = reads
            /\ UNCHANGED phase
  <2>1. n = 0 /\ o + n = o
    BY <1>2, <1>5, <1>10
  <2>2. recs = Run(o, q) /\ reads = Run(o, 0)
    BY <1>6, <2>1
  <2>3. q # 0
    BY <1>2, <1>5, <1>10, <2>2, RunLen
  <2>4. Head(recs) = o + 1 /\ queryRecords' = Run(o + 1, q - 1)
    BY <1>2, <1>5, <1>10, <2>2, <2>3, RunHead
  <2>5. out' = Run(0, o + 1)
    BY <1>2, <1>10, <2>4, RunAppend
  <2>6. o + 1 \in Nat /\ q - 1 \in Nat /\ o + 1 + 0 = o + 1
    BY <1>2, <1>5, <2>3
  <2>7. readReqs' = Run(o + 1, 0)
    <3>1. Run(o, 0) = <<>> /\ Run(o + 1, 0) = <<>>
      BY <1>2, <2>6, RunLen
    <3> QED
      BY <1>10, <2>2, <3>1
  <2>8. /\ Len(out') = o + 1
        /\ Len(readReqs') = 0
        /\ Len(queryRecords') = q - 1
    BY <2>4, <2>5, <2>6, <2>7, RunLen
  <2>9. queryRecords' = Run(o + 1 + 0, q - 1) /\ sent' = o + 1 + 0 + (q - 1)
    BY <1>2, <1>4, <1>5, <2>1, <2>4, <2>6
  <2>10. Cut'
    BY <2>5, <2>6, <2>7, <2>8, <2>9 DEF Cut
  <2>11. Flow'
    BY <1>0, <1>2, <1>4, <1>10, <2>8, ScanAssumption DEF Flow
  <2>12. o < sent'
    BY <1>2, <1>4, <1>5, <2>1, <2>3
  <2> QED
    BY <1>7, <1>10, <1>p, <2>4, <2>10, <2>11, <2>12 DEF IInv, o
<1> QED
  BY <1>4, <1>8, <1>9, <1>10

LEMMA InitIInv == Init => IInv
<1> SUFFICES ASSUME Init PROVE IInv
  OBVIOUS
<1>1. <<>> = Run(0, 0) /\ Len(<<>>) = 0
  BY RunLen
<1>2. hole \in BOOLEAN
  BY DEF Init
<1> QED
  BY <1>1, <1>2, ScanAssumption DEF Init, IInv, Flags, Cut, Flow

LEMMA StepIInv == IInv /\ [Next]_vars => IInv'
<1> SUFFICES ASSUME IInv, [Next]_vars PROVE IInv'
  OBVIOUS
<1>1. CASE Fetch
  BY <1>1, FetchStep
<1>2. CASE FetchFails
  BY <1>2 DEF FetchFails, MustWait, IInv, Flags, Cut, Flow
<1>3. CASE UNCHANGED vars
  BY <1>3 DEF vars, IInv, Flags, Cut, Flow
<1> QED
  BY <1>1, <1>2, <1>3 DEF Next

LEMMA Inductive == Spec => []IInv
BY InitIInv, StepIInv, PTL DEF Spec

(* Every part of a K2PgScanHandle keeps its type: what it holds are always *)
(* consecutive rows, and it never has more than maxParallelReads reads in  *)
(* flight.                                                                 *)
THEOREM ScanTypes == Spec => []TypeOK
<1>1. IInv => TypeOK
  <2> SUFFICES ASSUME IInv PROVE TypeOK
    OBVIOUS
  <2>1. \A f, n \in 0..Rows : Run(f, n) \in RowSeq
    BY DEF Run, RowSeq
  <2>2. /\ Len(out) \in 0..Rows /\ Len(readReqs) \in 0..Rows
        /\ Len(queryRecords) \in 0..Rows
        /\ Len(out) + Len(readReqs) \in 0..Rows /\ 0 \in 0..Rows
    BY ScanAssumption DEF IInv, Flags, Cut
  <2>3. out \in RowSeq /\ readReqs \in RowSeq /\ queryRecords \in RowSeq
    BY <2>1, <2>2 DEF IInv, Cut
  <2> QED
    BY <2>3 DEF IInv, Flags, Flow, TypeOK
<1> QED
  BY <1>1, Inductive, PTL

(* PgGate_DmlFetch implements the ordered scan: each row of the query once *)
(* and in order, no row that was sent is lost, and the end comes before    *)
(* the last row only on an empty page, however the store cuts its pages    *)
(* and however many reads of the base table are in flight                  *)
THEOREM FetchRefines == Spec => ImplementsOrderedScan
<1>1. Init => Ordered!Init
  BY DEF Init, Ordered!Init
<1>2. IInv /\ [Next]_vars => [Ordered!Next]_(Ordered!vars)
  <2> SUFFICES ASSUME IInv, [Next]_vars
               PROVE  [Ordered!Next]_(Ordered!vars)
    OBVIOUS
  <2>1. CASE Fetch
    <3>1. phase = "scanning"
      BY <2>1 DEF Fetch
    <3>2. Ordered!Emit \/ Ordered!Eof
      BY <2>1, <3>1, FetchStep DEF Ordered!Emit, Ordered!Eof
    <3> QED
      BY <3>2 DEF Ordered!Next
  <2>2. CASE FetchFails
    BY <2>2 DEF FetchFails, Ordered!Next, Ordered!Fail
  <2>3. CASE UNCHANGED vars
    BY <2>3 DEF vars, Ordered!vars
  <2> QED
    BY <2>1, <2>2, <2>3 DEF Next
<1> QED
  BY <1>1, <1>2, Inductive, PTL DEF Spec, ImplementsOrderedScan, Ordered!Spec

-----------------------------------------------------------------------------
(* The other half: BuildRangeRecords and the full scan conversion *)

Lower == {"GT", "GTE"}

(* The steps of the loop, by what they do to the two keys *)
Consumes ==
  /\ ~built /\ pos <= Len(args)
  /\ pos' = pos + 1
  /\ UNCHANGED <<args, unsupported, built>>

Skips ==
  /\ Consumes
  /\ didBranch' = TRUE
  /\ left' = left \cup {args[pos]}
  /\ isRangeScan' \in BOOLEAN
  /\ UNCHANGED <<start, end, startIdx>>

Pushes ==
  /\ Consumes
  /\ ~didBranch /\ didBranch' = didBranch
  /\ args[pos].col - startIdx \in {0, 1}
  /\ startIdx' = args[pos].col
  /\ isRangeScan' \in BOOLEAN

PushesEqual ==
  /\ Pushes
  /\ args[pos].op = "EQ"
  /\ start' = Append(start, args[pos].val)
  /\ end' = Append(end, args[pos].val)
  /\ left' = left

PushesLower ==
  /\ Pushes
  /\ args[pos].op \in Lower
  /\ start' = Append(start, args[pos].val)
  /\ end' = end
  /\ left' = left \cup {args[pos]}

PushesUpper ==
  /\ Pushes
  /\ args[pos].op = "LT"
  /\ start' = start
  /\ end' = Append(end, args[pos].val)
  /\ left' = left \cup {args[pos]}

LEMMA BuildKinds ==
  ASSUME BuildTypeOK, BuildNext
  PROVE  Skips \/ PushesEqual \/ PushesLower \/ PushesUpper \/ Finish
<1> USE DEF BuildTypeOK, At, Arg, Leave, Adjacent,
            NewStartIdx, UpperOps, Consumes, Skips, Pushes, Lower
<1>1. CASE AfterBranch
  BY <1>1 DEF AfterBranch
<1>2. CASE Equal
  BY <1>2 DEF Equal, PushesEqual
<1>3. CASE LowerBound
  BY <1>3 DEF LowerBound, PushesLower
<1>4. CASE UpperBound
  BY <1>4 DEF UpperBound, PushesUpper
<1>5. CASE NotPushed
  BY <1>5 DEF NotPushed
<1> QED
  BY <1>1, <1>2, <1>3, <1>4, <1>5 DEF BuildNext

LEMMA ArgsAreSorted ==
  ASSUME args \in SortedArgs
  PROVE  /\ args \in Seq(Cond)
         /\ Len(args) \in 0..MaxConds
         /\ DOMAIN args = 1..Len(args)
         /\ \A j \in 1..Len(args) : args[j] \in Cond
<1>1. PICK n \in 0..MaxConds : args \in [1..n -> Cond]
  BY DEF SortedArgs
<1>2. n \in Nat /\ MaxConds \in Nat
  BY RangeAssumption
<1>3. args \in Seq(Cond) /\ Len(args) = n
  BY <1>1, <1>2
<1> QED
  BY <1>1, <1>3

LEMMA Appended ==
  ASSUME NEW S, NEW s \in Seq(S), NEW v \in S
  PROVE  /\ Append(s, v) \in Seq(S)
         /\ Len(s) \in Nat /\ Len(Append(s, v)) = Len(s) + 1
         /\ \A j \in 1..Len(s) : Append(s, v)[j] = s[j]
         /\ Append(s, v)[Len(s) + 1] = v
OBVIOUS

(* Each condition lengthens a key by one value at most *)
BuildBounds ==
  /\ Len(start) < pos /\ Len(end) < pos
  /\ pos <= Len(args) + 1
  /\ built => pos = Len(args) + 1

BuildTypes == BuildTypeOK /\ BuildBounds

LEMMA BuildTypesInit ==
  ASSUME BuildInit
  PROVE  BuildTypes
<1>1. args \in SortedArgs /\ Len(args) \in Nat
  BY ArgsAreSorted, RangeAssumption DEF BuildInit
<1>2. /\ <<>> \in Seq(Val) /\ Len(<<>>) = 0
      /\ 1 \in 1..(MaxConds + 1) /\ 0 \in 0..NCols
  BY RangeAssumption
<1>3. /\ unsupported \in BOOLEAN /\ didBranch \in BOOLEAN
      /\ isRangeScan \in BOOLEAN /\ built \in BOOLEAN /\ ~built
  BY DEF BuildInit
<1>4. /\ start \in Seq(Val) /\ Len(start) = 0
      /\ end \in Seq(Val) /\ Len(end) = 0
  BY <1>2 DEF BuildInit
<1>5. /\ pos = 1 /\ pos \in 1..(MaxConds + 1) /\ startIdx \in 0..NCols
      /\ left \subseteq Cond /\ 0 <= MaxConds
  BY <1>2, RangeAssumption DEF BuildInit
<1> QED
  BY <1>1, <1>3, <1>4, <1>5 DEF BuildTypeOK, BuildTypes, BuildBounds

LEMMA BuildTypesStep ==
  ASSUME BuildTypes, [BuildNext]_buildVars
  PROVE  BuildTypes'
<1> USE DEF BuildTypes, BuildBounds
<1>0. /\ NCols \in Nat /\ MaxVal \in Nat /\ MaxConds \in Nat
      /\ args \in SortedArgs /\ Len(args) \in 0..MaxConds /\ pos \in Nat
      /\ start \in Seq(Val) /\ end \in Seq(Val)
      /\ Len(start) \in Nat /\ Len(end) \in Nat
  BY ArgsAreSorted, RangeAssumption DEF BuildTypeOK
<1>1. ASSUME Consumes
      PROVE  /\ args[pos] \in Cond
             /\ args[pos].col \in 0..NCols /\ args[pos].val \in Val
             /\ pos' \in 1..(MaxConds + 1)
  <2>1. pos \in 1..Len(args)
    BY <1>0, <1>1 DEF Consumes, BuildTypeOK
  <2>2. args[pos] \in Cond
    BY <1>0, <2>1, ArgsAreSorted
  <2> QED
    BY <1>0, <1>1, <2>1, <2>2 DEF Consumes, Cond, Col
<1>2. ASSUME Consumes,
             didBranch' \in BOOLEAN, isRangeScan' \in BOOLEAN,
             startIdx' \in 0..NCols,
             left' = left \/ left' = left \cup {args[pos]},
             start' = start \/ start' = Append(start, args[pos].val),
             end' = end \/ end' = Append(end, args[pos].val)
      PROVE  BuildTypes'
  <2>0. args[pos].val \in Val
    BY <1>1, <1>2
  <2>1. args' = args /\ built' = built /\ unsupported' = unsupported /\ pos' = pos + 1
    BY <1>2 DEF Consumes
  <2>2. args' \in SortedArgs /\ unsupported' \in BOOLEAN /\ built' \in BOOLEAN
        /\ ~built /\ ~built'
    BY <1>2, <2>1 DEF Consumes, BuildTypeOK
  <2>3. left' \subseteq Cond
    BY <1>1, <1>2 DEF BuildTypeOK
  <2>4. /\ start' \in Seq(Val) /\ Len(start') \in Nat
        /\ Len(start') <= Len(start) + 1
    <3>1. CASE start' = start
      BY <1>0, <3>1
    <3>2. CASE start' = Append(start, args[pos].val)
      BY <1>0, <2>0, <3>2, Appended
    <3> QED
      BY <1>2, <3>1, <3>2
  <2>5. /\ end' \in Seq(Val) /\ Len(end') \in Nat
        /\ Len(end') <= Len(end) + 1
    <3>1. CASE end' = end
      BY <1>0, <3>1
    <3>2. CASE end' = Append(end, args[pos].val)
      BY <1>0, <2>0, <3>2, Appended
    <3> QED
      BY <1>2, <3>1, <3>2
  <2>6. pos <= Len(args)
    BY <1>2 DEF Consumes
  <2>7. /\ Len(start') < pos' /\ Len(end') < pos' /\ pos' <= Len(args') + 1
        /\ Len(start') <= MaxConds /\ Len(end') <= MaxConds
    BY <1>0, <2>1, <2>4, <2>5, <2>6
  <2> QED
    BY <1>1, <1>2, <2>2, <2>3, <2>4, <2>5, <2>7 DEF BuildTypeOK
<1>3. CASE Skips
  BY <1>2, <1>3 DEF Skips, BuildTypeOK
<1>4. ASSUME Pushes
      PROVE  Consumes /\ didBranch' \in BOOLEAN /\ isRangeScan' \in BOOLEAN
             /\ startIdx' \in 0..NCols
  BY <1>1, <1>4 DEF Pushes, BuildTypeOK
<1>5. CASE PushesEqual \/ PushesLower \/ PushesUpper
  BY <1>2, <1>4, <1>5 DEF PushesEqual, PushesLower, PushesUpper
<1>6. CASE Finish
  <2>1. <<>> \in Seq(Val) /\ Len(<<>>) = 0
    OBVIOUS
  <2>2. /\ start' \in Seq(Val) /\ Len(start') <= Len(start)
        /\ end' \in Seq(Val) /\ Len(end') <= Len(end)
        /\ Len(start') \in Nat /\ Len(end') \in Nat
    <3>1. \/ start' = <<>> /\ end' = <<>>
          \/ start' = start /\ end' = end
      BY <1>6 DEF Finish
    <3>2. CASE start' = <<>> /\ end' = <<>>
      BY <1>0, <2>1, <3>2
    <3>3. CASE start' = start /\ end' = end
      BY <1>0, <3>3
    <3> QED
      BY <3>1, <3>2, <3>3
  <2>3. /\ args' = args /\ pos' = pos /\ pos = Len(args) + 1
        /\ built' \in BOOLEAN
    BY <1>6 DEF Finish
  <2>4. /\ unsupported' \in BOOLEAN /\ left' \subseteq Cond
        /\ startIdx' \in 0..NCols /\ didBranch' \in BOOLEAN
        /\ isRangeScan' \in BOOLEAN
    BY <1>6 DEF Finish, BuildTypeOK
  <2>5. Len(start') < pos' /\ Len(end') < pos' /\ Len(start') <= MaxConds
        /\ Len(end') <= MaxConds /\ pos' = Len(args') + 1
    BY <1>0, <2>2, <2>3 DEF BuildTypeOK
  <2> QED
    BY <2>2, <2>3, <2>4, <2>5 DEF BuildTypeOK
<1>7. CASE UNCHANGED buildVars
  BY <1>7 DEF buildVars, BuildTypeOK
<1> QED
  BY <1>3, <1>5, <1>6, <1>7, BuildKinds

LEMMA BuildTypesAlways ==
  BuildSpec => []BuildTypes
BY BuildTypesInit, BuildTypesStep, PTL DEF BuildSpec

(* The first n conditions are the common prefix of the two keys; every     *)
(* condition after them is a filter too.  One value more in a key is a     *)
(* bound on column n + 1.                                                  *)
Prefix(n) ==
  \A j \in 1..n : /\ args[j].op = "EQ" /\ args[j].col = j
                  /\ start[j] = args[j].val /\ end[j] = args[j].val

StartBound(n) ==
  \E j \in (n + 1)..(pos - 1) :
    /\ args[j].col = n + 1 /\ args[j].op \in Lower
    /\ args[j].val = start[n + 1]

EndBound(n) ==
  \E j \in (n + 1)..(pos - 1) :
    /\ args[j].col = n + 1 /\ args[j].op = "LT"
    /\ args[j].val = end[n + 1]

Shape(n) ==
  /\ n < pos
  /\ Prefix(n)
  /\ \A j \in (n + 1)..(pos - 1) : args[j] \in left
  /\ Len(start) \in {n, n + 1} /\ Len(end) \in {n, n + 1}
  /\ Len(start) = n + 1 => startIdx = n + 1 /\ StartBound(n)
  /\ Len(end) = n + 1 => startIdx = n + 1 /\ EndBound(n)
  /\ ~didBranch /\ Len(start) = n /\ Len(end) = n => pos = n + 1 /\ startIdx = n

(* Orderly lists only; a full scan has empty keys *)
ShapeInv ==
  Orderly =>
    \/ built /\ isRangeScan /\ unsupported /\ start = <<>> /\ end = <<>>
    \/ ~(built /\ isRangeScan /\ unsupported) /\ \E n \in 0..NCols : Shape(n)

LEMMA ShapeInit ==
  ASSUME BuildInit
  PROVE  ShapeInv
<1>1. 0 \in 0..NCols /\ ~built /\ pos = 1 /\ Len(start) = 0 /\ Len(end) = 0
      /\ startIdx = 0
  BY RangeAssumption DEF BuildInit
<1>2. Shape(0)
  BY <1>1 DEF Shape, Prefix
<1> QED
  BY <1>1, <1>2 DEF ShapeInv

(* What an orderly list says of the condition the loop is at *)
LEMMA OrderlyNext ==
  ASSUME Orderly, NEW j \in DOMAIN args, pos \in DOMAIN args, j < pos
  PROVE  \/ args[j].col < args[pos].col /\ args[j].op = "EQ"
         \/ /\ args[j].col = args[pos].col
            /\ args[j].op \in Lower => args[pos].op \in {"LT", "LTE"}
            /\ args[pos].op \in {"LT", "LTE"} => args[j].op \in Lower
            /\ args[j].op # "EQ" /\ args[pos].op # "EQ"
BY DEF Orderly, Lower

LEMMA ShapeStep ==
  ASSUME BuildTypes, BuildTypes', ShapeInv, Orderly,
         ~built, NEW n \in 0..NCols, Shape(n),
         Skips \/ PushesEqual \/ PushesLower \/ PushesUpper
  PROVE  \E m \in 0..NCols : Shape(m)'
<1>0. /\ NCols \in Nat /\ n \in Nat
      /\ pos \in Nat /\ pos' = pos + 1 /\ args' = args
      /\ DOMAIN args = 1..Len(args) /\ Len(args) \in Nat
      /\ pos \in 1..Len(args) /\ pos \in DOMAIN args
      /\ startIdx \in Nat
      /\ start \in Seq(Val) /\ end \in Seq(Val)
      /\ Len(start) \in Nat /\ Len(end) \in Nat
  <2>1. Consumes
    BY DEF Skips, PushesEqual, PushesLower, PushesUpper, Pushes
  <2>2. pos <= Len(args) /\ pos' = pos + 1 /\ args' = args
    BY <2>1 DEF Consumes
  <2>3. /\ NCols \in Nat /\ MaxConds \in Nat /\ args \in SortedArgs
        /\ pos \in 1..(MaxConds + 1) /\ startIdx \in 0..NCols
        /\ start \in Seq(Val) /\ end \in Seq(Val)
    BY RangeAssumption DEF BuildTypes, BuildTypeOK
  <2>4. /\ DOMAIN args = 1..Len(args) /\ Len(args) \in Nat
        /\ pos \in Nat /\ pos \in 1..Len(args)
    BY <2>2, <2>3, ArgsAreSorted
  <2>5. Len(start) \in Nat /\ Len(end) \in Nat
    BY <2>3
  <2> QED
    BY <2>2, <2>3, <2>4, <2>5
<1>1. /\ args[pos] \in Cond
      /\ args[pos].col \in 1..NCols /\ args[pos].val \in Val
  BY <1>0, ArgsAreSorted DEF BuildTypes, BuildTypeOK, Cond, Col
<1>2. CASE Skips
  <2>1. /\ start' = start /\ end' = end /\ startIdx' = startIdx
        /\ didBranch' /\ left' = left \cup {args[pos]}
    BY <1>2 DEF Skips
  <2>2. Shape(n)'
    BY <1>0, <2>1 DEF Shape, Prefix, StartBound, EndBound
  <2> QED
    BY <2>2
(* on a column of its own, the loop is at column n + 1 *)
<1>3. ASSUME startIdx = n, args[pos].col - startIdx \in {0, 1},
             n # 0 => args[n].col < args[pos].col
      PROVE  args[pos].col = n + 1
  <2>1. n # 0 => args[n].col = n
    BY <1>0 DEF Shape, Prefix
  <2>2. args[pos].col \in {n, n + 1} /\ args[pos].col \in 1..NCols
    <3>1. args[pos].col - n \in {0, 1}
      BY <1>3
    <3>2. \A c \in 1..NCols : c - n \in {0, 1} => c \in {n, n + 1}
      BY <1>0
    <3> QED
      BY <1>1, <3>1, <3>2
  <2>3. CASE n = 0
    BY <2>2, <2>3
  <2>4. CASE n # 0
    BY <1>0, <1>3, <2>1, <2>2, <2>4
  <2> QED
    BY <2>3, <2>4
<1>4. CASE PushesEqual
  <2>1. /\ start' = Append(start, args[pos].val) /\ end' = Append(end, args[pos].val)
        /\ left' = left /\ startIdx' = args[pos].col
        /\ didBranch' = didBranch /\ ~didBranch /\ args[pos].op = "EQ"
        /\ args[pos].col - startIdx \in {0, 1}
    BY <1>4 DEF PushesEqual, Pushes
  <2>2. Len(start) = n /\ Len(end) = n
    <3> SUFFICES ASSUME Len(start) = n + 1 \/ Len(end) = n + 1
                 PROVE  FALSE
      BY DEF Shape
    <3>1. PICK j \in (n + 1)..(pos - 1) : args[j].op # "EQ"
      BY DEF Shape, StartBound, EndBound, Lower
    <3>2. j \in DOMAIN args /\ j < pos
      BY <1>0
    <3> QED
      BY <1>0, <2>1, <3>1, <3>2, OrderlyNext
  <2>3. pos = n + 1 /\ startIdx = n
    BY <2>1, <2>2 DEF Shape
  <2>4. n # 0 => args[n].col < args[pos].col
    <3> SUFFICES ASSUME n # 0
                 PROVE  args[n].col < args[pos].col
      OBVIOUS
    <3>1. args[n].op = "EQ" /\ n \in DOMAIN args /\ n < pos
      BY <1>0, <2>3 DEF Shape, Prefix
    <3> QED
      BY <1>0, <3>1, OrderlyNext
  <2>5. args[pos].col = n + 1
    BY <1>3, <2>1, <2>3, <2>4
  <2>6. /\ Len(start') = n + 1 /\ start'[n + 1] = args[pos].val
        /\ \A j \in 1..n : start'[j] = start[j]
    BY <1>0, <1>1, <2>1, <2>2, Appended
  <2>7. /\ Len(end') = n + 1 /\ end'[n + 1] = args[pos].val
        /\ \A j \in 1..n : end'[j] = end[j]
    BY <1>0, <1>1, <2>1, <2>2, Appended
  <2>8. Prefix(n + 1)'
    BY <1>0, <2>1, <2>3, <2>5, <2>6, <2>7 DEF Prefix, Shape
  <2>9. Shape(n + 1)'
    BY <1>0, <2>1, <2>3, <2>5, <2>6, <2>7, <2>8 DEF Shape
  <2>10. n + 1 \in 0..NCols
    BY <1>0, <1>1, <2>5
  <2> QED
    BY <2>9, <2>10
<1>5. CASE PushesLower
  <2>1. /\ start' = Append(start, args[pos].val) /\ end' = end
        /\ left' = left \cup {args[pos]} /\ startIdx' = args[pos].col
        /\ didBranch' = didBranch /\ ~didBranch /\ args[pos].op \in Lower
        /\ args[pos].col - startIdx \in {0, 1}
    BY <1>5 DEF PushesLower, Pushes
  <2>2. Len(start) = n
    <3> SUFFICES ASSUME Len(start) = n + 1
                 PROVE  FALSE
      BY DEF Shape
    <3>1. PICK j \in (n + 1)..(pos - 1) : args[j].op \in Lower
      BY DEF Shape, StartBound
    <3>2. j \in DOMAIN args /\ j < pos
      BY <1>0
    <3> QED
      BY <1>0, <2>1, <3>1, <3>2, OrderlyNext DEF Lower
  <2>3. args[pos].col = n + 1
    <3>1. CASE Len(end) = n
      <4>1. startIdx = n /\ pos = n + 1
        BY <2>1, <2>2, <3>1 DEF Shape
      <4>2. n # 0 => args[n].op = "EQ" /\ n \in DOMAIN args /\ n < pos
        BY <1>0, <4>1 DEF Shape, Prefix
      <4>3. n # 0 => args[n].col < args[pos].col
        BY <1>0, <4>2, OrderlyNext
      <4> QED
        BY <1>3, <2>1, <4>1, <4>3
    <3>2. CASE Len(end) = n + 1
      <4>1. PICK j \in (n + 1)..(pos - 1) :
              args[j].col = n + 1 /\ args[j].op # "EQ"
        BY <3>2 DEF Shape, EndBound, Lower
      <4>2. j \in DOMAIN args /\ j < pos
        BY <1>0
      <4> QED
        BY <1>0, <4>1, <4>2, OrderlyNext
    <3> QED
      BY <3>1, <3>2 DEF Shape
  <2>4. /\ Len(start') = n + 1 /\ start'[n + 1] = args[pos].val
        /\ \A j \in 1..n : start'[j] = start[j]
    BY <1>0, <1>1, <2>1, <2>2, Appended
  <2>5. StartBound(n)'
    <3>1. pos \in (n + 1)..(pos' - 1)
      BY <1>0 DEF Shape
    <3> QED
      BY <1>0, <2>1, <2>3, <2>4, <3>1 DEF StartBound
  <2>6. Len(end) = n + 1 => EndBound(n)'
    <3> SUFFICES ASSUME Len(end) = n + 1
                 PROVE  EndBound(n)'
      OBVIOUS
    <3>1. EndBound(n)
      BY DEF Shape
    <3>2. \A j \in (n + 1)..(pos - 1) : j \in (n + 1)..(pos' - 1)
      BY <1>0
    <3> QED
      BY <1>0, <2>1, <3>1, <3>2 DEF EndBound
  <2>7. Prefix(n)'
    BY <1>0, <2>1, <2>4 DEF Prefix, Shape
  <2>8. \A j \in (n + 1)..(pos' - 1) : args'[j] \in left'
    BY <1>0, <2>1 DEF Shape
  <2>9. Len(end') \in {n, n + 1} /\ n < pos'
    BY <1>0, <2>1 DEF Shape
  <2>10. Shape(n)'
    BY <1>0, <2>1, <2>3, <2>4, <2>5, <2>6, <2>7, <2>8, <2>9 DEF Shape
  <2> QED
    BY <2>10
<1>6. CASE PushesUpper
  <2>1. /\ end' = Append(end, args[pos].val) /\ start' = start
        /\ left' = left \cup {args[pos]} /\ startIdx' = args[pos].col
        /\ didBranch' = didBranch /\ ~didBranch /\ args[pos].op = "LT"
        /\ args[pos].col - startIdx \in {0, 1}
    BY <1>6 DEF PushesUpper, Pushes
  <2>2. Len(end) = n
    <3> SUFFICES ASSUME Len(end) = n + 1
                 PROVE  FALSE
      BY DEF Shape
    <3>1. PICK j \in (n + 1)..(pos - 1) : args[j].op = "LT"
      BY DEF Shape, EndBound
    <3>2. j \in DOMAIN args /\ j < pos
      BY <1>0
    <3> QED
      BY <1>0, <2>1, <3>1, <3>2, OrderlyNext DEF Lower
  <2>3. args[pos].col = n + 1
    <3>1. CASE Len(start) = n
      <4>1. startIdx = n /\ pos = n + 1
        BY <2>1, <2>2, <3>1 DEF Shape
      <4>2. n # 0 => args[n].op = "EQ" /\ n \in DOMAIN args /\ n < pos
        BY <1>0, <4>1 DEF Shape, Prefix
      <4>3. n # 0 => args[n].col < args[pos].col
        BY <1>0, <4>2, OrderlyNext
      <4> QED
        BY <1>3, <2>1, <4>1, <4>3
    <3>2. CASE Len(start) = n + 1
      <4>1. PICK j \in (n + 1)..(pos - 1) :
              args[j].col = n + 1 /\ args[j].op # "EQ"
        BY <3>2 DEF Shape, StartBound, Lower
      <4>2. j \in DOMAIN args /\ j < pos
        BY <1>0
      <4> QED
        BY <1>0, <4>1, <4>2, OrderlyNext
    <3> QED
      BY <3>1, <3>2 DEF Shape
  <2>4. /\ Len(end') = n + 1 /\ end'[n + 1] = args[pos].val
        /\ \A j \in 1..n : end'[j] = end[j]
    BY <1>0, <1>1, <2>1, <2>2, Appended
  <2>5. EndBound(n)'
    <3>1. pos \in (n + 1)..(pos' - 1)
      BY <1>0 DEF Shape
    <3> QED
      BY <1>0, <2>1, <2>3, <2>4, <3>1 DEF EndBound
  <2>6. Len(start) = n + 1 => StartBound(n)'
    <3> SUFFICES ASSUME Len(start) = n + 1
                 PROVE  StartBound(n)'
      OBVIOUS
    <3>1. StartBound(n)
      BY DEF Shape
    <3>2. \A j \in (n + 1)..(pos - 1) : j \in (n + 1)..(pos' - 1)
      BY <1>0
    <3> QED
      BY <1>0, <2>1, <3>1, <3>2 DEF StartBound
  <2>7. Prefix(n)'
    BY <1>0, <2>1, <2>4 DEF Prefix, Shape
  <2>8. \A j \in (n + 1)..(pos' - 1) : args'[j] \in left'
    BY <1>0, <2>1 DEF Shape
  <2>9. Len(start') \in {n, n + 1} /\ n < pos'
    BY <1>0, <2>1 DEF Shape
  <2>10. Shape(n)'
    BY <1>0, <2>1, <2>3, <2>4, <2>5, <2>6, <2>7, <2>8, <2>9 DEF Shape
  <2> QED
    BY <2>10
<1> QED
  BY <1>2, <1>4, <1>5, <1>6

LEMMA ShapeAlways ==
  BuildSpec => [](BuildTypes /\ ShapeInv)
<1>1. ASSUME BuildTypes, BuildTypes', ShapeInv, [BuildNext]_buildVars
      PROVE  ShapeInv'
  <2> SUFFICES ASSUME Orderly'
               PROVE  \/ /\ built' /\ isRangeScan' /\ unsupported'
                         /\ start' = <<>> /\ end' = <<>>
                      \/ /\ ~(built' /\ isRangeScan' /\ unsupported')
                         /\ \E n \in 0..NCols : Shape(n)'
    BY DEF ShapeInv
  <2>1. CASE Skips \/ PushesEqual \/ PushesLower \/ PushesUpper
    <3>1. Consumes
      BY <2>1 DEF Skips, PushesEqual, PushesLower, PushesUpper, Pushes
    <3>2. ~built /\ ~built' /\ Orderly
      BY <3>1 DEF Consumes, Orderly
    <3>3. PICK n \in 0..NCols : Shape(n)
      BY <1>1, <3>2 DEF ShapeInv
    <3> QED
      BY <1>1, <2>1, <3>2, <3>3, ShapeStep
  <2>2. CASE Finish
    <3>1. ~built /\ Orderly /\ isRangeScan' = isRangeScan /\ built'
          /\ unsupported' = unsupported
      BY <2>2 DEF Finish, Orderly
    <3>2. CASE isRangeScan /\ unsupported
      BY <2>2, <3>1, <3>2 DEF Finish
    <3>3. CASE ~(isRangeScan /\ unsupported)
      <4>1. PICK n \in 0..NCols : Shape(n)
        BY <1>1, <3>1 DEF ShapeInv
      <4>2. Shape(n)'
        BY <2>2, <3>3, <4>1
           DEF Finish, Shape, Prefix, StartBound, EndBound
      <4> QED
        BY <3>1, <3>3, <4>2
    <3> QED
      BY <3>2, <3>3
  <2>3. CASE UNCHANGED buildVars
    <3>1. Orderly
      BY <2>3 DEF Orderly, buildVars
    <3>2. CASE \E n \in 0..NCols : Shape(n)
      <4>1. PICK n \in 0..NCols : Shape(n)
        BY <3>2
      <4>2. Shape(n)'
        BY <2>3, <4>1 DEF buildVars, Shape, Prefix, StartBound, EndBound
      <4> QED
        BY <1>1, <2>3, <3>1, <4>2 DEF ShapeInv, buildVars
    <3> QED
      BY <1>1, <2>3, <3>1, <3>2 DEF ShapeInv, buildVars
  <2> QED
    BY <1>1, <2>1, <2>2, <2>3, BuildKinds DEF BuildTypes
<1> QED
  BY <1>1, BuildTypesAlways, ShapeInit, PTL DEF BuildSpec

-----------------------------------------------------------------------------
(* A row compared with a key, in terms of the key's length *)
LEMMA KeyOrder ==
  ASSUME NEW S, NEW k \in Seq(S), NEW r
  PROVE  /\ Agrees(r, k) <=> \A j \in 1..Len(k) : r[j] = k[j]
         /\ Beyond(r, k) <=>
              \E j \in 1..Len(k) : r[j] > k[j] /\ \A m \in 1..(j - 1) : r[m] = k[m]
         /\ Before(r, k) <=>
              \E j \in 1..Len(k) : r[j] < k[j] /\ \A m \in 1..(j - 1) : r[m] = k[m]
<1>1. DOMAIN k = 1..Len(k)
  OBVIOUS
<1> QED
  BY <1>1, Zenon DEF Agrees, Beyond, Before

LEMMA SeqOfNat ==
  ASSUME NEW S, S \subseteq Nat, NEW k \in Seq(S)
  PROVE  \A j \in 1..Len(k) : k[j] \in Nat
<1>1. \A j \in 1..Len(k) : k[j] \in S
  OBVIOUS
<1> QED
  BY <1>1

(* Where the conditions are: n of them in the prefix *)
LEMMA BuiltArgs ==
  ASSUME BuildTypes, built, NEW n \in 0..NCols, Shape(n)
  PROVE  /\ \A j \in 1..n : j \in DOMAIN args
         /\ \A j \in (n + 1)..(pos - 1) : j \in DOMAIN args
         /\ \A j \in DOMAIN args : j \in 1..n \/ j \in (n + 1)..(pos - 1)
<1>1. /\ n \in Nat /\ Len(args) \in Nat /\ pos = Len(args) + 1 /\ n < pos
      /\ DOMAIN args = 1..Len(args)
  BY ArgsAreSorted, RangeAssumption DEF BuildTypes, BuildBounds, BuildTypeOK, Shape
<1> QED
  BY <1>1

(* What the keys of a finished build mean *)
LEMMA BuiltFacts ==
  ASSUME BuildTypes, built, NEW n \in 0..NCols, Shape(n),
         NEW r \in Row
  PROVE  /\ n \in Nat /\ NCols \in Nat
         /\ Len(start) \in {n, n + 1} /\ Len(end) \in {n, n + 1}
         /\ Len(start) <= NCols /\ Len(end) <= NCols
         /\ \A j \in 1..Len(start) : start[j] \in Nat
         /\ \A j \in 1..Len(end) : end[j] \in Nat
         /\ \A j \in 1..NCols : r[j] \in Nat
         /\ \A j \in 1..n : start[j] = end[j]
<1>1. NCols \in Nat /\ n \in Nat /\ MaxVal \in Nat
  BY RangeAssumption
<1>2. start \in Seq(Val) /\ end \in Seq(Val)
  BY DEF BuildTypes, BuildTypeOK
<1>3. Val \subseteq Nat
  BY <1>1 DEF Val
<1>4. /\ \A j \in 1..Len(start) : start[j] \in Nat
      /\ \A j \in 1..Len(end) : end[j] \in Nat
  BY <1>2, <1>3, SeqOfNat, Zenon
<1>5. \A j \in 1..NCols : r[j] \in Nat
  BY <1>1, <1>3 DEF Row, Col
<1>6. /\ Len(start) \in {n, n + 1} /\ Len(end) \in {n, n + 1}
      /\ \A j \in 1..n : start[j] = end[j]
  BY DEF Shape, Prefix
(* a bound on column n + 1 comes from a condition, so there is such a      *)
(* column                                                                  *)
<1>7. ASSUME NEW j \in (n + 1)..(pos - 1), args[j].col = n + 1
      PROVE  n + 1 <= NCols
  <2>1. j \in DOMAIN args
    BY BuiltArgs
  <2>2. args[j] \in Cond
    BY <2>1, ArgsAreSorted DEF BuildTypes, BuildTypeOK
  <2> QED
    BY <1>1, <1>7, <2>2 DEF Cond, Col
<1>8. Len(start) <= NCols
  <2>1. CASE Len(start) = n + 1
    BY <1>7, <2>1 DEF Shape, StartBound
  <2> QED
    BY <1>1, <1>6, <2>1
<1>9. Len(end) <= NCols
  <2>1. CASE Len(end) = n + 1
    BY <1>7, <2>1 DEF Shape, EndBound
  <2> QED
    BY <1>1, <1>6, <2>1
<1> QED
  BY <1>1, <1>4, <1>5, <1>6, <1>8, <1>9, Zenon

(* BuildRangeRecords keeps its types: every condition adds one field to a  *)
(* builder at most, and start_idx is the index of a key column             *)
THEOREM KeyTypes ==
  BuildSpec => []BuildTypeOK
BY BuildTypesAlways, PTL DEF BuildTypes

(* Every row an orderly query wants is in the key range that is scanned,   *)
(* for keys of any number of columns: the equalities fix a common prefix,  *)
(* a bound on the column after it cuts off only rows that break it         *)
THEOREM RangeLosesNothing ==
  BuildSpec => []OrderlyLosesNothing
<1>1. BuildTypes /\ ShapeInv => OrderlyLosesNothing
  <2> SUFFICES ASSUME BuildTypes, ShapeInv, built, Orderly,
                      NEW r \in Row, Wanted(r)
               PROVE  Scanned(r)
    BY DEF OrderlyLosesNothing
  <2>1. CASE start = <<>> /\ end = <<>>
    BY <2>1, RangeAssumption DEF Scanned, Agrees
  <2>2. CASE \E n \in 0..NCols : Shape(n)
    <3>0. PICK n \in 0..NCols : Shape(n)
      BY <2>2
    <3>1. /\ n \in Nat /\ NCols \in Nat
          /\ Len(start) \in {n, n + 1} /\ Len(end) \in {n, n + 1}
          /\ Len(start) <= NCols /\ Len(end) <= NCols
      BY <3>0, BuiltFacts, Zenon
    <3>2. /\ \A j \in 1..Len(start) : start[j] \in Nat
          /\ \A j \in 1..Len(end) : end[j] \in Nat
          /\ \A j \in 1..NCols : r[j] \in Nat
          /\ \A j \in 1..n : start[j] = end[j]
      BY <3>0, BuiltFacts, Zenon
    <3>s. start \in Seq(Val) /\ end \in Seq(Val)
      BY DEF BuildTypes, BuildTypeOK
    <3>3. \A j \in 1..n : r[j] = start[j] /\ r[j] = end[j]
      <4> SUFFICES ASSUME NEW j \in 1..n
                   PROVE  r[j] = start[j]
        BY <3>2
      <4>1. /\ args[j].op = "EQ" /\ args[j].col = j /\ start[j] = args[j].val
            /\ j \in DOMAIN args
        BY <3>0, BuiltArgs DEF Shape, Prefix
      <4>2. Sat(r, args[j])
        BY <4>1 DEF Wanted
      <4> QED
        BY <4>1, <4>2 DEF Sat
    <3>4. Agrees(r, start) \/ Beyond(r, start)
      <4>1. CASE Len(start) = n
        BY <3>3, <3>s, <4>1, KeyOrder
      <4>2. CASE Len(start) = n + 1
        <5>1. PICK j \in (n + 1)..(pos - 1) :
                /\ args[j].col = n + 1 /\ args[j].op \in Lower
                /\ args[j].val = start[n + 1]
          BY <3>0, <4>2 DEF Shape, StartBound
        <5>2. Sat(r, args[j])
          BY <3>0, BuiltArgs DEF Wanted
        <5>3. r[n + 1] >= start[n + 1] /\ n + 1 \in 1..Len(start) /\ n + 1 \in 1..NCols
          <6>1. n + 1 \in 1..Len(start) /\ n + 1 \in 1..NCols
            BY <3>1, <4>2
          <6>2. r[n + 1] \in Nat /\ start[n + 1] \in Nat
            BY <3>2, <6>1
          <6>3. r[n + 1] > start[n + 1] \/ r[n + 1] >= start[n + 1]
            BY <5>1, <5>2 DEF Sat, Lower
          <6> QED
            BY <6>1, <6>2, <6>3
        <5>4. CASE r[n + 1] = start[n + 1]
          <6>1. \A m \in 1..Len(start) : r[m] = start[m]
            BY <3>1, <3>3, <4>2, <5>4
          <6> QED
            BY <3>s, <6>1, KeyOrder
        <5>5. CASE r[n + 1] > start[n + 1]
          <6>1. \A m \in 1..(n + 1 - 1) : r[m] = start[m]
            BY <3>1, <3>3
          <6> QED
            BY <3>s, <5>3, <5>5, <6>1, KeyOrder
        <5> QED
          BY <3>2, <5>3, <5>4, <5>5
      <4> QED
        BY <3>1, <4>1, <4>2
    <3>5. \/ Before(r, end)
          \/ Agrees(r, end) /\ (Len(end) < NCols \/ end = start)
      <4>1. CASE Len(end) = n
        <5>1. Agrees(r, end)
          BY <3>3, <3>s, <4>1, KeyOrder
        <5>2. CASE n = NCols
          <6>1. Len(start) = n
            BY <3>1, <5>2
          <6>2. end = start
            BY <3>2, <3>s, <4>1, <6>1
          <6> QED
            BY <5>1, <6>2
        <5> QED
          BY <3>1, <4>1, <5>1, <5>2
      <4>2. CASE Len(end) = n + 1
        <5>1. PICK j \in (n + 1)..(pos - 1) :
                /\ args[j].col = n + 1 /\ args[j].op = "LT"
                /\ args[j].val = end[n + 1]
          BY <3>0, <4>2 DEF Shape, EndBound
        <5>2. Sat(r, args[j])
          BY <3>0, BuiltArgs DEF Wanted
        <5>3. r[n + 1] < end[n + 1] /\ n + 1 \in 1..Len(end)
          BY <3>1, <4>2, <5>1, <5>2 DEF Sat
        <5> QED
          <6>1. \A m \in 1..(n + 1 - 1) : r[m] = end[m]
            BY <3>1, <3>3
          <6> QED
            BY <3>s, <5>3, <6>1, KeyOrder
      <4> QED
        BY <3>1, <4>1, <4>2
    <3> QED
      BY <3>4, <3>5 DEF Scanned
  <2> QED
    BY <2>1, <2>2 DEF ShapeInv
<1> QED
  BY <1>1, ShapeAlways, PTL

(* For an orderly query that stays a range scan, what is scanned and       *)
(* passes the filters is wanted: a row between keys that share the prefix  *)
(* of equalities has that prefix, and every other condition is a filter    *)
THEOREM RangeIsExact ==
  BuildSpec => []OrderlyIsExact
<1>1. BuildTypes /\ ShapeInv => OrderlyIsExact
  <2> SUFFICES ASSUME BuildTypes, ShapeInv, built, Orderly,
                      ~(isRangeScan /\ unsupported),
                      NEW r \in Row, Scanned(r),
                      \A c \in left : Sat(r, c),
                      NEW j \in DOMAIN args
               PROVE  Sat(r, args[j])
    BY DEF OrderlyIsExact, Wanted
  <2>0. PICK n \in 0..NCols : Shape(n)
    BY DEF ShapeInv
  <2>1. /\ n \in Nat /\ NCols \in Nat
        /\ Len(start) \in {n, n + 1} /\ Len(end) \in {n, n + 1}
        /\ Len(start) <= NCols /\ Len(end) <= NCols
    BY <2>0, BuiltFacts, Zenon
  <2>2. /\ \A k \in 1..Len(start) : start[k] \in Nat
        /\ \A k \in 1..Len(end) : end[k] \in Nat
        /\ \A k \in 1..NCols : r[k] \in Nat
        /\ \A k \in 1..n : start[k] = end[k]
    BY <2>0, BuiltFacts, Zenon
  <2>s. start \in Seq(Val) /\ end \in Seq(Val)
    BY DEF BuildTypes, BuildTypeOK
  <2>3. CASE j \in (n + 1)..(pos - 1)
    <3>1. args[j] \in left
      BY <2>0, <2>3 DEF Shape
    <3> QED
      BY <3>1
  <2>4. CASE j \in 1..n
    <3>1. /\ args[j].op = "EQ" /\ args[j].col = j /\ start[j] = args[j].val
      BY <2>0, <2>4 DEF Shape, Prefix
    <3>2. \A m \in 1..n : r[m] = start[m]
      <4>1. CASE Agrees(r, start)
        <5>1. \A m \in 1..Len(start) : r[m] = start[m]
          BY <2>s, <4>1, KeyOrder
        <5> QED
          BY <2>1, <5>1
      <4>2. CASE Beyond(r, start)
        <5>1. PICK b \in 1..Len(start) :
                r[b] > start[b] /\ \A m \in 1..(b - 1) : r[m] = start[m]
          BY <2>s, <4>2, KeyOrder
        <5>2. CASE b = n + 1
          BY <2>1, <5>1, <5>2
        <5>3. CASE b <= n
          <6>1. b \in 1..Len(end) /\ b \in 1..NCols /\ start[b] = end[b]
                /\ r[b] > end[b]
            BY <2>1, <2>2, <5>1, <5>3
          <6>2. ~Agrees(r, end)
            <7>1. r[b] # end[b]
              BY <2>2, <6>1
            <7> QED
              BY <2>s, <6>1, <7>1, KeyOrder
          <6>3. PICK e \in 1..Len(end) :
                  r[e] < end[e] /\ \A m \in 1..(e - 1) : r[m] = end[m]
            BY <2>s, <6>2, KeyOrder DEF Scanned
          <6>4. CASE e < b
            BY <2>1, <2>2, <5>1, <5>3, <6>3, <6>4
          <6>5. CASE e = b
            BY <2>1, <2>2, <6>1, <6>3, <6>5
          <6>6. CASE e > b
            BY <2>1, <2>2, <6>1, <6>3, <6>6
          <6> QED
            BY <2>1, <6>4, <6>5, <6>6
        <5> QED
          BY <2>1, <5>2, <5>3
      <4> QED
        BY <4>1, <4>2 DEF Scanned
    <3> QED
      BY <2>4, <3>1, <3>2 DEF Sat
  <2> QED
    BY <2>0, <2>3, <2>4, BuiltArgs
<1> QED
  BY <1>1, ShapeAlways, PTL

=============================================================================
