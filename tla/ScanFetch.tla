----------------------------- MODULE ScanFetch -----------------------------
(***************************************************************************)
(* Fetching the rows of a scan: PgGate_DmlFetch (pg_gate_api.cpp) over the *)
(* K2PgScanHandle that PgGate_ExecSelect left with its first page in       *)
(* flight.  Rows are numbered in the order of the query; for a secondary   *)
(* index scan a row stands for the index entry and, once read, for the row *)
(* of the base table.                                                      *)
(*                                                                         *)
(* The store is external: it answers a page request with any number of the *)
(* next rows, none included, and says "done" only when none is left.       *)
(***************************************************************************)
EXTENDS Naturals, Sequences

CONSTANTS
  Rows,         \* how many rows the query has
  MaxParallel   \* maxParallelReads

ASSUME ScanAssumption ==
  /\ Rows \in Nat
  /\ MaxParallel \in Nat \ {0}

VARIABLES
  secondary,      \* secondarySchema is set
  sent,           \* rows the store has put into pages
  queryRecords,   \* rows received and not used
  queryInFlight,  \* a page has been requested and not received
  readReqs,       \* base table reads in flight, in order
  out,            \* rows handed to the caller
  phase,          \* "scanning", "eof" (no data was returned) or "error"
  hole            \* history: the last fetch got an empty page while rows remain

vars == <<secondary, sent, queryRecords, queryInFlight, readReqs, out, phase, hole>>

RowSeq == {[i \in 1..n |-> from + i] : n \in 0..Rows, from \in 0..Rows}

TypeOK ==
  /\ secondary \in BOOLEAN
  /\ sent \in 0..Rows
  /\ queryRecords \in RowSeq
  /\ queryInFlight \in BOOLEAN
  /\ readReqs \in RowSeq /\ Len(readReqs) <= MaxParallel
  /\ out \in RowSeq
  /\ phase \in {"scanning", "eof", "error"}
  /\ hole \in BOOLEAN

(* after PgGate_ExecSelect *)
Init ==
  /\ secondary \in BOOLEAN
  /\ sent = 0
  /\ queryRecords = <<>>
  /\ queryInFlight = TRUE
  /\ readReqs = <<>>
  /\ out = <<>>
  /\ phase = "scanning"
  /\ hole = FALSE

-----------------------------------------------------------------------------
Scan(recs, n, fly) == [recs |-> recs, sent |-> n, fly |-> fly]

(* the store's next page: rows sent+1 .. n, and whether it was the last *)
Pages ==
  {p \in [upto : sent..Rows, done : BOOLEAN] : p.done => p.upto = Rows}

(* "First check if we need to wait for more records" *)
MustWait == Len(queryRecords) = 0 /\ queryInFlight

(* the handle after the first stage; one page at most is awaited *)
AfterWait ==
  IF MustWait
  THEN {Scan([i \in 1..(p.upto - sent) |-> sent + i], p.upto, ~p.done) :
          p \in Pages}
  ELSE {Scan(queryRecords, sent, queryInFlight)}

Least(a, b) == IF a < b THEN a ELSE b

(* mutant: the newest read is answered first *)
NextReadNewest(reads) == reads[Len(reads)]

(* readReqs.front() *)
NextRead(reads) == Head(reads)

(* mutant: the limit on parallel reads counts the new ones only *)
ToIssueAll(recs) == Least(MaxParallel, Len(recs))

(* how many index entries are turned into reads of the base table *)
ToIssue(recs) == Least(MaxParallel - Len(readReqs), Len(recs))

Fetch ==
  /\ phase = "scanning"
  /\ \E h \in AfterWait :
       LET k == IF secondary THEN ToIssue(h.recs) ELSE 0
           reads == readReqs \o SubSeq(h.recs, 1, k)
           recs == SubSeq(h.recs, k + 1, Len(h.recs))
       IN
       /\ sent' = h.sent
       /\ queryInFlight' = h.fly
       /\ hole' = (MustWait /\ h.recs = <<>> /\ h.sent < Rows)
       /\ \/ /\ reads = <<>> /\ recs = <<>>      \* "No results left"
             /\ phase' = "eof"
             /\ readReqs' = reads
             /\ queryRecords' = recs
             /\ UNCHANGED out
          \/ /\ secondary /\ reads # <<>>
             /\ out' = Append(out, NextRead(reads))
             /\ readReqs' = Tail(reads)
             /\ queryRecords' = recs
             /\ UNCHANGED phase
          \/ /\ ~secondary /\ recs # <<>>
             /\ out' = Append(out, Head(recs))
             /\ queryRecords' = Tail(recs)
             /\ readReqs' = reads
             /\ UNCHANGED phase
  /\ UNCHANGED secondary

(* a failed page, a malformed index entry, a failed read, or a row that    *)
(* cannot be converted: the status is an error, the scan is given up and   *)
(* what the handle still holds is never looked at again                    *)
FetchFails ==
  /\ phase = "scanning"
  /\ phase' = "error"
  /\ queryInFlight' = (queryInFlight /\ ~MustWait)
  /\ UNCHANGED <<secondary, sent, queryRecords, readReqs, out, hole>>

Next == Fetch \/ FetchFails

Spec == Init /\ [][Next]_vars

-----------------------------------------------------------------------------
(* the caller sees the rows handed out and the status of the last fetch *)
Ordered ==
  INSTANCE OrderedScan
    WITH Rows <- Rows, out <- out, phase <- phase, sent <- sent, hole <- hole

(* However the store cuts its pages and however many reads are in flight,  *)
(* the caller sees the rows of the query once each and in the order of the *)
(* scan.  PgGate_DmlFetch reports the end only when every row the store    *)
(* has sent was handed out, and before the last row only on an empty page, *)
(* which it takes for the end of the data.                                 *)
ImplementsOrderedScan == Ordered!Spec

=============================================================================
