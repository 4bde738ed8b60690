----------------------------- MODULE RangeScan -----------------------------
(***************************************************************************)
(* From the conditions of a query to the key range SKV scans: the loop of  *)
(* BuildRangeRecords (storage.cpp) and the conversion to a full scan in    *)
(* PgGate_ExecSelect (pg_gate_api.cpp).                                    *)
(*                                                                         *)
(* A row is the tuple of its key columns.  The two record builders append  *)
(* the next field whatever column the value came from, so a key is a       *)
(* sequence of values, and several bounds on one column may make it longer *)
(* than the table's key.  SKV refuses such a value if its field has        *)
(* another type, and the query fails; the model lets it through.           *)
(***************************************************************************)
EXTENDS Naturals, Sequences

CONSTANTS
  NCols,     \* key columns
  MaxVal,    \* largest value of a column
  MaxConds   \* bound: conditions of a query

ASSUME RangeAssumption ==
  /\ NCols \in Nat \ {0}
  /\ MaxVal \in Nat
  /\ MaxConds \in Nat

Col == 1..NCols
Val == 0..MaxVal
Op == {"EQ", "GTE", "GT", "LT", "LTE"}
Cond == [col : Col, op : Op, val : Val]
Row == [Col -> Val]

(* sorted_args: the conditions in the order of their columns; several on   *)
(* one column stay in the order of the query                               *)
SortedArgs ==
  {q \in UNION {[1..n -> Cond] : n \in 0..MaxConds} :
     \A j, k \in DOMAIN q : j < k => q[j].col <= q[k].col}

VARIABLES
  args,         \* sorted_args
  unsupported,  \* a type or a descending key that cannot be range scanned
  pos,          \* condition the loop is at
  start, end,   \* the record builders, without table and index id
  left,         \* leftover_exprs
  startIdx,     \* start_idx
  didBranch,    \* didBranch
  isRangeScan,  \* isRangeScan
  built         \* is the query ready to be sent

buildVars == <<args, unsupported, pos, start, end, left, startIdx, didBranch,
               isRangeScan, built>>

BuildTypeOK ==
  /\ args \in SortedArgs
  /\ unsupported \in BOOLEAN
  /\ pos \in 1..(MaxConds + 1)
  /\ start \in Seq(Val) /\ Len(start) <= MaxConds
  /\ end \in Seq(Val) /\ Len(end) <= MaxConds
  /\ left \subseteq Cond
  /\ startIdx \in 0..NCols
  /\ didBranch \in BOOLEAN
  /\ isRangeScan \in BOOLEAN
  /\ built \in BOOLEAN

BuildInit ==
  /\ args \in SortedArgs
  /\ unsupported \in BOOLEAN
  /\ pos = 1
  /\ start = <<>> /\ end = <<>>
  /\ left = {}
  /\ startIdx = 0
  /\ didBranch = FALSE
  /\ isRangeScan = FALSE
  /\ built = FALSE

-----------------------------------------------------------------------------
Arg == args[pos]

(* mutant: a gap of one key column is let through *)
AdjacentLoose == Arg.col - startIdx \in {0, 1, 2}

(* the column is the last one used, or the one after it *)
Adjacent == Arg.col - startIdx \in {0, 1}

(* mutant: start_idx already points at the next column *)
NewStartIdxNext == Arg.col + 1

(* start_idx = cur_idx *)
NewStartIdx == Arg.col

At(ops) ==
  /\ ~built
  /\ pos <= Len(args)
  /\ ~didBranch
  /\ Arg.op \in ops
  /\ pos' = pos + 1
  /\ UNCHANGED <<args, unsupported, built>>

Leave == left' = left \cup {Arg}

AfterBranch ==
  /\ ~built
  /\ pos <= Len(args)
  /\ didBranch
  /\ pos' = pos + 1
  /\ Leave
  /\ UNCHANGED <<args, unsupported, start, end, startIdx, didBranch, isRangeScan,
                 built>>

Equal ==
  /\ At({"EQ"})
  /\ IF Adjacent
     THEN /\ start' = Append(start, Arg.val)
          /\ end' = Append(end, Arg.val)
          /\ startIdx' = NewStartIdx
          /\ UNCHANGED <<left, didBranch>>
     ELSE /\ didBranch' = TRUE
          /\ Leave
          /\ UNCHANGED <<start, end, startIdx>>
  /\ UNCHANGED isRangeScan

(* GT and GTE: the value bounds the start; the comparison stays a filter *)
LowerBound ==
  /\ At({"GT", "GTE"})
  /\ Leave
  /\ IF Adjacent
     THEN /\ start' = Append(start, Arg.val)
          /\ startIdx' = NewStartIdx
          /\ isRangeScan' = TRUE
          /\ UNCHANGED didBranch
     ELSE /\ didBranch' = TRUE
          /\ UNCHANGED <<start, startIdx, isRangeScan>>
  /\ UNCHANGED end

(* mutant: the operators whose value bounds the end include LTE *)
UpperOpsLte == {"LT", "LTE"}

UpperOps == {"LT"}

UpperBound ==
  /\ At(UpperOps)
  /\ Leave
  /\ IF Adjacent
     THEN /\ end' = Append(end, Arg.val)
          /\ startIdx' = NewStartIdx
          /\ isRangeScan' = TRUE
          /\ UNCHANGED didBranch
     ELSE /\ didBranch' = TRUE
          /\ UNCHANGED <<end, startIdx, isRangeScan>>
  /\ UNCHANGED start

(* LTE cannot bound the end, which is exclusive *)
NotPushed ==
  /\ At(Op \ ({"EQ", "GT", "GTE"} \cup UpperOps))
  /\ Leave
  /\ didBranch' = TRUE
  /\ isRangeScan' = TRUE
  /\ UNCHANGED <<start, end, startIdx>>

(* PgGate_ExecSelect: a range scan that the key cannot support becomes a   *)
(* full scan; conditions already folded into the keys are forgotten        *)
Finish ==
  /\ ~built
  /\ pos = Len(args) + 1
  /\ built' = TRUE
  /\ IF isRangeScan /\ unsupported
     THEN start' = <<>> /\ end' = <<>>
     ELSE UNCHANGED <<start, end>>
  /\ UNCHANGED <<args, unsupported, pos, left, startIdx, didBranch, isRangeScan>>

BuildNext == AfterBranch \/ Equal \/ LowerBound \/ UpperBound \/ NotPushed \/ Finish

BuildSpec == BuildInit /\ [][BuildNext]_buildVars

-----------------------------------------------------------------------------
Sat(r, c) ==
  CASE c.op = "EQ"  -> r[c.col] = c.val
    [] c.op = "GT"  -> r[c.col] > c.val
    [] c.op = "GTE" -> r[c.col] >= c.val
    [] c.op = "LT"  -> r[c.col] < c.val
    [] c.op = "LTE" -> r[c.col] <= c.val

Agrees(r, k) == \A j \in DOMAIN k : r[j] = k[j]

Beyond(r, k) == \E j \in DOMAIN k : r[j] > k[j] /\ \A m \in 1..(j - 1) : r[m] = k[m]

Before(r, k) == \E j \in DOMAIN k : r[j] < k[j] /\ \A m \in 1..(j - 1) : r[m] = k[m]

(* The rows SKV visits: from the start key on, up to the end key.  A key   *)
(* that stops early stands for all rows with that prefix; a complete end   *)
(* key is exclusive unless it equals the start key.                        *)
Scanned(r) ==
  /\ Agrees(r, start) \/ Beyond(r, start)
  /\ \/ Before(r, end)
     \/ Agrees(r, end) /\ (Len(end) < NCols \/ end = start)

Wanted(r) == \A j \in DOMAIN args : Sat(r, args[j])

(* The conditions a planner that "did its job well" sends: at most one     *)
(* lower and one upper bound, or one EQ, on a column, and once a column    *)
(* has no EQ, no condition on the columns after it.                        *)
Orderly ==
  \A j, k \in DOMAIN args : j < k =>
    \/ args[j].col < args[k].col /\ args[j].op = "EQ"
    \/ /\ args[j].col = args[k].col
       /\ args[j].op \in {"GT", "GTE"} <=> args[k].op \in {"LT", "LTE"}
       /\ args[j].op # "EQ" /\ args[k].op # "EQ"

(* Every row the query wants is visited, for every orderly list of         *)
(* conditions: gaps in the key, LTE, and the conversion to a full scan     *)
(* may only widen the scan.                                                *)
OrderlyLosesNothing ==
  built /\ Orderly => \A r \in Row : Wanted(r) => Scanned(r)

(* Nothing is left to chance by the pushdown: for an orderly list that     *)
(* stays a range scan, a visited row that passes the filter conditions     *)
(* satisfies every condition (the EQ ones are not sent as filters).        *)
OrderlyIsExact ==
  built /\ Orderly /\ ~(isRangeScan /\ unsupported) =>
    \A r \in Row : Scanned(r) /\ (\A c \in left : Sat(r, c)) => Wanted(r)

=============================================================================
