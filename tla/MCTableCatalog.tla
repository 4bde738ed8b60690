--------------------------- MODULE MCTableCatalog ---------------------------
(***************************************************************************)
(* TableCatalog for TLC.  The variable part chooses one of two small       *)
(* clusters: one backend in each of two instances, or two backends that    *)
(* share the caches of an instance.                                        *)
(***************************************************************************)
EXTENDS TableCatalog, TLC

CONSTANT b1

VARIABLE part

InPart(s) == IF part = None THEN s[2] = b1 ELSE InstOf(s) = part

MCInit == Init /\ part \in Inst \cup {None}

MCNext ==
  /\ \/ \E s \in Session : InPart(s) /\ Step(s)
     \/ \E i \in Inst : part \in {i, None} /\ Restart(i)
  /\ UNCHANGED part

MCSpec == MCInit /\ [][MCNext]_<<vars, part>>

Symmetry == Permutations(Inst) \cup Permutations(Tab)
=============================================================================
