----------------------------- MODULE MCRowIndex -----------------------------
(* RowIndex for TLC. *)
EXTENDS RowIndex, TLC

Symmetry == Permutations(Sess) \cup Permutations(Row)
=============================================================================
