------------------------------ MODULE MCK2Txn ------------------------------
(* K2Txn for TLC: two threads of one instance over a few SKV transactions. *)
EXTENDS K2Txn, TLC

Symmetry == Permutations(Session) \cup Permutations(Txn)
=============================================================================
