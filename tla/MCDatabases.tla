---------------------------- MODULE MCDatabases ----------------------------
(* Databases for TLC. *)
EXTENDS Databases, TLC

(* all but template1 may be renamed *)
Symmetry ==
  Permutations(Inst) \cup Permutations(Session)
    \cup Permutations(Id \ {Template}) \cup Permutations(Name \ {TemplateName})
=============================================================================
