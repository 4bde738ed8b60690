------------------------- MODULE MCCatalogVersion -------------------------
(* CatalogVersion for TLC: the initial states put the sessions in one      *)
(* instance or in two, once for each way up to renaming (liveness is       *)
(* checked, so there is no symmetry).                                      *)
EXTENDS CatalogVersion

CONSTANTS s1, i1

MCInit == Init /\ home[s1] = i1
MCSpec == MCInit /\ [][Next]_vars
MCFairSpec == MCSpec /\ Fairness
===========================================================================
