--------------------------- MODULE MCOidReserve ---------------------------
(***************************************************************************)
(* OidReserve for TLC: OIDs of a few bits, ranges of two.  The variable    *)
(* part chooses one of two small clusters: two instances that race in one  *)
(* database, or one instance that crashes and restarts, with a backend in  *)
(* each of two databases.                                                  *)
(***************************************************************************)
EXTENDS OidReserve

CONSTANTS i1, i2, d1, d2

VARIABLE part

MCSession == {<<i1, d1, 1>>, <<i2, d1, 1>>, <<i1, d2, 1>>}

InPart(s) ==
  \/ part = "race" /\ DbOf(s) = d1
  \/ part = "restart" /\ InstOf(s) = i1

MCInit == Init /\ part \in {"race", "restart"}

MCNext ==
  /\ \/ \E s \in Session : InPart(s) /\ Step(s)
     \/ part = "restart" /\ (Checkpoint(i1) \/ Restart(i1))
  /\ UNCHANGED part

MCSpec ==
  /\ MCInit /\ [][MCNext]_<<vars, part>>
  /\ \A s \in Session : WF_vars(InPart(s) /\ Proceed(s))
===========================================================================
