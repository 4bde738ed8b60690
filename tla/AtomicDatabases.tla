--------------------------- MODULE AtomicDatabases ---------------------------
(***************************************************************************)
(* What CREATE, ALTER ... RENAME and DROP DATABASE promise those who look  *)
(* at pg_database: a database appears whole and under its name in a single *)
(* step, keeps existing until it is dropped, and an OID that was given up  *)
(* or dropped never names a database again.                                *)
(***************************************************************************)
CONSTANTS
  Id,      \* OIDs of databases
  Name,    \* their names
  Free,    \* an OID not handed out
  Coming,  \* an OID whose database is being made
  Gone     \* an OID whose database was dropped, or never came to be

VARIABLE named   \* named[d]: the name of d, or Free, Coming or Gone

Init == named \in [Id -> Name \cup {Free}]

Pick(d) ==
  /\ named[d] = Free
  /\ named' = [named EXCEPT ![d] = Coming]

Appear(d, n) ==
  /\ named[d] = Coming
  /\ named' = [named EXCEPT ![d] = n]

(* an OID may be wasted; an instance that stops gives up all it was making *)
GiveUp(D) ==
  /\ \A d \in D : named[d] \in {Free, Coming}
  /\ named' = [d \in Id |-> IF d \in D THEN Gone ELSE named[d]]

(* one transaction may rename several *)
Rename(f) ==
  named' = [d \in Id |-> IF named[d] \in Name THEN f[d] ELSE named[d]]

Drop(d) ==
  /\ named[d] \in Name
  /\ named' = [named EXCEPT ![d] = Gone]

Next ==
  \/ \E D \in SUBSET Id : GiveUp(D)
  \/ \E d \in Id : Pick(d) \/ Drop(d)
  \/ \E d \in Id, n \in Name : Appear(d, n)
  \/ \E f \in [Id -> Name] : Rename(f)

Spec == Init /\ [][Next]_named
=============================================================================
