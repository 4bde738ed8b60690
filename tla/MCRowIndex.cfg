CONSTANTS
  Sess = {s1, s2}
  Row = {r1, r2}
  Val = {a}
  Null = Null
  Ver = Ver
  Kinds = {"user", "catalog"}
  MaxTxn = 3
  None = None
CHECK_DEADLOCK FALSE
SPECIFICATION Spec
SYMMETRY Symmetry
INVARIANTS
  TypeOK
  CatalogIndexExact
  UserIndexComplete
