CONSTANTS
  Sess = {s1}
  Row = {r1, r2}
  Val = {a}
  Null = Null
  Ver = Ver
  Kinds = {"user"}
  MaxTxn = 3
  None = None
CHECK_DEADLOCK FALSE
SPECIFICATION Spec
INVARIANT
  UserEntriesLeadToRows
