CONSTANTS
  Session = {s1}
  Txn = {x1, x2}
  NoTxn = NoTxn
  MaxPg = 1
  StackSize = 5
SPECIFICATION Spec
INVARIANT
  AbortDoesNotRaise
