CONSTANTS
  Session = {s1, s2}
  Txn = {x1, x2, x3}
  NoTxn = NoTxn
  MaxPg = 1
  StackSize = 2
SPECIFICATION Spec
SYMMETRY Symmetry
INVARIANTS
  TypeOK
  AckedCommitDurable
  RolledBackLeavesNothing
  OwnSnapshot
  AtomicUnit
  HandleLive
