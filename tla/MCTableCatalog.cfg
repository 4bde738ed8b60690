CONSTANTS
  Inst = {i1, i2}
  Backend = {b1, b2}
  b1 = b1
  Tab = {t1, t2}
  Idx = {x1}
  Name = {n1}
  None = None
SPECIFICATION MCSpec
SYMMETRY Symmetry
INVARIANTS
  TypeOK
  CachesAgree
  MetadataWhole
  CacheCurrent
