CONSTANTS
  i1 = i1
  s1 = s1
  Inst = {i1, i2}
  Session = {s1, s2}
  MaxVer = 2
SPECIFICATION MCFairSpec
INVARIANTS
  TypeOK
  NoLostIncrement
  ManagerNotAhead
PROPERTY
  OwnChangesSeen
