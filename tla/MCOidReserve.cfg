CONSTANTS
  i1 = i1
  i2 = i2
  d1 = d1
  d2 = d2
  Inst = {i1, i2}
  Db = {d1, d2}
  Session <- MCSession
  None = None
  OidMod = 6
  FirstNormal = 2
  FirstOid = 1
  Count = 2
  MaxRestart = 1
SPECIFICATION MCSpec
PROPERTY LockReleased
INVARIANTS
  TypeOK
  CommittedRangesDisjoint
  InstanceNeverRepeats
  NormalOidsOnly
  NodesDistinctUnlessLost
