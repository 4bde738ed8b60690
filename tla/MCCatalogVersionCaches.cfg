CONSTANTS
  i1 = i1
  s1 = s1
  Inst = {i1, i2}
  Session = {s1, s2, s3}
  MaxVer = 3
SPECIFICATION MCSpec
INVARIANT
  CacheValid
