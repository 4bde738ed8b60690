CONSTANTS
  Boot = {b1, b2}
  Server = {s1}
  Thread = {t1, t2}
  Commands = 2
  MaxVersion = 2
  None = None
SPECIFICATION FairSpec
INVARIANTS
  TypeOK
  DoneMeansComplete
  StartedOnce
  SessionsHaveGate
  DoneKeptByTheAware
PROPERTY
  FlagBringsGate
