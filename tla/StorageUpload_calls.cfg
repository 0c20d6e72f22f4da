SPECIFICATION FairSpec
CONSTANTS
  p1 = p1
  n1 = n1
  n2 = n2
  Calls = {c1, c2}
  PayloadOf <- MCRetry
  Segments = {s1, s2}
  Nodes = {n1, n2}
  Configs <- MCConfigs
CHECK_DEADLOCK FALSE
INVARIANTS
  TypeOK
  PaidAfterConnecting
  StagedWhileNeeded
PROPERTIES
  ImplementsService
  EveryCallEnds
  ReturnedBecomesDownloadable
