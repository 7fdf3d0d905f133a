SPECIFICATION FairSpec
CONSTANTS
  q1 = q1
  q2 = q2
  q3 = q3
  i1 = i1
  i2 = i2
  s1 = s1
  s2 = s2
  Requests = {q1, q2, q3}
  Instances = {i1, i2}
  Sessions = {s1, s2}
  Workloads <- MCWorkloads
  Nobody = Nobody
  PoolSize = 1
  MaxFaults = 1
CHECK_DEADLOCK FALSE
INVARIANTS
  TypeOK
  OnlySetupsExhaustThePool
  HistoryIsThePast
PROPERTIES
  RecordSpec
  TurnsEnd
