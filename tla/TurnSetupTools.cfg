SPECIFICATION FairSpec
CONSTANTS
  q1 = q1
  a1 = a1
  u1 = u1
  c1 = c1
  k1 = k1
  d1 = d1
  e1 = e1
  t1 = t1
  Requests = {q1}
  Accounts = {a1}
  Uuids = {u1}
  Contacts = {c1}
  KnowledgeTools = {k1}
  DbTools = {d1}
  EmailTools = {e1}
  HtmlTools = {e1}
  ContactTools = {t1}
  None = None
  MaxFaults = 2
  MaxDrops = 1
CHECK_DEADLOCK FALSE
INVARIANTS
  TypeOK
  RetryRecovers
  BuiltToolsAreExplained
PROPERTIES
  ConnectionSpec
  SetupEnds
