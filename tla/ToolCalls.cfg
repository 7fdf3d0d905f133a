SPECIFICATION Spec
CONSTANTS
  t1 = t1
  t2 = t2
  a1 = a1
  a2 = a2
  o1 = o1
  o2 = o2
  c1 = c1
  d1 = d1
  d2 = d2
  Turns = {t1, t2}
  Accounts = {a1, a2}
  Orgs = {o1, o2}
  Contacts = {c1}
  Scopes <- MCScopes
  None = None
  Said = {a1}
  Configs <- MCConfigs
  MaxListLimit = 2
  Docs = {d1, d2}
  NoList = NoList
  MaxReply = 3
  ToolSets <- MCToolSets
  MaxCalls = 3
  MaxOthers = 1
  MaxFaults = 1
CHECK_DEADLOCK FALSE
INVARIANTS
  TypeOK
  StoredAsReported
  SearchKeepsMatches
PROPERTY ReadsShowWrites
