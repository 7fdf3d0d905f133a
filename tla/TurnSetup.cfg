SPECIFICATION Spec
CONSTANTS
  q1 = q1
  q2 = q2
  a1 = a1
  a2 = a2
  u1 = u1
  c1 = c1
  t1 = t1
  Requests = {q1, q2}
  Accounts = {a1, a2}
  Uuids = {u1}
  Contacts = {c1}
  KnowledgeTools = {}
  DbTools = {}
  EmailTools = {}
  HtmlTools = {}
  ContactTools = {t1}
  None = None
  MaxFaults = 1
  MaxDrops = 1
SYMMETRY Symmetry
CHECK_DEADLOCK FALSE
INVARIANTS
  ReadyOnOwnSession
  ContactToolsScoped
PROPERTY SessionsNeverRebound
