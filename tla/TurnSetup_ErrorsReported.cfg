SPECIFICATION Spec
CONSTANTS
  q1 = q1
  a1 = a1
  u1 = u1
  c1 = c1
  t1 = t1
  Requests = {q1}
  Accounts = {a1}
  Uuids = {u1}
  Contacts = {c1}
  KnowledgeTools = {}
  DbTools = {}
  EmailTools = {}
  HtmlTools = {}
  ContactTools = {t1}
  None = None
  MaxFaults = 1
  MaxDrops = 1
CHECK_DEADLOCK FALSE
INVARIANT SetupErrorsReported
