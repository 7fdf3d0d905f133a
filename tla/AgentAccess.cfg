SPECIFICATION Spec
CONSTANTS
  owner = owner
  member = member
  home = home
  other = other
  Accounts = {owner, member}
  Orgs = {home, other}
  None = None
  AgentOwner = owner
  AgentOrg = home
  MaxCommits = 3
CHECK_DEADLOCK FALSE
INVARIANTS
  TypeOK
  AdmittedCouldUse
  TurnActsInOwnOrganization
  EntitledIsAdmitted
  AuditMissesNobody
