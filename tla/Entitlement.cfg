SPECIFICATION Spec
CONSTANTS
  caller = caller
  boss = boss
  Accounts = {caller, boss}
  Caller = caller
  None = None
  AgentTools <- MCAgentTools
  GRACE_DAYS = 1
  MaxDay = 2
CHECK_DEADLOCK FALSE
INVARIANTS
  TypeOK
  GatedToolsArePaidFor
  OpenToolsAreBuilt
