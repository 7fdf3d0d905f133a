SPECIFICATION Spec
CONSTANTS
  own = own
  peer = peer
  far = far
  llm = llm
  index = index
  Credentials = {own, peer, far}
  Own = {own}
  Types = {llm, index}
  TypeOf <- MCTypeOf
  None = None
CHECK_DEADLOCK FALSE
INVARIANTS
  TypeOK
  ResolvedWasUsable
  ExplicitChoiceWins
  NothingFoundIsExplained
PROPERTY PruneLeavesUsable
