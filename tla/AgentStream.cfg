SPECIFICATION FairSpec
CONSTANTS
  r1 = r1
  r2 = r2
  RunIds = {r1, r2}
  NoRun = NoRun
  MaxRounds = 2
  MaxChunks = 2
CHECK_DEADLOCK FALSE
INVARIANTS
  TypeOK
  StreamsEndWithTerminal
  ApprovalsAnnouncedWhole
  OneQuestionOneAnswer
  OutcomeIsStored
  ReplayMatchesStream
PROPERTIES
  ContractSpec
  RecordSpec
  EndIsFinal
  StreamEnds
