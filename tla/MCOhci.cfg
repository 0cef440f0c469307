SPECIFICATION Spec
CONSTANTS
  LpsRetries = 2
  WaitMore = 1
  PollRounds = 2
  GenMod = 3
  MaxResets = 3
  MaxErrors = 2
  PostedWrites = TRUE
  KeepGoing = TRUE
INVARIANTS
  TypeOK
  ClosedFilterIsSeen
  HandlerCanFinish
  PhyHasClock
PROPERTIES
  WarningMeansNoReset
  EventsAreHandled
  RemoteDmaSpec
CHECK_DEADLOCK FALSE
