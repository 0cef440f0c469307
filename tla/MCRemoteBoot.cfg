SPECIFICATION Spec
CONSTANTS
  Modules = 2
  Blocks = 2
  Setups <- MCSetups
  MaxRuns = 3
  MaxFailures = 2
  MaxResets = 2
  MaxPosted = 2
INVARIANTS
  TypeOK
  StartedIsComplete
PROPERTIES
  NoLostBoot
  NoDmaToRunning
  DoneIsStarted
CHECK_DEADLOCK FALSE
