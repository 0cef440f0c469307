SPECIFICATION Spec
CONSTANTS
  Modules = 2
  Blocks = 2
  Setups <- MCNoModules
  MaxRuns = 2
  MaxFailures = 2
  MaxResets = 2
  MaxPosted = 2
PROPERTY
  ZeroErasesNoBoot
CHECK_DEADLOCK FALSE
