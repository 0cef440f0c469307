SPECIFICATION Spec
CONSTANTS
  Step = 2
  Tries = 1
  MaxNodes = 3
  Room = 4
  Guid <- MCGuid
  Buses <- MCBuses
  Cmds <- MCCmds
  MaxResets = 1
  MaxChanges = 2
INVARIANTS
  TypeOK
  NoHoles
  SuccessIsComplete
  PeekShowsMemory
PROPERTIES
  Ends
CHECK_DEADLOCK FALSE
