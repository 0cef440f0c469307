SPECIFICATION Spec
CONSTANTS
  Page = 3
  Limit32 = 18
  Maps <- MCMaps
  Lengths <- MCLengths
  Limits <- MCLimits
PROPERTY
  ReturnsOnUnalignedBlocks
CHECK_DEADLOCK FALSE
