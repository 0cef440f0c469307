SPECIFICATION Spec
CONSTANTS
  Page = 4
  Limit32 = 84
  MemSize = 80
  Code = 4
  Maps <- TwoBlocks
  Chains <- MCChains
  Kernels <- MCKernels
  Allocs <- MCAllocs
  PhysMax <- MCPhysMax
  Image <- MCImage
  RawLen <- MCRawLen
  FullLen <- MCFullLen
  Bases = {28, 32}
INVARIANTS
  ModulesIntact
  ProtectedIntact
  StageIsLoaded
PROPERTY
  MovedOnce
CHECK_DEADLOCK FALSE
