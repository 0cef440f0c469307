SPECIFICATION CallSpec
CONSTANTS
  B = 4
  Inputs <- MCInputs
  Page = 3
  Limit32 = 18
  ULLMax = 255
  MaxFixups = 3
  UShort = 16
  AtNull = 197
INVARIANTS
  Divides
  DividendIsKept
  OptionsInForce
  FileIsRestored
  FindsTheHighest
PROPERTY
  ReturnsOnOrderedMap
CHECK_DEADLOCK FALSE
