SPECIFICATION Spec
CONSTANTS
  Period = 4
  Ms = 3
  Second = 2
  Dots = 1
  Tries = 1
  KbTries = 1
  Pulses = 2
  MaxGaps = {3, 5}
  MaxTicks = 10
  Uarts <- MCUarts
  Buses <- MCBuses
  BiosAreas <- MCBiosAreas
  Quirk = 2
INVARIANTS
  NeverEarly
  InTime
  OutputReachesPort
PROPERTY
  StartsOrReboots
CHECK_DEADLOCK FALSE
