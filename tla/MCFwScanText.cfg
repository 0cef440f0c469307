SPECIFICATION Spec
CONSTANTS
  Devices <- MCDevices
  Rom <- MCRom
  Crc16 <- MCCrc16
  Buses <- MCBuses
  Retries = 1
  MaxChanges = 2
  MaxSignals = 2
INVARIANT
  TextIsOwnOrEmpty
CHECK_DEADLOCK FALSE
