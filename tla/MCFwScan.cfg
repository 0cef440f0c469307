SPECIFICATION Spec
CONSTANTS
  Devices <- MCDevices
  Rom <- MCRom
  Crc16 <- MCCrc16
  Buses <- MCBuses
  Retries = 1
  MaxChanges = 1
  MaxSignals = 2
INVARIANTS
  TypeOK
  ListShowsTheBus
PROPERTY
  InterruptEnds
CHECK_DEADLOCK FALSE
