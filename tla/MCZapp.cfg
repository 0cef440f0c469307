SPECIFICATION Spec
CONSTANTS
  U1 = u1
  U2 = u2
  Units = {u1, u2}
  Regions = {"old", "fixed", "ignored", "nic", "usb", "disk"}
  Firmwares <- MCFirmwares
  Buses <- MCBuses
  CmdLines <- MCCmdLines
INVARIANTS
  TablesRight
  RootTablesAgree
  DupTakesTheRepaired
  RoomIsEnough
  RepairsInForce
PROPERTY
  Finishes
CHECK_DEADLOCK FALSE
