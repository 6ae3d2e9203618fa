SPECIFICATION FairSpec
CONSTANTS
  gpu = gpu
  stick = stick
  BUS_SUBSYSTEMS <- MCBuses
  Absent <- MCAbsent
  Devices <- MCDevices
  Bus <- MCBus
  Supported <- MCSupported
  MayFail = FALSE
  AutoDetect = TRUE
  MaxNow = 3
  MaxScans = 1
INVARIANTS
  TypeOK
  OnlySameSecondIsLost
PROPERTIES
  ChangeIsListed
