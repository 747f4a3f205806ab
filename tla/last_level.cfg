SPECIFICATION MCSpec
CONSTANTS
  WordSize = 32
  TablePage <- MCPages
  ResetTable <- MCResetPage
  BootAddress = 0
  Unmapped <- MCUnmappedWords
  Devices <- MCDeviceWords
  FaultAddresses <- MCClaimsFaults
  BranchTargets = {0}
  GuestWrites <- MCGuestWrites
  Entries = 2
  RamPages <- MCRam
  DevicePages <- MCDevices
  Contents <- MCContents
  Register = {x0, x1}
  ZeroRegister = x0
  DataAddresses <- MCClaimsAddresses
  InitialMemory <- MCInitialMemory
  MaxInstructions = 6
PROPERTY LastLevelPointerFaults
CHECK_DEADLOCK FALSE
