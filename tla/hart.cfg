SPECIFICATION MCSpec
CONSTANTS
  WordSize = 32
  TablePage <- MCPages
  ResetTable <- MCResetPage
  BootAddress = 0
  Unmapped <- MCUnmappedWords
  Devices <- MCDeviceWords
  FaultAddresses <- MCFaultAddresses
  BranchTargets = {0}
  GuestWrites <- MCGuestWrites
  Entries = 2
  RamPages <- MCRam
  DevicePages <- MCDevices
  Contents <- MCContents
  Register = {x0, x1}
  ZeroRegister = x0
  DataAddresses <- MCDataAddresses
  InitialMemory <- MCInitialMemory
  MaxInstructions = 6
INVARIANTS FlagsRecordAccesses ReservationLinked
PROPERTIES Spec StoresStayInMapping PlainFaultsRestartable
CHECK_DEADLOCK FALSE
