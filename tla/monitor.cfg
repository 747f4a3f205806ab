SPECIFICATION MCSpec
CONSTANTS
  WordSize = 16
  TablePage = {page0}
  ResetTable = page0
  BootAddress = 0
  Unmapped = {12}
  Devices = {}
  FaultAddresses = {8}
  BranchTargets = {}
  GuestWrites <- MCGuestWrites
  MaxDepth = 2
  NoFile = NoFile
  MaxInstructions = 4
INVARIANTS NothingPendingOutside ClockFollows
PROPERTY LookingChangesOnlyTval
CHECK_DEADLOCK FALSE
