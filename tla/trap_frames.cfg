SPECIFICATION MCSpec
CONSTANTS
  WordSize = 20
  TablePage = {page0}
  ResetTable = page0
  BootAddress = 0
  Unmapped = {12}
  Devices = {16}
  FaultAddresses = {8}
  BranchTargets = {16}
  GuestWrites <- MCGuestWrites
  MaxInstructions = 9
INVARIANTS TypeOK NothingPending CountersAgree
  MachineFrameIntact SupervisorFrameIntact
PROPERTIES PrivilegeRisesOnlyByTrap ReturnsResumeInterrupted
CHECK_DEADLOCK FALSE
