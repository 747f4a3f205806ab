SPECIFICATION BootSpec
CONSTANTS
  FirmwareSizes <- Firmwares
  KernelSizes <- Kernels
INVARIANTS
  TablesHoldTheirContents
  OutputIsWellFormed
  TreeIsConsistent
  DescribesTheMachine
  ImagesLieApart
  TreeFitsLowRam
  StubHandsOver
PROPERTY BuildsATree
CHECK_DEADLOCK FALSE
