SPECIFICATION FairSpec
CONSTANTS
  Irp = {r1, r2}
  Extent <- MCExtent
  Size = 4
  SectorSize = 2
  Word = 8
  MaxTries = 2
  MaxNames = 2
  MaxRounds = 2
  None = None
CHECK_DEADLOCK FALSE
INVARIANTS
  WakeupKept
  ItemsAlive
  HandleKept
  TransferFits
PROPERTIES
  EveryIrpCompletes
