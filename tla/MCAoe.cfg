SPECIFICATION FairSpec
CONSTANTS
  Disk = {d1}
  Irp = {r1}
  DiskOf <- MCDiskOf
  Sectors <- MCSectors
  MtuSectors = 2
  MaxPending = 0
  MaxId = 3
  None = none
CHECK_DEADLOCK FALSE
INVARIANTS
  TagCountAccurate
  NoPlaceLost
  OwnAnswer
  ProvenSize
  NothingHeld
PROPERTIES
  ImplementsIrps
  EveryIrpCompletes
