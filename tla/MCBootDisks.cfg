SPECIFICATION ChainFairSpec
CONSTANTS
  g4d = g4d
  memdisk = memdisk
  other = other
  slot1 = slot1
  slot2 = slot2
  ram = ram
  Hook = {g4d, memdisk, other}
  First = g4d
  Prev <- MCPrev
  Vendor <- MCVendor
  Drives <- MCDrives
  Mbft = {memdisk}
  Busy = {g4d}
  Boot = TRUE
  Pdo = {p1, p2, p3, p4}
  Fdo = {f1, f2, f3, f4}
  MainBus = mainbus
  Null = null
CHECK_DEADLOCK FALSE
INVARIANTS
  ClaimGuards
  ReportedOnce
PROPERTIES
  EveryDiskFound
