CONSTANTS
  u = u
  read = read
  other = other
  Unit = {u}
  Irp = {read, other}
  Conn = {1, 2}
  None = None
  Wide = FALSE
  Parts = 2
  UnitOf <- MCUnitOf
  Kind <- MCKind
SPECIFICATION FairSpec
CHECK_DEADLOCK FALSE
INVARIANTS
  OwnBytes
  NothingLeftBehind
PROPERTIES
  EveryIrpCompletes
