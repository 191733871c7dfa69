SPECIFICATION Spec
CONSTANTS
  Io = {io1, io2}
  Pnp = {pnp1}
  Items = {}
  Thread = thread
  None = none
  MayHold = TRUE
  MaxUsage = 1
SYMMETRY Symmetry
CHECK_DEADLOCK FALSE
INVARIANTS
  SentinelInQueue
