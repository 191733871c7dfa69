SPECIFICATION Spec
CONSTANTS
  Io = {io1}
  Pnp = {pnp1}
  Items = {item1}
  Thread = thread
  None = none
  MayHold = FALSE
  MaxUsage = 2
INVARIANTS
  Ownership
  Accounting
  PromptWake
  StatusWaiterAlive
PROPERTIES
  NoneAfterStop
